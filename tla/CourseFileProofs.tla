--------------------------- MODULE CourseFileProofs ---------------------------
(***************************************************************************)
(* Proofs about CourseFiles, for every number of nodes, size of a leaf, of *)
(* a file and of the table of descriptors, and every set of paths that is  *)
(* closed under prefixes.  A search by halves ends at the first position   *)
(* whose name is not below the one it looks for, so with an index that     *)
(* lists a directory's children, once each and by rising names (TreeOK),   *)
(* find_child finds a child exactly when there is one.  What every path    *)
(* leads to then follows from the children alone, and each call changes    *)
(* them as FileTree says.                                                  *)
(***************************************************************************)
EXTENDS CourseFiles, QueueLemmas

\* The sizes alone; what is known of paths is cited where it matters.
LEMMA SizeFacts ==
  /\ NumNodes \in Nat \ {0} /\ LeafCapacity \in Nat \ {0}
  /\ MaxData \in Nat /\ MaxOpen \in Nat /\ MaxCwd \in Nat
BY FilesAssumption

USE SizeFacts

-----------------------------------------------------------------------------
(* Searching an index *)

\* Where a search from l below h ends when the positions L are too low.
Lands(L, l, h, x) == x \in l .. h /\ (x = h \/ x \notin L) /\ \A y \in l .. x - 1 : y \in L

\* A search has one place to end.
LEMMA LandsOnce ==
  ASSUME NEW L, NEW l \in Nat, NEW h \in Nat, l <= h
  PROVE  /\ \E x : Lands(L, l, h, x)
         /\ \A x, y : Lands(L, l, h, x) /\ Lands(L, l, h, y) => x = y
<1> DEFINE S == {x \in l .. h : x = h \/ x \notin L}
<1>1. S \in SUBSET Nat /\ h \in S
  OBVIOUS
<1>2. PICK x \in S : \A y \in S : x <= y
  <2> HIDE DEF S
  <2> QED BY <1>1, LeastOf
<1>3. \A y \in l .. x - 1 : y \in L
  <2> TAKE y \in l .. x - 1
  <2>1. y \in l .. h /\ ~(x <= y)
    BY <1>2
  <2> QED BY <1>2, <2>1
<1> QED BY <1>2, <1>3 DEF Lands

\* Half of the range is enough.
LEMMA LandsInHalf ==
  ASSUME NEW L, NEW l \in Nat, NEW h \in Nat, l < h, NEW mid \in l .. h - 1, NEW x,
         \A y \in l .. mid - 1 : mid \in L => y \in L,
         mid \in L => Lands(L, mid + 1, h, x), mid \notin L => Lands(L, l, mid, x)
  PROVE  Lands(L, l, h, x)
<1>1. CASE mid \in L
  BY <1>1 DEF Lands
<1>2. CASE mid \notin L
  BY <1>2 DEF Lands
<1> QED BY <1>1, <1>2

\* f searches as Bisect does.
Searches(m, n, name, low, high, positions, f) ==
  f = [from \in low .. high |-> [to \in low .. high |->
        LET mid == from + (to - from) \div 2
        IN  IF from >= to THEN from
            ELSE IF m.nodes[m.nodes[n].index[positions[mid]]].name < name
            THEN f[mid + 1][to] ELSE f[from][mid]]]

\* The positions whose child is named below name.
TooLow(m, n, name, positions, low, high) ==
  {x \in low .. high : x < high /\ m.nodes[m.nodes[n].index[positions[x]]].name < name}

Middle(l, h) == l + (h - l) \div 2

LEMMA MiddleBetween ==
  ASSUME NEW l \in Nat, NEW h \in Nat, l < h
  PROVE  Middle(l, h) \in l .. h - 1
BY DEF Middle

\* f halves a range until it is empty.
Halves(L, low, high, f) ==
  \A l, h \in low .. high :
    /\ l >= h => f[l][h] = l
    /\ l < h => f[l][h] = IF Middle(l, h) \in L
                             THEN f[Middle(l, h) + 1][h] ELSE f[l][Middle(l, h)]

LEMMA Searched ==
  ASSUME NEW m, NEW n, NEW name, NEW low \in Nat, NEW high \in Nat, NEW positions, NEW f,
         Searches(m, n, name, low, high, positions, f)
  PROVE  Halves(TooLow(m, n, name, positions, low, high), low, high, f)
<1> SUFFICES ASSUME NEW l \in low .. high, NEW h \in low .. high
             PROVE  /\ l >= h => f[l][h] = l
                    /\ l < h =>
                         f[l][h] = IF Middle(l, h) \in TooLow(m, n, name, positions, low, high)
                                       THEN f[Middle(l, h) + 1][h] ELSE f[l][Middle(l, h)]
  BY DEF Halves
<1>0. l \in Nat /\ h \in Nat
  OBVIOUS
<1>1. l >= h => f[l][h] = l
  BY <1>0 DEF Searches
<1>2. ASSUME l < h
      PROVE  f[l][h] = IF Middle(l, h) \in TooLow(m, n, name, positions, low, high)
                           THEN f[Middle(l, h) + 1][h] ELSE f[l][Middle(l, h)]
  <2>1. Middle(l, h) \in low .. high - 1
    <3>1. Middle(l, h) \in l .. h - 1
      BY <1>0, <1>2, MiddleBetween
    <3> QED BY <1>0, <3>1
  <2>2. f[l][h] = IF m.nodes[m.nodes[n].index[positions[Middle(l, h)]]].name < name
                      THEN f[Middle(l, h) + 1][h] ELSE f[l][Middle(l, h)]
    <3>1. f[l][h] = IF l >= h THEN l
                        ELSE IF m.nodes[m.nodes[n].index[positions[Middle(l, h)]]].name < name
                        THEN f[Middle(l, h) + 1][h] ELSE f[l][Middle(l, h)]
      <4> DEFINE row(from, to) ==
                   LET mid == from + (to - from) \div 2
                   IN  IF from >= to THEN from
                       ELSE IF m.nodes[m.nodes[n].index[positions[mid]]].name < name
                       THEN f[mid + 1][to] ELSE f[from][mid]
                 g == [from \in low .. high |-> [to \in low .. high |-> row(from, to)]]
      <4>1. f = g
        BY DEF Searches
      <4>2. row(l, h) = IF l >= h THEN l
                        ELSE IF m.nodes[m.nodes[n].index[positions[Middle(l, h)]]].name < name
                        THEN f[Middle(l, h) + 1][h] ELSE f[l][Middle(l, h)]
        BY DEF Middle
      <4> HIDE DEF row
      <4>3. g[l][h] = row(l, h)
        OBVIOUS
      <4> HIDE DEF g
      <4>4. f[l][h] = g[l][h]
        BY ONLY <4>1
      <4> QED BY ONLY <4>2, <4>3, <4>4
    <3> QED BY <1>2, <3>1
  <2> QED BY <2>1, <2>2 DEF TooLow
<1> QED BY <1>1, <1>2

\* Among children in ascending order, a search finds the first not below the name.
Ascending(m, n, name, low, high, positions) ==
  \A x, y \in low .. high :
    x < y /\ y \in TooLow(m, n, name, positions, low, high)
      => x \in TooLow(m, n, name, positions, low, high)

\* The recursive function of a search is defined: there is a function that satisfies it.
LEMMA SearchExists ==
  ASSUME NEW m, NEW n, NEW name, NEW low \in Nat, NEW high \in Nat, NEW positions,
         Ascending(m, n, name, low, high, positions)
  PROVE  \E f : Searches(m, n, name, low, high, positions, f)
<1> DEFINE L == TooLow(m, n, name, positions, low, high)
           D == low .. high
           f == [l \in D |-> [h \in D |-> IF l >= h THEN l ELSE CHOOSE x : Lands(L, l, h, x)]]
           round(l, h) ==
             LET mid == l + (h - l) \div 2
             IN  IF l >= h THEN l
                 ELSE IF m.nodes[m.nodes[n].index[positions[mid]]].name < name
                 THEN f[mid + 1][h] ELSE f[l][mid]
<1>1. ASSUME NEW l \in low .. high, NEW h \in low .. high, l <= h
      PROVE  Lands(L, l, h, f[l][h])
  <2>1. CASE l = h
    BY <2>1 DEF Lands
  <2>2. CASE l # h
    <3>1. f[l][h] = CHOOSE x : Lands(L, l, h, x)
      BY <1>1, <2>2
    <3> HIDE DEF f, L
    <3> QED BY <1>1, <3>1, LandsOnce
  <2> QED BY <2>1, <2>2
<1>2. ASSUME NEW l \in D, NEW h \in D PROVE f[l][h] = round(l, h)
  <2>2. CASE l >= h
    BY <2>2
  <2>3. CASE l < h
    <3>0. l \in Nat /\ h \in Nat
      OBVIOUS
    <3> DEFINE mid == Middle(l, h)
               x == IF mid \in L THEN f[mid + 1][h] ELSE f[l][mid]
    <3>1. mid \in l .. h - 1
      BY <2>3, <3>0, MiddleBetween
    <3>2. mid \in L <=> m.nodes[m.nodes[n].index[positions[mid]]].name < name
      BY <3>1 DEF TooLow
    <3>3. round(l, h) = x
      <4>1. round(l, h) = IF m.nodes[m.nodes[n].index[positions[mid]]].name < name
                       THEN f[mid + 1][h] ELSE f[l][mid]
        <5> HIDE DEF f
        <5> QED BY <2>3 DEF Middle
      <4> HIDE DEF f, L, mid, round
      <4> QED BY <3>2, <4>1
    <3>4. (mid \in L => Lands(L, mid + 1, h, x)) /\ (mid \notin L => Lands(L, l, mid, x))
      <4>1. mid + 1 \in low .. high /\ mid + 1 <= h /\ mid \in low .. high /\ l <= mid
        BY <3>1
      <4> HIDE DEF f, L, mid
      <4> QED BY <1>1, <4>1
    <3>5. \A y \in l .. mid - 1 : mid \in L => y \in L
      <4> HIDE DEF mid
      <4> QED BY <3>1 DEF Ascending
    <3>6. Lands(L, l, h, x)
      <4> HIDE DEF f, L, mid, x
      <4> QED BY <2>3, <3>0, <3>1, <3>4, <3>5, LandsInHalf
    <3>7. Lands(L, l, h, f[l][h])
      <4> HIDE DEF f, L
      <4> QED BY <1>1, <2>3
    <3> HIDE DEF f, L, mid, x, round
    <3> QED BY <2>3, <3>3, <3>6, <3>7, LandsOnce
  <2> HIDE DEF f, round
  <2> QED BY <2>2, <2>3
<1>3. f = [l \in D |-> [h \in D |-> round(l, h)]]
  <2>1. f = [l \in D |-> [h \in D |-> f[l][h]]]
    OBVIOUS
  <2> HIDE DEF f, round
  <2> QED BY <1>2, <2>1
<1>4. Searches(m, n, name, low, high, positions, f)
  <2> HIDE DEF f
  <2> QED BY <1>3 DEF Searches
<1> HIDE DEF f
<1> QED BY <1>4

\* A search by halves ends at the first position whose child is not named below the name.
LEMMA Bisection ==
  ASSUME NEW m, NEW n, NEW name, NEW low \in Nat, NEW high \in Nat, low <= high, NEW positions,
         Ascending(m, n, name, low, high, positions)
  PROVE  Lands(TooLow(m, n, name, positions, low, high), low, high,
               Bisect(m, n, name, low, high, positions))
<1> DEFINE L == TooLow(m, n, name, positions, low, high)
           f == CHOOSE g : Searches(m, n, name, low, high, positions, g)
           Bad == {d \in Nat : \E l \in low .. high, h \in low .. high :
                     d = h - l /\ ~Lands(L, l, h, f[l][h])}
<1>1. Searches(m, n, name, low, high, positions, f)
  BY SearchExists
<1>2. Bisect(m, n, name, low, high, positions) = f[low][high]
  BY DEF Bisect, Searches
<1> HIDE DEF f
<1>6. Halves(L, low, high, f)
  BY <1>1, Searched
<1>3. ASSUME Bad # {} PROVE FALSE
  <2>1. Bad \in SUBSET Nat
    OBVIOUS
  <2>2. PICK d \in Bad : \A e \in Bad : d <= e
    <3> HIDE DEF Bad
    <3> QED BY <1>3, <2>1, LeastOf
  <2>3. PICK l \in low .. high, h \in low .. high : d = h - l /\ ~Lands(L, l, h, f[l][h])
    <3> HIDE DEF L
    <3> QED BY <2>2
  <2>4. \A a \in low .. high, b \in low .. high :
          a <= b /\ b - a < d => Lands(L, a, b, f[a][b])
    <3> TAKE a \in low .. high, b \in low .. high
    <3> HAVE a <= b /\ b - a < d
    <3>1. b - a \in Nat /\ ~(d <= b - a) /\ d \in Nat
      BY <2>1, <2>2
    <3>2. b - a \notin Bad
      <4> HIDE DEF Bad
      <4> QED BY <2>2, <3>1
    <3> HIDE DEF L
    <3> QED BY <3>1, <3>2
  <2>5. CASE l = h
    <3>0. l >= h
      BY <2>5
    <3>1. f[l][h] = l
      <4> HIDE DEF L
      <4> QED BY <1>6, <3>0 DEF Halves
    <3> QED BY <2>3, <2>5, <3>1 DEF Lands
  <2>6. CASE l # h
    <3>0. l \in Nat /\ h \in Nat
      OBVIOUS
    <3> DEFINE mid == Middle(l, h)
    <3>1. l < h
      BY <2>1, <2>3, <2>6
    <3>2. mid \in l .. h - 1
      BY <3>0, <3>1, MiddleBetween
    <3>3. f[l][h] = IF mid \in L THEN f[mid + 1][h] ELSE f[l][mid]
      BY <1>6, <3>1 DEF Halves
    <3> HIDE DEF mid
    <3>4. Lands(L, mid + 1, h, f[mid + 1][h]) /\ Lands(L, l, mid, f[l][mid])
      <4>1. /\ mid + 1 \in low .. high /\ mid + 1 <= h /\ h - (mid + 1) < d
            /\ mid \in low .. high /\ l <= mid /\ mid - l < d
        BY <2>3, <3>2
      <4> HIDE DEF L
      <4> QED BY <2>4, <4>1
    <3>5. \A y \in l .. mid - 1 : mid \in L => y \in L
      BY <3>2 DEF Ascending
    <3>6. Lands(L, l, h, f[l][h])
      <4> HIDE DEF L
      <4> QED BY <3>0, <3>1, <3>2, <3>3, <3>4, <3>5, LandsInHalf
    <3> QED BY <2>3, <3>6
  <2> QED BY <2>5, <2>6
<1>4. 0 <= high - low /\ high - low \in Nat /\ low \in low .. high /\ high \in low .. high
  OBVIOUS
<1>5. Lands(L, low, high, f[low][high])
  <2> HIDE DEF L
  <2> QED BY <1>3, <1>4
<1> QED BY <1>2, <1>5

\* The leaves cut the index in pieces that follow each other.
LEMMA LeavesCut ==
  ASSUME NEW index, NEW L \in Nat, Len(index) = L
  PROVE  /\ LeafCount(index) \in Nat /\ (L > 0 => LeafCount(index) > 0)
         /\ LeafStart(index, 1) = 1
         /\ \A k \in 1 .. LeafCount(index) :
              /\ LeafStart(index, k) \in 1 .. L /\ LeafEnd(index, k) \in LeafStart(index, k) .. L
              /\ k = LeafCount(index) => LeafEnd(index, k) = L
              /\ k < LeafCount(index) => LeafStart(index, k + 1) = LeafEnd(index, k) + 1
         /\ \A j, k \in 1 .. LeafCount(index) : j < k => LeafEnd(index, j) < LeafEnd(index, k)
<1> DEFINE C == LeafCapacity
           q == LeafCount(index)
<1>1. C \in Nat \ {0}
  OBVIOUS
<1>2. /\ (L + C - 1) % C \in 0 .. C - 1 /\ (L + C - 1) \div C \in Int
      /\ L + C - 1 = ((L + C - 1) \div C) * C + ((L + C - 1) % C)
  <2>1. L + C - 1 \in Nat
    BY <1>1
  <2> DEFINE x == L + C - 1
  <2> HIDE DEF x, C
  <2>2. (x % C) \in 0 .. C - 1 /\ (x \div C) \in Int /\ x = (x \div C) * C + (x % C)
    BY <1>1, <2>1 DEF x
  <2> QED BY <2>2 DEF x
<1>3. q = (L + C - 1) \div C
  BY DEF LeafCount
<1>4. q \in Int /\ q * C >= L /\ q * C < L + C
  BY <1>1, <1>2, <1>3
<1>5. \A k \in Int : k * C \in Int /\ (k + 1) * C = k * C + C /\ (k - 1) * C = k * C - C
  BY <1>1
<1>6. \A j, k \in Int : j <= k => j * C <= k * C
  BY <1>1
<1>7. \A j, k \in Int : j < k => j * C + C <= k * C
  <2> TAKE j, k \in Int
  <2> HAVE j < k
  <2>1. (j + 1) * C <= k * C
    BY <1>6
  <2> QED BY <1>5, <2>1
<1>8. 0 * C = 0 /\ 1 * C = C
  BY <1>1
<1>9. q \in Nat /\ (L > 0 => q > 0)
  <2>1. q < 0 => q * C + C <= 0
    BY <1>4, <1>7, <1>8
  <2>2. ~(q < 0)
    BY <1>1, <1>4, <2>1
  <2>3. q = 0 => ~(L > 0)
    BY <1>4, <1>8
  <2> HIDE DEF q, C
  <2> QED BY <1>4, <2>2, <2>3
<1> HIDE DEF q, C
<1>10. ASSUME NEW k \in 1 .. q
       PROVE  /\ LeafStart(index, k) = k * C - C + 1
              /\ LeafEnd(index, k) = IF k * C < L THEN k * C ELSE L
              /\ k * C - C \in Nat /\ k * C - C < L
              /\ k = q => k * C >= L
              /\ k < q => k * C < L /\ LeafStart(index, k + 1) = k * C + 1
  <2>1. LeafStart(index, k) = (k - 1) * C + 1 /\ LeafStart(index, k + 1) = k * C + 1
    <3>1. k + 1 - 1 = k
      OBVIOUS
    <3> QED BY <3>1 DEF LeafStart, C
  <2>2. LeafEnd(index, k) = IF k * C < L THEN k * C ELSE L
    BY DEF LeafEnd, C
  <2>3. 0 * C + C <= k * C
    BY <1>7
  <2>4. k * C <= q * C /\ (k < q => k * C + C <= q * C)
    BY <1>6, <1>7, <1>9
  <2> QED BY <1>1, <1>4, <1>5, <1>8, <2>1, <2>2, <2>3, <2>4
<1>11. LeafStart(index, 1) = 1
  BY <1>8 DEF LeafStart, C
<1>12. ASSUME NEW j \in 1 .. q, NEW k \in 1 .. q, j < k
       PROVE  LeafEnd(index, j) < LeafEnd(index, k)
  <2>1. j * C + C <= k * C /\ j < q
    BY <1>7, <1>12, <1>9
  <2>2. j * C < L /\ LeafEnd(index, j) = j * C /\ LeafEnd(index, k) = IF k * C < L THEN k * C ELSE L
    BY <1>10, <2>1
  <2> QED BY <1>1, <1>5, <2>1, <2>2
<1>13. ASSUME NEW k \in 1 .. q
       PROVE  /\ LeafStart(index, k) \in 1 .. L /\ LeafEnd(index, k) \in LeafStart(index, k) .. L
              /\ k = q => LeafEnd(index, k) = L
              /\ k < q => LeafStart(index, k + 1) = LeafEnd(index, k) + 1
  <2>1. k * C \in Int
    BY <1>5
  <2> QED BY <1>1, <1>10, <2>1
<1> QED BY <1>9, <1>11, <1>12, <1>13 DEF q

-----------------------------------------------------------------------------
(* Looking up a child *)

\* The types of a node, and what a directory's children are by the parents that nodes name.
Node == [used : BOOLEAN, dir : BOOLEAN, parent : Nodes, name : Int, size : 0 .. MaxData,
         index : Seq(Nodes)]

Children(m, n) == {c \in Nodes \ {Root} : m.nodes[c].used /\ m.nodes[c].parent = n}

NamesRise(m, index) ==
  \A i, j \in 1 .. Len(index) : i < j => m.nodes[index[i]].name < m.nodes[index[j]].name

\* The index of a node has its children in the order of their names.
Indexed(m, n) ==
  /\ ToSet(m.nodes[n].index) = Children(m, n) /\ NamesRise(m, m.nodes[n].index)
  /\ Children(m, n) # {} => m.nodes[n].dir

\* x is the child of that name, or there is none.
IsChild(m, n, name, x) ==
  /\ x \in Children(m, n) \cup {-1}
  /\ \A c \in Children(m, n) : m.nodes[c].name = name <=> x = c

\* find_child finds the child of that name if there is one, and nothing otherwise.
LEMMA FindChildIs ==
  ASSUME NEW m, m.nodes \in [Nodes -> Node], NEW n \in Nodes, NEW name \in Int, Indexed(m, n)
  PROVE  IsChild(m, n, name, FindChild(m, n, name))
<1> SUFFICES /\ FindChild(m, n, name) \in Children(m, n) \cup {-1}
             /\ \A c \in Children(m, n) : m.nodes[c].name = name <=> FindChild(m, n, name) = c
  BY DEF IsChild
<1> DEFINE index == m.nodes[n].index
           L == Len(index)
           N(k) == m.nodes[index[k]].name
           leaves == LeafCount(index)
           ends == [k \in 1 .. leaves |-> LeafEnd(index, k)]
           same == [k \in 1 .. L |-> k]
           leaf == Bisect(m, n, name, 1, leaves + 1, ends)
           first == LeafStart(index, leaf)
           last == LeafEnd(index, leaf)
           at == Bisect(m, n, name, first, last + 1, same)
<1>1. index \in Seq(Nodes) /\ L \in Nat /\ \A k \in 1 .. L : index[k] \in Nodes /\ N(k) \in Int
  <2>1. index \in Seq(Nodes)
    BY DEF Node
  <2>2. L \in Nat /\ \A k \in 1 .. L : index[k] \in Nodes
    BY <2>1
  <2> HIDE DEF index
  <2> QED BY <2>1, <2>2 DEF Node
<1>2. Children(m, n) = {index[k] : k \in 1 .. L}
  BY <1>1 DEF Indexed, ToSet
<1>3. \A i, j \in 1 .. L : i < j => N(i) < N(j)
  BY DEF Indexed, NamesRise
<1>4. FindChild(m, n, name) =
        IF ~m.nodes[n].dir \/ leaf > leaves THEN -1
        ELSE IF at <= last /\ N(at) = name THEN index[at] ELSE -1
  BY DEF FindChild
<1>5. Children(m, n) # {} => m.nodes[n].dir
  BY DEF Indexed
<1>6. \A c \in Children(m, n) : c # -1
  BY DEF Children, Nodes
<1> HIDE DEF index
<1>7. /\ leaves \in Nat /\ (L > 0 => leaves > 0)
      /\ LeafStart(index, 1) = 1
      /\ \A k \in 1 .. leaves :
           /\ LeafStart(index, k) \in 1 .. L /\ LeafEnd(index, k) \in LeafStart(index, k) .. L
           /\ k = leaves => LeafEnd(index, k) = L
           /\ k < leaves => LeafStart(index, k + 1) = LeafEnd(index, k) + 1
      /\ \A j, k \in 1 .. leaves : j < k => LeafEnd(index, j) < LeafEnd(index, k)
  BY <1>1, LeavesCut
<1> HIDE DEF leaves
<1>8. /\ leaf \in 1 .. leaves + 1
      /\ \A x \in 1 .. leaf - 1 : N(LeafEnd(index, x)) < name
      /\ leaf <= leaves => ~(N(last) < name)
  <2>1. \A x \in 1 .. leaves : ends[x] = LeafEnd(index, x)
    OBVIOUS
  <2> DEFINE T == TooLow(m, n, name, ends, 1, leaves + 1)
  <2>2. T = {x \in 1 .. leaves : N(LeafEnd(index, x)) < name}
    <3>1. \A x \in 1 .. leaves : m.nodes[m.nodes[n].index[ends[x]]].name = N(LeafEnd(index, x))
      BY <2>1 DEF index
    <3> HIDE DEF ends
    <3>2. \A x : x \in T <=>
            x \in 1 .. leaves + 1 /\ x < leaves + 1 /\ m.nodes[m.nodes[n].index[ends[x]]].name < name
      BY DEF TooLow
    <3>3. \A x : x \in 1 .. leaves <=> x \in 1 .. leaves + 1 /\ x < leaves + 1
      BY <1>7
    <3> HIDE DEF T, N
    <3> QED BY <3>1, <3>2, <3>3
  <2>3. Ascending(m, n, name, 1, leaves + 1, ends)
    <3>1. \A x, y \in 1 .. leaves : x < y => N(LeafEnd(index, x)) < N(LeafEnd(index, y))
      <4>1. \A x \in 1 .. leaves : LeafEnd(index, x) \in 1 .. L
        BY <1>1, <1>7
      <4> HIDE DEF N, L
      <4>2. \A x, y \in 1 .. leaves : x < y => LeafEnd(index, x) < LeafEnd(index, y)
        BY ONLY <1>7
      <4> QED BY ONLY <1>3, <4>1, <4>2
    <3>2. \A x \in 1 .. leaves : N(LeafEnd(index, x)) \in Int
      BY <1>1, <1>7
    <3> HIDE DEF T, N, ends
    <3>3. \A x, y \in 1 .. leaves + 1 : x < y /\ y \in T => x \in T
      <4>1. \A x, y \in 1 .. leaves : x < y /\ y \in T => x \in T
        BY <2>2, <3>1, <3>2
      <4>2. \A x, y \in 1 .. leaves + 1 : x < y /\ y \in T => y \in 1 .. leaves /\ x \in 1 .. leaves
        BY <1>7, <2>2
      <4> QED BY <4>1, <4>2
    <3> USE DEF T
    <3> QED BY <3>3 DEF Ascending
  <2>4. Lands(T, 1, leaves + 1, leaf)
    <3>1. 1 \in Nat /\ leaves + 1 \in Nat /\ 1 <= leaves + 1
      BY <1>7
    <3> HIDE DEF ends
    <3> QED BY <2>3, <3>1, Bisection
  <2> HIDE DEF leaf, ends, T, N
  <2>6. /\ leaf \in 1 .. leaves + 1 /\ (leaf = leaves + 1 \/ leaf \notin T)
        /\ \A x \in 1 .. leaf - 1 : x \in T
    BY <2>4 DEF Lands
  <2> QED BY <1>7, <2>2, <2>6
<1> HIDE DEF leaf, ends
<1>9. CASE leaf > leaves
  <2>1. FindChild(m, n, name) = -1
    BY <1>4, <1>9
  <2>2. ASSUME NEW k \in 1 .. L PROVE N(k) # name
    <3>1. leaves \in 1 .. leaves /\ leaves \in 1 .. leaf - 1
      BY <1>1, <1>7, <1>8, <1>9
    <3>2. LeafEnd(index, leaves) = L /\ N(L) < name
      BY <1>7, <1>8, <3>1
    <3>3. k = L \/ N(k) < N(L)
      BY <1>1, <1>3
    <3> QED BY <1>1, <3>2, <3>3
  <2> QED BY <1>2, <1>6, <2>1, <2>2
<1>10. CASE leaf <= leaves
  <2>1. leaf \in 1 .. leaves /\ first \in 1 .. L /\ last \in first .. L
    <3>1. leaf \in 1 .. leaves
      BY <1>8, <1>10
    <3> QED BY <1>7, <3>1
  <2> HIDE DEF first, last
  <2>2. /\ at \in first .. last + 1
        /\ \A x \in first .. at - 1 : N(x) < name
        /\ at <= last => ~(N(at) < name)
    <3>1. \A x \in first .. last : same[x] = x
      BY <1>1, <2>1
    <3> DEFINE T == TooLow(m, n, name, same, first, last + 1)
    <3>2. T = {x \in first .. last : N(x) < name}
      <4>1. \A x \in first .. last : m.nodes[m.nodes[n].index[same[x]]].name = N(x)
        BY <3>1 DEF index
      <4> HIDE DEF same
      <4>2. \A x : x \in T <=>
              x \in first .. last + 1 /\ x < last + 1 /\ m.nodes[m.nodes[n].index[same[x]]].name < name
        BY DEF TooLow
      <4>3. \A x : x \in first .. last <=> x \in first .. last + 1 /\ x < last + 1
        BY <1>1, <2>1
      <4> HIDE DEF T, N
      <4> QED BY <4>1, <4>2, <4>3
    <3>3. Ascending(m, n, name, first, last + 1, same)
      <4>1. \A x \in first .. last : x \in 1 .. L
        BY <1>1, <2>1
      <4> HIDE DEF T, same
      <4>2. \A x, y \in first .. last : x < y /\ y \in T => x \in T
        BY <1>1, <1>3, <3>2, <4>1
      <4>3. \A x, y \in first .. last + 1 :
              x < y /\ y \in T => y \in first .. last /\ x \in first .. last
        BY <1>1, <2>1, <3>2
      <4>4. \A x, y \in first .. last + 1 : x < y /\ y \in T => x \in T
        BY <4>2, <4>3
      <4> USE DEF T
      <4> QED BY <4>4 DEF Ascending
    <3>4. Lands(T, first, last + 1, at)
      <4>1. first \in Nat /\ last + 1 \in Nat /\ first <= last + 1
        BY <1>1, <2>1
      <4> HIDE DEF same
      <4> QED BY <3>3, <4>1, Bisection
    <3> HIDE DEF at, same, T, N
    <3>6. /\ at \in first .. last + 1 /\ (at = last + 1 \/ at \notin T)
          /\ \A x \in first .. at - 1 : x \in T
      BY <3>4 DEF Lands
    <3> QED BY <1>1, <2>1, <3>2, <3>6
  <2> HIDE DEF at
  <2>3. ASSUME NEW k \in 1 .. L, N(k) = name
        PROVE  m.nodes[n].dir /\ at = k /\ at <= last
    <3>1. m.nodes[n].dir
      BY <1>2, <1>5
    <3>2. k >= first
      <4>1. CASE leaf = 1
        BY <1>7, <4>1 DEF first
      <4>2. CASE leaf # 1
        <5> DEFINE p == leaf - 1
        <5>1. p \in 1 .. leaves /\ p < leaves /\ p \in 1 .. leaf - 1 /\ p + 1 = leaf
          BY <1>7, <2>1, <4>2
        <5> HIDE DEF p
        <5>2. first = LeafEnd(index, p) + 1 /\ LeafEnd(index, p) \in 1 .. L
          BY <1>1, <1>7, <5>1 DEF first
        <5>3. N(LeafEnd(index, p)) < name
          BY <1>8, <5>1
        <5>4. ~(k < LeafEnd(index, p)) /\ k # LeafEnd(index, p)
          <6> DEFINE end == LeafEnd(index, p)
          <6>1. end \in 1 .. L /\ N(end) < name /\ N(end) \in Int /\ name \in Int
            BY <1>1, <5>2, <5>3
          <6>2. k < end => N(k) < N(end)
            BY <1>3, <2>3, <6>1
          <6> HIDE DEF end, N, L
          <6>3. ~(k < end) /\ k # end
            BY ONLY <2>3, <6>1, <6>2
          <6> QED BY <6>3 DEF end
        <5> QED BY <1>1, <5>2, <5>4
      <4> QED BY <4>1, <4>2
    <3>3. k <= last
      <4>1. last \in 1 .. L /\ ~(N(last) < name)
        BY <1>1, <1>8, <1>10, <2>1
      <4> QED BY <1>1, <1>3, <2>3, <4>1
    <3>4. ~(k < at)
      BY <1>1, <2>1, <2>2, <2>3, <3>2
    <3>5. ~(at < k)
      <4>1. SUFFICES ASSUME at < k PROVE FALSE
        OBVIOUS
      <4>2. at \in 1 .. L /\ at <= last
        BY <1>1, <2>1, <2>2, <3>3, <4>1
      <4>3. ~(N(at) < name) /\ N(at) < N(k)
        BY <1>3, <2>2, <4>1, <4>2
      <4> QED BY <2>3, <4>3
    <3> QED BY <1>1, <2>1, <2>2, <3>1, <3>3, <3>4, <3>5
  <2>4. at <= last => at \in 1 .. L
    BY <1>1, <2>1, <2>2
  <2>7. ~(leaf > leaves)
    BY <1>7, <1>8, <1>10
  <2>5. CASE m.nodes[n].dir /\ at <= last /\ N(at) = name
    <3>1. FindChild(m, n, name) = index[at]
      BY <1>4, <2>5, <2>7
    <3> HIDE DEF N
    <3>2. \A k \in 1 .. L : N(k) = name => k = at
      BY <2>3
    <3> USE DEF N
    <3> QED BY <1>2, <2>4, <2>5, <3>1, <3>2
  <2>6. CASE ~(m.nodes[n].dir /\ at <= last /\ N(at) = name)
    <3>1. FindChild(m, n, name) = -1
      BY <1>4, <2>6, <2>7
    <3>2. \A k \in 1 .. L : N(k) # name
      BY <2>3, <2>6
    <3> QED BY <1>2, <1>6, <3>1, <3>2
  <2> QED BY <2>5, <2>6
<1>11. leaf > leaves \/ leaf <= leaves
  BY <1>7, <1>8
<1> QED BY <1>9, <1>10, <1>11

-----------------------------------------------------------------------------
(* Following a path *)

\* What lookups rest on.
LookupOK(m) == m.nodes \in [Nodes -> Node] /\ \A n \in Nodes : Indexed(m, n)

Found == Nodes \cup {-1}

Below(m, x, name) == IF x < 0 THEN -1 ELSE FindChild(m, x, name)

\* w goes down a path as FindNode does.
Walks(m, path, w) ==
  w = [i \in 0 .. Len(path) |->
         LET above == IF i = 0 THEN -1 ELSE w[i - 1]
         IN  IF i = 0 THEN Root ELSE IF above < 0 THEN -1 ELSE FindChild(m, above, path[i])]

LEMMA FoundFacts == Root \in Nodes /\ -1 \notin Nodes /\ \A x \in Found : x < 0 <=> x = -1
BY DEF Nodes, Root, Found

\* What a step of a walk finds is a node or nothing.
LEMMA BelowFound ==
  ASSUME NEW m, LookupOK(m), NEW x \in Found, NEW name \in Int
  PROVE  Below(m, x, name) \in Found
<1>1. CASE x < 0
  BY <1>1 DEF Below, Found
<1>2. CASE ~(x < 0)
  <2>1. x \in Nodes
    BY <1>2, FoundFacts DEF Found
  <2>2. FindChild(m, x, name) \in Children(m, x) \cup {-1}
    BY <2>1, FindChildIs DEF LookupOK, IsChild
  <2> QED BY <1>2, <2>2 DEF Below, Found, Children
<1> QED BY <1>1, <1>2

LEMMA WalkFacts ==
  ASSUME NEW m, NEW path \in Seq(Int), NEW w, Walks(m, path, w)
  PROVE  w[0] = Root /\ \A i \in 1 .. Len(path) : w[i] = Below(m, w[i - 1], path[i])
<1>1. w[0] = Root
  BY DEF Walks
<1>2. ASSUME NEW i \in 1 .. Len(path) PROVE w[i] = Below(m, w[i - 1], path[i])
  <2>1. i \in 0 .. Len(path) /\ i # 0
    OBVIOUS
  <2> QED BY <2>1 DEF Walks, Below
<1> QED BY <1>1, <1>2

\* The recursive function of a walk is defined.
LEMMA WalkExists ==
  ASSUME NEW m, LookupOK(m), NEW path \in Seq(Int)
  PROVE  \E w : Walks(m, path, w)
<1> DEFINE L == Len(path)
           G == [i \in Nat |-> [x \in Found |-> IF i \in 1 .. L THEN Below(m, x, path[i]) ELSE -1]]
<1>1. \A i \in Nat, x \in Found : G[i][x] = IF i \in 1 .. L THEN Below(m, x, path[i]) ELSE -1
  OBVIOUS
<1>2. \A i \in Nat, x \in Found : G[i][x] \in Found
  <2> TAKE i \in Nat, x \in Found
  <2>1. i \in 1 .. L => Below(m, x, path[i]) \in Found
    BY BelowFound
  <2>2. -1 \in Found
    BY DEF Found
  <2> QED BY <1>1, <2>1, <2>2
<1>3. G \in [Nat -> [Found -> Found]]
  <2>1. \A i \in Nat : G[i] = [x \in Found |-> G[i][x]]
    OBVIOUS
  <2>2. G = [i \in Nat |-> G[i]]
    OBVIOUS
  <2> HIDE DEF G
  <2> QED BY <1>2, <2>1, <2>2
<1> HIDE DEF G
<1>4. Root \in Found /\ L \in Nat
  BY FoundFacts DEF Found
<1>5. \A n \in Nat : \E f \in [0 .. n -> Found] : Orbit(f, n, Root, G)
  BY <1>3, <1>4, Iterates
<1>6. PICK f \in [0 .. L -> Found] : Orbit(f, L, Root, G)
  BY <1>4, <1>5
<1>7. ASSUME NEW i \in 0 .. L
      PROVE  f[i] = LET above == IF i = 0 THEN -1 ELSE f[i - 1]
                    IN  IF i = 0 THEN Root ELSE IF above < 0 THEN -1 ELSE FindChild(m, above, path[i])
  <2>1. CASE i = 0
    BY <1>6, <2>1 DEF Orbit
  <2>2. CASE i # 0
    <3>0. i \in Nat /\ i \in 1 .. L /\ i - 1 \in 0 .. L
      BY <1>4, <2>2
    <3>1. i \in Nat /\ i \in 1 .. L /\ f[i - 1] \in Found
      BY <1>6, <3>0
    <3>2. f[i] = G[i][f[i - 1]]
      BY <1>6, <2>2 DEF Orbit
    <3>3. f[i] = Below(m, f[i - 1], path[i])
      BY <1>1, <3>1, <3>2
    <3> QED BY <2>2, <3>3 DEF Below
  <2> QED BY <2>1, <2>2
<1>8. Walks(m, path, f)
  <2>1. f = [i \in 0 .. L |-> f[i]]
    BY <1>6
  <2> QED BY <1>7, <2>1 DEF Walks
<1> QED BY <1>8

\* A path but its last name.
LEMMA FrontFacts ==
  ASSUME NEW path \in Seq(Int), path # <<>>
  PROVE  /\ Front(path) \in Seq(Int) /\ Len(Front(path)) = Len(path) - 1 /\ Len(path) \in Nat \ {0}
         /\ \A i \in 1 .. Len(path) - 1 : Front(path)[i] = path[i]
         /\ Last(path) = path[Len(path)] /\ Last(path) \in Int
<1>1. Len(path) \in Nat \ {0} /\ \A i \in 1 .. Len(path) : path[i] \in Int
  OBVIOUS
<1>2. /\ SubSeq(path, 1, Len(path) - 1) \in Seq(Int)
      /\ Len(SubSeq(path, 1, Len(path) - 1)) = Len(path) - 1
      /\ \A i \in 1 .. Len(path) - 1 : SubSeq(path, 1, Len(path) - 1)[i] = path[i]
  <2>1. 1 \in Int /\ Len(path) - 1 \in Int /\ \A i \in 1 .. Len(path) - 1 : path[i] \in Int
    BY <1>1
  <2> DEFINE k == Len(path) - 1
  <2>2. /\ SubSeq(path, 1, k) \in Seq(Int)
        /\ Len(SubSeq(path, 1, k)) = IF 1 <= k THEN k - 1 + 1 ELSE 0
        /\ \A i \in 1 .. k - 1 + 1 : SubSeq(path, 1, k)[i] = path[1 + i - 1]
    <3> HIDE DEF k
    <3> QED BY <2>1, SubSeqProperties DEF k
  <2>3. k - 1 + 1 = k /\ k \in Nat /\ \A i \in 1 .. k : 1 + i - 1 = i
    BY <1>1
  <2> HIDE DEF k
  <2>4. Len(SubSeq(path, 1, k)) = k
    BY <2>2, <2>3
  <2>5. \A i \in 1 .. k : SubSeq(path, 1, k)[i] = path[i]
    BY <2>2, <2>3
  <2> QED BY <2>2, <2>4, <2>5 DEF k
<1> QED BY <1>1, <1>2 DEF Front, Last

\* A path leads to the child, of its last name, of the node its front leads to.
LEMMA FindNodeStep ==
  ASSUME NEW m, LookupOK(m), NEW path \in Seq(Int)
  PROVE  /\ FindNode(m, path) \in Found
         /\ path = <<>> => FindNode(m, path) = Root
         /\ path # <<>> => FindNode(m, path) = Below(m, FindNode(m, Front(path)), Last(path))
<1> DEFINE w(p) == CHOOSE f : Walks(m, p, f)
<1>1. \A p \in Seq(Int) : Walks(m, p, w(p)) /\ FindNode(m, p) = w(p)[Len(p)]
  <2> TAKE p \in Seq(Int)
  <2>1. FindNode(m, p) = w(p)[Len(p)]
    BY DEF FindNode, Walks
  <2>2. Walks(m, p, w(p))
    BY WalkExists
  <2> QED BY <2>1, <2>2
<1> HIDE DEF w
<1>2. \A p \in Seq(Int) :
        w(p)[0] = Root /\ \A i \in 1 .. Len(p) : w(p)[i] = Below(m, w(p)[i - 1], p[i])
  BY <1>1, WalkFacts
<1>3. ASSUME NEW p \in Seq(Int), NEW i \in 0 .. Len(p)
      PROVE  w(p)[i] \in Found
  <2> DEFINE Bad == {k \in Nat : k \in 0 .. Len(p) /\ w(p)[k] \notin Found}
  <2>1. SUFFICES ASSUME Bad # {} PROVE FALSE
    OBVIOUS
  <2>2. PICK k \in Bad : \A j \in Bad : k <= j
    BY <2>1, LeastOf
  <2>3. k # 0
    BY <1>2, <2>2, FoundFacts DEF Found
  <2>4. k \in 1 .. Len(p) /\ k - 1 \in Nat /\ k - 1 \in 0 .. Len(p) /\ ~(k <= k - 1)
    BY <2>2, <2>3
  <2>5. w(p)[k - 1] \in Found
    BY <2>2, <2>4
  <2>6. p[k] \in Int
    BY <2>4
  <2>7. w(p)[k] = Below(m, w(p)[k - 1], p[k])
    BY <1>2, <2>4
  <2>8. Below(m, w(p)[k - 1], p[k]) \in Found
    BY <2>5, <2>6, BelowFound
  <2> QED BY <2>2, <2>7, <2>8
<1>4. CASE path = <<>>
  <2>1. Len(path) = 0
    BY <1>4
  <2>2. FindNode(m, path) = w(path)[0] /\ w(path)[0] = Root
    BY <1>1, <1>2, <2>1
  <2> QED BY <1>4, <2>2, FoundFacts DEF Found
<1>5. CASE path # <<>>
  <2> DEFINE L == Len(path)
             q == Front(path)
             Bad == {k \in Nat : k \in 0 .. L - 1 /\ w(q)[k] # w(path)[k]}
  <2>1. /\ q \in Seq(Int) /\ Len(q) = L - 1 /\ L \in Nat \ {0}
        /\ \A i \in 1 .. L - 1 : q[i] = path[i]
        /\ Last(path) = path[L]
    BY <1>5, FrontFacts
  <2> HIDE DEF q, L
  <2>2. ASSUME Bad # {} PROVE FALSE
    <3>1. PICK k \in Bad : \A j \in Bad : k <= j
      BY <2>2, LeastOf
    <3>2. k # 0
      BY <1>2, <2>1, <3>1
    <3>3. k \in 1 .. L - 1 /\ k \in 1 .. L /\ k - 1 \in Nat /\ k - 1 \in 0 .. L - 1 /\ ~(k <= k - 1)
      BY <2>1, <3>1, <3>2
    <3>4. w(q)[k - 1] = w(path)[k - 1]
      BY <3>1, <3>3
    <3>5. w(q)[k] = Below(m, w(q)[k - 1], q[k]) /\ w(path)[k] = Below(m, w(path)[k - 1], path[k])
      BY <1>2, <2>1, <3>3 DEF L
    <3> QED BY <2>1, <3>1, <3>3, <3>4, <3>5
  <2>3. w(q)[L - 1] = w(path)[L - 1]
    <3>1. L - 1 \in Nat /\ L - 1 \in 0 .. L - 1
      BY <2>1
    <3> QED BY <2>2, <3>1
  <2>4. w(path)[L] = Below(m, w(path)[L - 1], path[L])
    <3>1. L \in 1 .. Len(path)
      BY <2>1 DEF L
    <3> QED BY <1>2, <3>1
  <2>5. FindNode(m, path) = w(path)[L] /\ FindNode(m, q) = w(q)[L - 1]
    BY <1>1, <2>1 DEF L
  <2>6. w(path)[L] \in Found
    BY <1>3, <2>1 DEF L
  <2> QED BY <1>5, <2>1, <2>3, <2>4, <2>5, <2>6 DEF q
<1> QED BY <1>4, <1>5

\* A path leads to the child, by its last name, of what its front leads to.
LEMMA ChildStep ==
  ASSUME NEW m, LookupOK(m), NEW q \in Seq(Int), q # <<>>
  PROVE  /\ \A c \in Nodes : FindNode(m, q) = c <=>
              /\ FindNode(m, Front(q)) \in Nodes
              /\ c \in Children(m, FindNode(m, Front(q))) /\ m.nodes[c].name = Last(q)
         /\ Front(q) \in Seq(Int) /\ FindNode(m, Front(q)) \in Found /\ FindNode(m, q) \in Found
<1> DEFINE x == FindNode(m, Front(q))
<1>1. Front(q) \in Seq(Int) /\ Last(q) \in Int
  BY FrontFacts
<1>2. x \in Found /\ FindNode(m, q) = Below(m, x, Last(q)) /\ FindNode(m, q) \in Found
  BY <1>1, FindNodeStep
<1> HIDE DEF x
<1>3. ASSUME NEW c \in Nodes
      PROVE  FindNode(m, q) = c <=>
               x \in Nodes /\ c \in Children(m, x) /\ m.nodes[c].name = Last(q)
  <2>1. CASE x < 0
    <3>1. x \notin Nodes /\ FindNode(m, q) = -1 /\ c # -1
      BY <1>2, <2>1, FoundFacts DEF Below, Found
    <3> QED BY <3>1
  <2>2. CASE ~(x < 0)
    <3>1. x \in Nodes /\ FindNode(m, q) = FindChild(m, x, Last(q)) /\ c # -1
      BY <1>2, <2>2, FoundFacts DEF Below, Found
    <3>2. /\ FindChild(m, x, Last(q)) \in Children(m, x) \cup {-1}
          /\ \A d \in Children(m, x) : m.nodes[d].name = Last(q) <=> FindChild(m, x, Last(q)) = d
      <4>1. m.nodes \in [Nodes -> Node] /\ Indexed(m, x) /\ Last(q) \in Int
        BY <1>1, <3>1 DEF LookupOK
      <4>2. IsChild(m, x, Last(q), FindChild(m, x, Last(q)))
        BY <3>1, <4>1, FindChildIs
      <4> QED BY <4>2 DEF IsChild
    <3> QED BY <3>1, <3>2
  <2> QED BY <2>1, <2>2
<1> QED BY <1>1, <1>2, <1>3 DEF x

LEMMA RootStep ==
  ASSUME NEW m, LookupOK(m)
  PROVE  <<>> \in Seq(Int) /\ FindNode(m, <<>>) = Root /\ Root \in Nodes
<1>1. <<>> \in Seq(Int)
  OBVIOUS
<1> QED BY <1>1, FindNodeStep, FoundFacts

\* What holds of the empty path, and of a path when it holds of its front, holds of all.
LEMMA PathInduction ==
  ASSUME NEW Good, <<>> \in Good,
         \A q \in Seq(Int) : q # <<>> /\ Front(q) \in Good => q \in Good
  PROVE  \A q \in Seq(Int) : q \in Good
<1> DEFINE Bad == {k \in Nat : \E q \in Seq(Int) : Len(q) = k /\ q \notin Good}
<1>1. ASSUME Bad # {} PROVE FALSE
  <2>1. PICK k \in Bad : \A j \in Bad : k <= j
    BY <1>1, LeastOf
  <2>2. PICK q \in Seq(Int) : Len(q) = k /\ q \notin Good
    BY <2>1
  <2>3. q # <<>>
    BY <2>2
  <2>4. Front(q) \in Seq(Int) /\ Len(Front(q)) = k - 1 /\ k \in Nat \ {0}
    BY <2>2, <2>3, FrontFacts
  <2>5. k - 1 \in Nat /\ ~(k <= k - 1)
    BY <2>4
  <2>6. Front(q) \in Good
    BY <2>1, <2>4, <2>5
  <2> QED BY <2>2, <2>3, <2>6
<1> HIDE DEF Bad
<1>2. ASSUME NEW q \in Seq(Int) PROVE q \in Good
  <2>1. Len(q) \in Nat
    OBVIOUS
  <2> QED BY <1>1, <2>1 DEF Bad
<1> QED BY <1>2

\* A node is reached by one path.
LEMMA OnePath ==
  ASSUME NEW m, LookupOK(m)
  PROVE  \A p, q \in Seq(Int) : FindNode(m, p) = FindNode(m, q) /\ FindNode(m, p) \in Nodes => p = q
<1> DEFINE Good == {p \in Seq(Int) : \A q \in Seq(Int) :
                      FindNode(m, p) = FindNode(m, q) /\ FindNode(m, p) \in Nodes => p = q}
<1>1. \A q \in Seq(Int) : FindNode(m, q) = Root => q = <<>>
  <2> SUFFICES ASSUME NEW q \in Seq(Int), FindNode(m, q) = Root, q # <<>> PROVE FALSE
    OBVIOUS
  <2>1. Root \in Children(m, FindNode(m, Front(q)))
    BY ChildStep, FoundFacts
  <2> QED BY <2>1 DEF Children
<1>2. <<>> \in Good
  <2>1. <<>> \in Seq(Int) /\ FindNode(m, <<>>) = Root
    BY RootStep
  <2>2. ASSUME NEW q \in Seq(Int), FindNode(m, <<>>) = FindNode(m, q) PROVE <<>> = q
    <3>1. FindNode(m, q) = Root
      BY <2>1, <2>2
    <3> QED BY <1>1, <3>1
  <2> QED BY <2>1, <2>2
<1>3. ASSUME NEW p \in Seq(Int), p # <<>>, Front(p) \in Good PROVE p \in Good
  <2> SUFFICES ASSUME NEW q \in Seq(Int), FindNode(m, p) = FindNode(m, q), FindNode(m, p) \in Nodes
               PROVE  p = q
    OBVIOUS
  <2> DEFINE c == FindNode(m, p)
  <2>1. q # <<>>
    <3> SUFFICES ASSUME q = <<>> PROVE FALSE
      OBVIOUS
    <3>1. FindNode(m, p) = Root
      BY RootStep
    <3> QED BY <1>1, <1>3, <3>1
  <2>2. /\ FindNode(m, Front(p)) \in Nodes /\ c \in Children(m, FindNode(m, Front(p)))
        /\ m.nodes[c].name = Last(p)
    BY <1>3, ChildStep
  <2>3. /\ FindNode(m, Front(q)) \in Nodes /\ c \in Children(m, FindNode(m, Front(q)))
        /\ m.nodes[c].name = Last(q)
    BY <2>1, ChildStep
  <2>4. FindNode(m, Front(p)) = FindNode(m, Front(q))
    BY <2>2, <2>3 DEF Children
  <2>5. /\ Front(p) \in Seq(Int) /\ Len(Front(p)) = Len(p) - 1 /\ Len(p) \in Nat \ {0}
        /\ \A i \in 1 .. Len(p) - 1 : Front(p)[i] = p[i]
        /\ Last(p) = p[Len(p)]
    BY <1>3, FrontFacts
  <2>6. /\ Front(q) \in Seq(Int) /\ Len(Front(q)) = Len(q) - 1 /\ Len(q) \in Nat \ {0}
        /\ \A i \in 1 .. Len(q) - 1 : Front(q)[i] = q[i]
        /\ Last(q) = q[Len(q)]
    BY <2>1, FrontFacts
  <2>7. Front(p) = Front(q)
    BY <1>3, <2>2, <2>4, <2>6
  <2>8. Len(p) = Len(q)
    BY <2>5, <2>6, <2>7
  <2>9. ASSUME NEW i \in 1 .. Len(p) PROVE p[i] = q[i]
    <3>1. CASE i = Len(p)
      BY <2>2, <2>3, <2>5, <2>6, <2>8, <3>1
    <3>2. CASE i # Len(p)
      <4>1. i \in 1 .. Len(p) - 1
        BY <2>5, <3>2
      <4> QED BY <2>5, <2>6, <2>7, <2>8, <4>1
    <3> QED BY <3>1, <3>2
  <2>10. p = [i \in 1 .. Len(p) |-> p[i]] /\ q = [i \in 1 .. Len(q) |-> q[i]]
    OBVIOUS
  <2> QED BY <2>8, <2>9, <2>10
<1> HIDE DEF Good
<1>4. \A p \in Seq(Int) : p \in Good
  BY <1>2, <1>3, PathInduction
<1> QED BY <1>4 DEF Good

-----------------------------------------------------------------------------
(* Lookups before and after a change of the nodes *)

\* Nothing changed that a lookup depends on.
SameAt(m, k, n) ==
  /\ k.nodes[n].used = m.nodes[n].used /\ k.nodes[n].parent = m.nodes[n].parent
  /\ k.nodes[n].name = m.nodes[n].name

\* Where the parents and names are the same, every path leads to the same node.
LEMMA SameLookup ==
  ASSUME NEW m, LookupOK(m), NEW k, LookupOK(k), \A n \in Nodes : SameAt(m, k, n)
  PROVE  \A q \in Seq(Int) : FindNode(k, q) = FindNode(m, q)
<1> DEFINE Good == {q \in Seq(Int) : FindNode(k, q) = FindNode(m, q)}
<1>1. \A n : Children(k, n) = Children(m, n)
  BY DEF Children, SameAt
<1>2. <<>> \in Good
  BY RootStep
<1>3. ASSUME NEW q \in Seq(Int), q # <<>>, Front(q) \in Good PROVE q \in Good
  <2>1. FindNode(k, Front(q)) = FindNode(m, Front(q))
    BY <1>3
  <2>2. \A c \in Nodes : FindNode(k, q) = c <=> FindNode(m, q) = c
    <3> TAKE c \in Nodes
    <3>1. FindNode(k, q) = c <=>
            /\ FindNode(k, Front(q)) \in Nodes
            /\ c \in Children(k, FindNode(k, Front(q))) /\ k.nodes[c].name = Last(q)
      BY <1>3, ChildStep
    <3>2. FindNode(m, q) = c <=>
            /\ FindNode(m, Front(q)) \in Nodes
            /\ c \in Children(m, FindNode(m, Front(q))) /\ m.nodes[c].name = Last(q)
      BY <1>3, ChildStep
    <3> QED BY <1>1, <2>1, <3>1, <3>2 DEF SameAt
  <2>3. FindNode(k, q) \in Found /\ FindNode(m, q) \in Found
    BY FindNodeStep
  <2> QED BY <2>2, <2>3 DEF Found
<1> HIDE DEF Good
<1>4. \A q \in Seq(Int) : q \in Good
  BY <1>2, <1>3, PathInduction
<1> QED BY <1>4 DEF Good

\* k has one node more, without children.
Grown(m, k, new) ==
  /\ new \in Nodes \ {Root} /\ ~m.nodes[new].used /\ k.nodes[new].used
  /\ \A n \in Nodes \ {new} : SameAt(m, k, n)
  /\ Children(m, new) = {} /\ Children(k, new) = {}

\* One node more, and every path leads where it led, but the one that leads to the new node.
LEMMA GrownLookup ==
  ASSUME NEW m, LookupOK(m), NEW k, LookupOK(k), NEW new, Grown(m, k, new)
  PROVE  \A q \in Seq(Int) :
           /\ FindNode(m, q) # new
           /\ \/ FindNode(k, q) = FindNode(m, q)
              \/ FindNode(k, q) = new /\ FindNode(m, q) = -1
<1> DEFINE Good == {q \in Seq(Int) : /\ FindNode(m, q) # new
                                     /\ \/ FindNode(k, q) = FindNode(m, q)
                                        \/ FindNode(k, q) = new /\ FindNode(m, q) = -1}
<1>1. \A n : /\ Children(m, n) = Children(k, n) \ {new} /\ new \notin Children(m, n)
             /\ \A c \in Children(m, n) : k.nodes[c].name = m.nodes[c].name
  BY DEF Children, Grown, SameAt
<1>2. <<>> \in Good
  BY RootStep DEF Grown
<1>3. ASSUME NEW q \in Seq(Int), q # <<>>, Front(q) \in Good PROVE q \in Good
  <2> DEFINE x == FindNode(m, Front(q))
             y == FindNode(k, Front(q))
  <2>1. x # new /\ (y = x \/ (y = new /\ x = -1)) /\ new \in Nodes
    BY <1>3 DEF Grown
  <2>2. \A c \in Nodes : FindNode(m, q) = c <=>
          x \in Nodes /\ c \in Children(m, x) /\ m.nodes[c].name = Last(q)
    BY <1>3, ChildStep
  <2>3. \A c \in Nodes : FindNode(k, q) = c <=>
          y \in Nodes /\ c \in Children(k, y) /\ k.nodes[c].name = Last(q)
    BY <1>3, ChildStep
  <2>4. FindNode(m, q) \in Found /\ FindNode(k, q) \in Found
    BY FindNodeStep
  <2> HIDE DEF x, y
  <2>5. FindNode(m, q) # new
    BY <1>1, <2>1, <2>2
  <2>6. CASE y # x
    <3>1. \A c \in Nodes : FindNode(m, q) # c /\ FindNode(k, q) # c
      BY <2>1, <2>2, <2>3, <2>6, FoundFacts DEF Grown
    <3> QED BY <2>4, <2>5, <3>1 DEF Found
  <2>7. CASE y = x /\ FindNode(k, q) # new
    <3>1. \A c \in Nodes : FindNode(m, q) = c <=> FindNode(k, q) = c
      BY <1>1, <2>1, <2>2, <2>3, <2>5, <2>7
    <3> QED BY <2>4, <2>5, <3>1 DEF Found
  <2>8. CASE y = x /\ FindNode(k, q) = new
    <3>1. y \in Nodes /\ new \in Children(k, y) /\ k.nodes[new].name = Last(q)
      BY <2>1, <2>3, <2>8
    <3>2. ASSUME NEW c \in Nodes, FindNode(m, q) = c PROVE FALSE
      <4>1. c \in Children(m, x) /\ m.nodes[c].name = Last(q)
        BY <2>2, <3>2
      <4>2. c \in Children(k, y) /\ k.nodes[c].name = Last(q)
        BY <1>1, <2>8, <4>1
      <4>3. FindNode(k, q) = c
        BY <2>3, <3>1, <4>2
      <4> QED BY <1>1, <2>8, <4>1, <4>3
    <3> QED BY <2>4, <2>5, <2>8, <3>2 DEF Found
  <2> QED BY <2>6, <2>7, <2>8
<1> HIDE DEF Good
<1>4. \A q \in Seq(Int) : q \in Good
  BY <1>2, <1>3, PathInduction
<1> QED BY <1>4 DEF Good

-----------------------------------------------------------------------------
(* What is kept, and the tree that it shows *)

FdState == [kind : {"unused", "file", "proc"}, flags : SUBSET {"r", "w", "c"}, offset : Nat,
            path : FilePaths]

Kept == [nodes : [Nodes -> Node], data : [Nodes -> [1 .. MaxData -> Int]], fds : [Fds -> FdState],
         cwd : Seq(Int), ok : BOOLEAN, fd : Int, read : Seq(Int)]

\* Every directory's index lists its children; a free node is as the format left it.
TreeOK(m) ==
  /\ \A n \in Nodes : Indexed(m, n)
  /\ m.nodes[Root].used /\ m.nodes[Root].dir
  /\ \A n \in Nodes : ~m.nodes[n].used => m.nodes[n] = FreeNode

\* The inductive invariant.
FilesOK(m) == m \in Kept /\ TreeOK(m)

Shown(m, n) == [dir |-> m.nodes[n].dir, bytes |-> SubSeq(m.data[n], 1, m.nodes[n].size)]
Listed(m) == {q \in FilePaths : FindNode(m, q) \in Nodes}

\* What a call may do.
CallOK(m, c) == FilesOK(c) /\ Tree!TreeStep(TreeOf(m), TreeOf(c), c.read)

LEMMA FilesFacts ==
  ASSUME NEW m, FilesOK(m)
  PROVE  LookupOK(m) /\ m \in Kept /\ TreeOK(m)
BY DEF FilesOK, TreeOK, LookupOK, Kept

\* A path leads to a node in use only.
LEMMA FoundUsed ==
  ASSUME NEW m, FilesOK(m), NEW q \in Seq(Int), FindNode(m, q) \in Nodes
  PROVE  m.nodes[FindNode(m, q)].used
<1>1. CASE q = <<>>
  BY <1>1, FilesFacts, RootStep DEF TreeOK
<1>2. CASE q # <<>>
  <2>1. FindNode(m, q) \in Children(m, FindNode(m, Front(q)))
    BY <1>2, FilesFacts, ChildStep
  <2> QED BY <2>1 DEF Children
<1> QED BY <1>1, <1>2

\* The tree of lookups, path by path.
LEMMA TreeIs ==
  ASSUME NEW m, FilesOK(m)
  PROVE  /\ TreeOf(m) = [p \in Listed(m) |-> Shown(m, FindNode(m, p))]
         /\ DOMAIN TreeOf(m) = Listed(m)
         /\ \A p \in Listed(m) : TreeOf(m)[p] = Shown(m, FindNode(m, p))
<1> DEFINE found == [p \in FilePaths |-> FindNode(m, p)]
<1>1. \A p \in FilePaths : found[p] = FindNode(m, p) /\ (found[p] >= 0 <=> FindNode(m, p) \in Nodes)
  <2> TAKE p \in FilePaths
  <2>1. FindNode(m, p) \in Found
    <3>1. p \in Seq(Int)
      BY FilesAssumption
    <3>2. LookupOK(m)
      BY FilesFacts
    <3> QED BY <3>1, <3>2, FindNodeStep
  <2> QED BY <2>1, FoundFacts DEF Found, Nodes
<1>2. TreeOf(m) = [p \in {q \in FilePaths : found[q] >= 0} |-> Shown(m, found[p])]
  BY DEF TreeOf, Shown
<1> HIDE DEF found
<1>3. {q \in FilePaths : found[q] >= 0} = Listed(m)
  BY <1>1 DEF Listed
<1>4. TreeOf(m) = [p \in Listed(m) |-> Shown(m, found[p])]
  BY <1>2, <1>3
<1>5. \A p \in Listed(m) : found[p] = FindNode(m, p)
  BY <1>1 DEF Listed
<1>6. TreeOf(m) = [p \in Listed(m) |-> Shown(m, FindNode(m, p))]
  BY <1>4, <1>5
<1> QED BY <1>6

\* Calls that leave the parents, names and contents leave the tree.
LEMMA SameTree ==
  ASSUME NEW m, FilesOK(m), NEW c, FilesOK(c), \A n \in Nodes : SameAt(m, c, n),
         \A n \in Nodes : Shown(c, n) = Shown(m, n)
  PROVE  TreeOf(c) = TreeOf(m)
<1>1. \A q \in Seq(Int) : FindNode(c, q) = FindNode(m, q)
  BY FilesFacts, SameLookup
<1>2. \A q \in FilePaths : FindNode(c, q) = FindNode(m, q)
  BY <1>1, FilesAssumption
<1>3. Listed(c) = Listed(m)
  BY <1>2 DEF Listed
<1>4. \A p \in Listed(m) : Shown(c, FindNode(c, p)) = Shown(m, FindNode(m, p))
  BY <1>2 DEF Listed
<1> QED BY <1>3, <1>4, TreeIs

\* One part replaced.
LEMMA NodesReplaced ==
  ASSUME NEW m \in Kept, NEW x \in [Nodes -> Node]
  PROVE  LET c == [m EXCEPT !.nodes = x]
         IN  /\ c \in Kept /\ c.nodes = x
             /\ c.data = m.data /\ c.fds = m.fds /\ c.cwd = m.cwd
             /\ c.ok = m.ok /\ c.fd = m.fd /\ c.read = m.read
BY DEF Kept

LEMMA DataReplaced ==
  ASSUME NEW m \in Kept, NEW x \in [Nodes -> [1 .. MaxData -> Int]]
  PROVE  LET c == [m EXCEPT !.data = x]
         IN  /\ c \in Kept /\ c.data = x
             /\ c.nodes = m.nodes /\ c.fds = m.fds /\ c.cwd = m.cwd
             /\ c.ok = m.ok /\ c.fd = m.fd /\ c.read = m.read
BY DEF Kept

LEMMA FdsReplaced ==
  ASSUME NEW m \in Kept, NEW x \in [Fds -> FdState]
  PROVE  LET c == [m EXCEPT !.fds = x]
         IN  /\ c \in Kept /\ c.fds = x
             /\ c.nodes = m.nodes /\ c.data = m.data /\ c.cwd = m.cwd
             /\ c.ok = m.ok /\ c.fd = m.fd /\ c.read = m.read
BY DEF Kept

LEMMA CwdReplaced ==
  ASSUME NEW m \in Kept, NEW x \in Seq(Int)
  PROVE  LET c == [m EXCEPT !.cwd = x]
         IN  /\ c \in Kept /\ c.cwd = x
             /\ c.nodes = m.nodes /\ c.data = m.data /\ c.fds = m.fds
             /\ c.ok = m.ok /\ c.fd = m.fd /\ c.read = m.read
BY DEF Kept

LEMMA OkReplaced ==
  ASSUME NEW m \in Kept, NEW x \in BOOLEAN
  PROVE  LET c == [m EXCEPT !.ok = x]
         IN  /\ c \in Kept /\ c.ok = x
             /\ c.nodes = m.nodes /\ c.data = m.data /\ c.fds = m.fds
             /\ c.cwd = m.cwd /\ c.fd = m.fd /\ c.read = m.read
BY DEF Kept

LEMMA FdReplaced ==
  ASSUME NEW m \in Kept, NEW x \in Int
  PROVE  LET c == [m EXCEPT !.fd = x]
         IN  /\ c \in Kept /\ c.fd = x
             /\ c.nodes = m.nodes /\ c.data = m.data /\ c.fds = m.fds
             /\ c.cwd = m.cwd /\ c.ok = m.ok /\ c.read = m.read
BY DEF Kept

LEMMA ReadReplaced ==
  ASSUME NEW m \in Kept, NEW x \in Seq(Int)
  PROVE  LET c == [m EXCEPT !.read = x]
         IN  /\ c \in Kept /\ c.read = x
             /\ c.nodes = m.nodes /\ c.data = m.data /\ c.fds = m.fds
             /\ c.cwd = m.cwd /\ c.ok = m.ok /\ c.fd = m.fd
BY DEF Kept

\* A call that leaves the files alone, whatever it returns.
LEMMA NodesKept ==
  ASSUME NEW m, FilesOK(m), NEW c \in Kept, c.nodes = m.nodes, c.data = m.data
  PROVE  FilesOK(c) /\ TreeOf(c) = TreeOf(m)
<1>1. \A n \in Nodes : Indexed(c, n)
  <2>1. \A n \in Nodes : Indexed(m, n)
    BY FilesFacts DEF TreeOK
  <2> QED BY <2>1 DEF Indexed, Children, NamesRise
<1>2. FilesOK(c)
  BY <1>1, FilesFacts DEF TreeOK, FilesOK
<1>3. \A n \in Nodes : SameAt(m, c, n) /\ Shown(c, n) = Shown(m, n)
  BY DEF SameAt, Shown
<1> QED BY <1>2, <1>3, SameTree

\* A call that changes neither nodes nor data is one that reads nothing.
LEMMA QuietCall ==
  ASSUME NEW m, FilesOK(m), NEW c \in Kept, c.nodes = m.nodes, c.data = m.data, c.read = <<>>
  PROVE  CallOK(m, c)
<1>1. FilesOK(c) /\ TreeOf(c) = TreeOf(m)
  BY NodesKept
<1> QED BY <1>1 DEF CallOK, Tree!TreeStep, Tree!Fetch

LEMMA InsertAtFacts ==
  ASSUME NEW S, NEW q \in Seq(S), NEW k \in 1 .. Len(q) + 1, NEW e \in S
  PROVE  /\ InsertAt(q, k, e) \in Seq(S) /\ Len(InsertAt(q, k, e)) = Len(q) + 1
         /\ \A n \in 1 .. Len(q) + 1 :
              InsertAt(q, k, e)[n] = IF n < k THEN q[n] ELSE IF n = k THEN e ELSE q[n - 1]
<1> DEFINE L == Len(q)
           u == SubSeq(q, 1, k - 1)
           v == SubSeq(q, k, L)
           w == InsertAt(q, k, e)
<1>1. L \in Nat /\ k \in Nat \ {0} /\ k <= L + 1 /\ \A i \in 1 .. L : q[i] \in S
  OBVIOUS
<1>2. u \in Seq(S) /\ Len(u) = k - 1 /\ \A i \in 1 .. k - 1 : u[i] = q[i]
  <2> DEFINE j == k - 1
  <2>1. j \in Nat /\ j <= L /\ \A i \in 1 .. j : q[i] \in S
    BY <1>1
  <2> HIDE DEF j
  <2>2. /\ SubSeq(q, 1, j) \in Seq(S) /\ Len(SubSeq(q, 1, j)) = IF 1 <= j THEN j - 1 + 1 ELSE 0
        /\ \A i \in 1 .. j - 1 + 1 : SubSeq(q, 1, j)[i] = q[1 + i - 1]
    BY <2>1, SubSeqProperties
  <2>3. j - 1 + 1 = j /\ \A i \in 1 .. j : 1 + i - 1 = i
    BY <2>1
  <2>4. Len(SubSeq(q, 1, j)) = j /\ \A i \in 1 .. j : SubSeq(q, 1, j)[i] = q[i]
    BY <2>1, <2>2, <2>3
  <2> QED BY <2>2, <2>4 DEF j
<1>3. v \in Seq(S) /\ Len(v) = L - k + 1 /\ \A i \in 1 .. L - k + 1 : v[i] = q[k + i - 1]
  <2>1. \A i \in k .. L : q[i] \in S
    BY <1>1
  <2>2. /\ v \in Seq(S) /\ Len(v) = IF k <= L THEN L - k + 1 ELSE 0
        /\ \A i \in 1 .. L - k + 1 : v[i] = q[k + i - 1]
    <3> HIDE DEF L
    <3> QED BY <1>1, <2>1, SubSeqProperties
  <2> QED BY <1>1, <2>2
<1>4. w = (u \o <<e>>) \o v
  BY DEF InsertAt
<1> HIDE DEF L, u, v, w
<1>5. /\ u \o <<e>> \in Seq(S) /\ Len(u \o <<e>>) = k
      /\ \A i \in 1 .. k : (u \o <<e>>)[i] = IF i < k THEN q[i] ELSE e
  <2>1. /\ u \o <<e>> \in Seq(S) /\ Len(u \o <<e>>) = Len(u) + 1
        /\ \A i \in 1 .. Len(u) + 1 : (u \o <<e>>)[i] = IF i <= Len(u) THEN u[i] ELSE e
    BY <1>2
  <2> QED BY <1>1, <1>2, <2>1
<1> DEFINE t == u \o <<e>>
<1> HIDE DEF t
<1>8. t \in Seq(S) /\ Len(t) = k /\ w = t \o v
  BY <1>4, <1>5 DEF t
<1>6. w \in Seq(S) /\ Len(w) = L + 1
  <2>1. w \in Seq(S) /\ Len(w) = Len(t) + Len(v)
    BY <1>3, <1>8, ConcatProperties
  <2> QED BY <1>1, <1>3, <1>8, <2>1
<1>7. ASSUME NEW n \in 1 .. L + 1
      PROVE  w[n] = IF n < k THEN q[n] ELSE IF n = k THEN e ELSE q[n - 1]
  <2>1. w[n] = IF n <= k THEN t[n] ELSE v[n - k]
    <3>1. n \in 1 .. Len(t) + Len(v)
      BY <1>1, <1>3, <1>8
    <3>2. w[n] = IF n <= Len(t) THEN t[n] ELSE v[n - Len(t)]
      BY <1>3, <1>8, <3>1, ConcatProperties
    <3> QED BY <1>8, <3>2
  <2>2. CASE n <= k
    BY <1>1, <1>5, <2>1, <2>2 DEF t
  <2>3. CASE ~(n <= k)
    <3>1. n - k \in 1 .. L - k + 1 /\ k + (n - k) - 1 = n - 1
      BY <1>1, <2>3
    <3> QED BY <1>1, <1>3, <2>1, <2>3, <3>1
  <2> QED BY <2>2, <2>3
<1> QED BY <1>6, <1>7 DEF w, L

\* A set of positions without gaps is counted by its last.
LEMMA PrefixCount ==
  ASSUME NEW L \in Nat, NEW S \in SUBSET (1 .. L), \A i, j \in 1 .. L : i < j /\ j \in S => i \in S
  PROVE  S = 1 .. Cardinality(S) /\ Cardinality(S) \in 0 .. L
<1> DEFINE T == {x \in 1 .. L + 1 : x \notin S}
<1>1. T \in SUBSET Nat /\ L + 1 \in T
  OBVIOUS
<1>2. PICK x \in T : \A y \in T : x <= y
  <2> HIDE DEF T
  <2> QED BY <1>1, LeastOf
<1>3. S = 1 .. x - 1 /\ x - 1 \in 0 .. L
  <2>1. ASSUME NEW i \in 1 .. x - 1 PROVE i \in S
    <3>1. i \in 1 .. L + 1 /\ ~(x <= i)
      BY <1>2
    <3> QED BY <1>2, <3>1
  <2>2. ASSUME NEW i \in S PROVE i \in 1 .. x - 1
    <3>1. i \in 1 .. L /\ i # x
      BY <1>2, <2>2
    <3>2. ~(x < i)
      BY <1>2, <3>1
    <3> QED BY <1>2, <3>1, <3>2
  <2>3. x \in 1 .. L + 1
    BY <1>2
  <2>4. S = 1 .. x - 1
    BY <2>1, <2>2
  <2> QED BY <2>3, <2>4
<1>4. Cardinality(1 .. x - 1) = x - 1
  <2>1. 1 \in Int /\ x - 1 \in Int
    BY <1>3
  <2> DEFINE j == x - 1
  <2>2. Cardinality(1 .. j) = IF 1 > j THEN 0 ELSE j - 1 + 1
    <3> HIDE DEF j
    <3> QED BY <2>1, FS_Interval DEF j
  <2> QED BY <1>3, <2>2
<1> QED BY <1>3, <1>4

-----------------------------------------------------------------------------
(* Making a node *)

\* A refused call changes nothing.
LEMMA RefusedCall ==
  ASSUME NEW m, FilesOK(m), m.read = <<>>
  PROVE  CallOK(m, Refuse(m))
<1>1. Refuse(m) \in Kept /\ Refuse(m).nodes = m.nodes /\ Refuse(m).data = m.data
      /\ Refuse(m).read = m.read
  BY FilesFacts, OkReplaced DEF Refuse
<1> QED BY <1>1, QuietCall

\* The first free node is free.
LEMMA LeastFree ==
  ASSUME NEW m, m.nodes \in [Nodes -> Node], {x \in Nodes : ~m.nodes[x].used} # {}
  PROVE  (CHOOSE x \in {x \in Nodes : ~m.nodes[x].used} : \A y \in {x1 \in Nodes : ~m.nodes[x1].used} : x <= y)
           \in {x \in Nodes : ~m.nodes[x].used}
<1> DEFINE F == {x \in Nodes : ~m.nodes[x].used}
<1>1. F \in SUBSET Nat
  BY DEF Nodes
<1> HIDE DEF F
<1>2. \E x \in F : \A y \in F : x <= y
  BY <1>1, LeastOf DEF F
<1>3. (CHOOSE x \in F : \A y \in F : x <= y) \in F
  BY <1>2
<1> QED BY <1>3 DEF F

\* The nodes after a file or directory was put below parent, in node n.
Inserted(m, c, parent, n, dir, name) ==
  LET q == m.nodes[parent].index
      at == Cardinality({k \in 1 .. Len(q) : m.nodes[q[k]].name < name}) + 1
  IN  /\ c.data = m.data /\ c.fds = m.fds /\ c.read = m.read
      /\ at \in 1 .. Len(q) + 1
      /\ \A x \in Nodes \ {n, parent} : c.nodes[x] = m.nodes[x]
      /\ c.nodes[n] = [FreeNode EXCEPT !.used = TRUE, !.dir = dir, !.parent = parent, !.name = name]
      /\ c.nodes[parent] = [m.nodes[parent] EXCEPT !.index = InsertAt(q, at, n)]

LEMMA IndexReplaced ==
  ASSUME NEW x \in Node, NEW w \in Seq(Nodes)
  PROVE  /\ [x EXCEPT !.index = w] \in Node /\ [x EXCEPT !.index = w].index = w
         /\ [x EXCEPT !.index = w].used = x.used /\ [x EXCEPT !.index = w].dir = x.dir
         /\ [x EXCEPT !.index = w].parent = x.parent /\ [x EXCEPT !.index = w].name = x.name
         /\ [x EXCEPT !.index = w].size = x.size
BY DEF Node

\* course_fs_create refuses, or puts a free node under the parent where its name belongs.
LEMMA CreateInserts ==
  ASSUME NEW m, FilesOK(m), NEW path \in Seq(Int), NEW dir \in BOOLEAN
  PROVE  \/ Create(m, path, dir) = Refuse(m)
         \/ /\ path # <<>> /\ FindNode(m, Front(path)) \in Nodes /\ FindNode(m, path) \notin Nodes
            /\ m.nodes[FindNode(m, Front(path))].dir
            /\ \E n \in Nodes :
                 /\ ~m.nodes[n].used /\ n # Root /\ n # FindNode(m, Front(path))
                 /\ Inserted(m, Create(m, path, dir), FindNode(m, Front(path)), n, dir, Last(path))
                 /\ Create(m, path, dir) \in Kept
<1> DEFINE parent == FindNode(m, Front(path))
           free == {x \in Nodes : ~m.nodes[x].used}
           n == CHOOSE x \in free : \A y \in free : x <= y
           node == [FreeNode EXCEPT !.used = TRUE, !.dir = dir, !.parent = parent, !.name = Last(path)]
           k == [Done(m) EXCEPT !.nodes[n] = node]
           c == Create(m, path, dir)
<1>1. c = Refuse(m) \/
        /\ path # <<>> /\ ~(parent < 0) /\ ~(FindNode(m, path) >= 0) /\ free # {}
        /\ m.nodes[parent].dir /\ c = WithChild(k, parent, n)
  <2>1. CASE path = <<>>
    BY <2>1 DEF Create
  <2>2. CASE path # <<>>
    <3>1. c = IF parent < 0 \/ FindNode(m, path) >= 0 \/ free = {} THEN Refuse(m)
              ELSE IF ~m.nodes[parent].dir THEN Refuse(m)
              ELSE WithChild(k, parent, n)
      BY <2>2 DEF Create
    <3> QED BY <2>2, <3>1
  <2> QED BY <2>1, <2>2
<1>2. SUFFICES ASSUME path # <<>>, ~(parent < 0), ~(FindNode(m, path) >= 0), free # {},
                      m.nodes[parent].dir, c = WithChild(k, parent, n)
               PROVE  /\ parent \in Nodes /\ FindNode(m, path) \notin Nodes
                      /\ n \in Nodes /\ ~m.nodes[n].used /\ n # Root /\ n # parent
                      /\ Inserted(m, c, parent, n, dir, Last(path))
                      /\ c \in Kept
  BY <1>1
<1>3. m \in Kept /\ LookupOK(m) /\ m.nodes[Root].used /\ m.nodes \in [Nodes -> Node]
  BY FilesFacts DEF TreeOK, LookupOK
<1>4. Front(path) \in Seq(Int) /\ parent \in Found /\ FindNode(m, path) \in Found
  BY <1>2, <1>3, ChildStep
<1>5. parent \in Nodes /\ FindNode(m, path) \notin Nodes
  BY <1>2, <1>4, FoundFacts DEF Found, Nodes
<1>6. m.nodes[parent].used
  BY <1>4, <1>5, FoundUsed
<1>7. n \in Nodes /\ ~m.nodes[n].used
  BY <1>2, <1>3, LeastFree
<1>8. n # Root /\ n # parent
  BY <1>3, <1>6, <1>7
<1> HIDE DEF parent, n, node, c
<1> DEFINE q == m.nodes[parent].index
           B == {i \in 1 .. Len(q) : m.nodes[q[i]].name < Last(path)}
           w == InsertAt(q, Cardinality(B) + 1, n)
<1>9. q \in Seq(Nodes) /\ \A i \in 1 .. Len(q) : q[i] \in Nodes \ {n}
  <2>1. q \in Seq(Nodes)
    BY <1>3, <1>5 DEF Node
  <2>2. ToSet(q) = Children(m, parent)
    BY <1>3, <1>5 DEF LookupOK, Indexed
  <2>3. \A i \in 1 .. Len(q) : q[i] \in ToSet(q)
    <3> HIDE DEF q
    <3> QED BY <2>1, QueueSet
  <2> HIDE DEF q
  <2>4. n \notin ToSet(q)
    BY <1>7, <2>2 DEF Children
  <2> QED BY <2>1, <2>3, <2>4
<1>20. node \in Node /\ Last(path) \in Int
  <2>1. Last(path) \in Int
    BY <1>2, FrontFacts
  <2>2. <<>> \in Seq(Nodes) /\ 0 \in 0 .. MaxData
    OBVIOUS
  <2> QED BY <1>5, <2>1, <2>2 DEF node, FreeNode, Node
<1>10. /\ k \in Kept /\ k.data = m.data /\ k.fds = m.fds /\ k.read = m.read
       /\ k.nodes = [m.nodes EXCEPT ![n] = node]
  <2>1. /\ Done(m) \in Kept /\ Done(m).nodes = m.nodes /\ Done(m).data = m.data
        /\ Done(m).fds = m.fds /\ Done(m).read = m.read
    BY <1>3, OkReplaced DEF Done
  <2>2. [m.nodes EXCEPT ![n] = node] \in [Nodes -> Node]
    BY <1>3, <1>7, <1>20
  <2>3. k = [Done(m) EXCEPT !.nodes = [m.nodes EXCEPT ![n] = node]]
    BY <2>1
  <2> HIDE DEF k
  <2> QED BY <2>1, <2>2, <2>3, NodesReplaced
<1>11. k.nodes[n] = node /\ \A x \in Nodes \ {n} : k.nodes[x] = m.nodes[x]
  BY <1>3, <1>7, <1>10
<1>12. node.name = Last(path)
  BY DEF node, FreeNode
<1> HIDE DEF k
<1>13. k.nodes[parent].index = q
  BY <1>5, <1>8, <1>11
<1>14. {i \in 1 .. Len(k.nodes[parent].index) :
          k.nodes[k.nodes[parent].index[i]].name < k.nodes[n].name} = B
  <2> HIDE DEF q
  <2>1. \A i \in 1 .. Len(q) : k.nodes[q[i]].name = m.nodes[q[i]].name
    BY <1>9, <1>11
  <2> QED BY <1>11, <1>12, <1>13, <2>1
<1>15. c = [k EXCEPT !.nodes[parent].index = w]
  <2>1. c = LET below == {i \in 1 .. Len(k.nodes[parent].index) :
                            k.nodes[k.nodes[parent].index[i]].name < k.nodes[n].name}
            IN  [k EXCEPT !.nodes[parent].index = InsertAt(@, Cardinality(below) + 1, n)]
    BY <1>2 DEF WithChild
  <2>2. c = [k EXCEPT !.nodes[parent].index =
               InsertAt(k.nodes[parent].index, Cardinality(B) + 1, n)]
    <3> HIDE DEF B
    <3> QED BY <1>14, <2>1
  <2> QED BY <1>13, <2>2
<1> HIDE DEF w
<1>16. Cardinality(B) + 1 \in 1 .. Len(q) + 1 /\ w \in Seq(Nodes)
  <2>1. \A i, j \in 1 .. Len(q) : i < j => m.nodes[q[i]].name < m.nodes[q[j]].name
    BY <1>3, <1>5 DEF LookupOK, Indexed, NamesRise
  <2> HIDE DEF q
  <2>2. Len(q) \in Nat /\ \A i \in 1 .. Len(q) : m.nodes[q[i]].name \in Int
    BY <1>3, <1>9 DEF Node
  <2>3. B \in SUBSET (1 .. Len(q))
    OBVIOUS
  <2>4. \A i, j \in 1 .. Len(q) : i < j /\ j \in B => i \in B
    BY <1>20, <2>1, <2>2
  <2>5. Cardinality(B) \in 0 .. Len(q)
    <3> HIDE DEF B
    <3> QED BY <2>2, <2>3, <2>4, PrefixCount
  <2>6. Cardinality(B) + 1 \in 1 .. Len(q) + 1
    BY <2>2, <2>5
  <2> HIDE DEF B
  <2> QED BY <1>7, <1>9, <2>6, InsertAtFacts DEF w
<1>17. /\ c.nodes = [m.nodes EXCEPT ![n] = node, ![parent] = [m.nodes[parent] EXCEPT !.index = w]]
       /\ c \in Kept /\ c.data = m.data /\ c.fds = m.fds /\ c.read = m.read
  <2> DEFINE y == [m.nodes EXCEPT ![n] = node, ![parent] = [m.nodes[parent] EXCEPT !.index = w]]
  <2>1. c = [k EXCEPT !.nodes = [k.nodes EXCEPT ![parent] = [k.nodes[parent] EXCEPT !.index = w]]]
    BY <1>15
  <2>2. [k.nodes EXCEPT ![parent] = [k.nodes[parent] EXCEPT !.index = w]] = y
    <3>1. k.nodes[parent] = m.nodes[parent]
      BY <1>5, <1>8, <1>11
    <3> QED BY <1>3, <1>5, <1>7, <1>8, <1>10, <3>1
  <2>3. y \in [Nodes -> Node]
    <3>1. [m.nodes[parent] EXCEPT !.index = w] \in Node
      <4>1. m.nodes[parent] \in Node
        BY <1>3, <1>5
      <4> QED BY <1>16, <4>1, IndexReplaced
    <3> QED BY <1>3, <1>7, <1>20, <3>1
  <2> HIDE DEF y
  <2>4. c = [k EXCEPT !.nodes = y]
    BY <2>1, <2>2
  <2>5. c \in Kept /\ c.nodes = y /\ c.data = k.data /\ c.fds = k.fds /\ c.read = k.read
    BY <1>10, <2>3, <2>4, NodesReplaced
  <2> QED BY <1>10, <2>5 DEF y
<1>18. /\ \A x \in Nodes \ {n, parent} : c.nodes[x] = m.nodes[x]
       /\ c.nodes[n] = node /\ c.nodes[parent] = [m.nodes[parent] EXCEPT !.index = w]
  BY <1>3, <1>5, <1>7, <1>8, <1>17
<1>19. Inserted(m, c, parent, n, dir, Last(path))
  BY <1>16, <1>17, <1>18 DEF Inserted, w, node
<1> QED BY <1>5, <1>7, <1>8, <1>17, <1>19

\* An element put where its key belongs keeps the keys rising.
Placed(q, key, n) ==
  InsertAt(q, Cardinality({i \in 1 .. Len(q) : key[q[i]] < key[n]}) + 1, n)

LEMMA InsertRises ==
  ASSUME NEW S, NEW q \in Seq(S), NEW n \in S, NEW key \in [S -> Int],
         \A i, j \in 1 .. Len(q) : i < j => key[q[i]] < key[q[j]],
         \A i \in 1 .. Len(q) : key[q[i]] # key[n]
  PROVE  LET w == Placed(q, key, n)
         IN  /\ w \in Seq(S) /\ ToSet(w) = ToSet(q) \cup {n}
             /\ \A i, j \in 1 .. Len(w) : i < j => key[w[i]] < key[w[j]]
<1> DEFINE B == {i \in 1 .. Len(q) : key[q[i]] < key[n]}
           at == Cardinality(B) + 1
           w == InsertAt(q, at, n)
<1>1. Len(q) \in Nat /\ \A i \in 1 .. Len(q) : q[i] \in S /\ key[q[i]] \in Int
  OBVIOUS
<1>2. key[n] \in Int
  OBVIOUS
<1>3. B \in SUBSET (1 .. Len(q)) /\ \A i, j \in 1 .. Len(q) : i < j /\ j \in B => i \in B
  BY <1>1, <1>2
<1>4. B = 1 .. Cardinality(B) /\ Cardinality(B) \in 0 .. Len(q)
  <2> HIDE DEF B
  <2> QED BY <1>1, <1>3, PrefixCount
<1>5. at \in 1 .. Len(q) + 1 /\ \A i \in 1 .. Len(q) : i < at <=> key[q[i]] < key[n]
  <2>1. \A i \in 1 .. Len(q) : i \in B <=> key[q[i]] < key[n]
    OBVIOUS
  <2> HIDE DEF B
  <2> QED BY <1>1, <1>4, <2>1
<1> HIDE DEF B, at
<1>6. /\ w \in Seq(S) /\ Len(w) = Len(q) + 1
      /\ \A i \in 1 .. Len(q) + 1 : w[i] = IF i < at THEN q[i] ELSE IF i = at THEN n ELSE q[i - 1]
  BY <1>5, InsertAtFacts
<1> HIDE DEF w
<1> DEFINE L == Len(q)
<1>9. L \in Nat /\ at \in Nat /\ 1 <= at /\ at <= L + 1 /\ Len(w) = L + 1
  BY <1>1, <1>5, <1>6
<1>10. /\ \A i \in Nat : 1 <= i /\ i < at => w[i] = q[i] /\ i \in 1 .. L
       /\ w[at] = n /\ at \in 1 .. L + 1
       /\ \A i \in Nat : i > at /\ i <= L + 1 => w[i] = q[i - 1] /\ i - 1 \in 1 .. L
  <2>1. \A i \in Nat : 1 <= i /\ i < at => i \in 1 .. L /\ i \in 1 .. L + 1
    BY <1>9
  <2>2. \A i \in Nat : i > at /\ i <= L + 1 => i - 1 \in 1 .. L /\ i \in 1 .. L + 1 /\ ~(i < at) /\ i # at
    BY <1>9
  <2>3. at \in 1 .. L + 1 /\ ~(at < at)
    BY <1>9
  <2>4. \A i \in 1 .. L + 1 : w[i] = IF i < at THEN q[i] ELSE IF i = at THEN n ELSE q[i - 1]
    BY <1>6
  <2> HIDE DEF L
  <2>5. \A i \in Nat : 1 <= i /\ i < at => w[i] = q[i]
    BY <2>1, <2>4
  <2>6. w[at] = n
    BY <2>3, <2>4
  <2>7. \A i \in Nat : i > at /\ i <= L + 1 => w[i] = q[i - 1]
    BY <2>2, <2>4
  <2> QED BY <2>1, <2>2, <2>3, <2>5, <2>6, <2>7
<1>11. /\ \A i \in 1 .. L : q[i] \in S /\ key[q[i]] \in Int
       /\ \A i, j \in 1 .. L : i < j => key[q[i]] < key[q[j]]
       /\ \A i \in 1 .. L : (i < at <=> key[q[i]] < key[n]) /\ key[q[i]] # key[n]
  BY <1>1, <1>5
<1>7. ToSet(w) = ToSet(q) \cup {n}
  <2>1. ToSet(w) = {w[i] : i \in 1 .. Len(w)} /\ ToSet(q) = {q[i] : i \in 1 .. L}
    BY <1>6, QueueSet
  <2> HIDE DEF L
  <2>2. ASSUME NEW i \in 1 .. Len(w) PROVE w[i] \in ToSet(q) \cup {n}
    <3>1. i \in Nat /\ 1 <= i /\ i <= L + 1
      BY <1>9
    <3>2. i < at \/ i = at \/ i > at
      BY <1>9, <3>1
    <3> QED BY <1>10, <2>1, <3>1, <3>2
  <2>3. n \in ToSet(w)
    BY <1>9, <1>10, <2>1
  <2>4. ASSUME NEW i \in 1 .. L PROVE q[i] \in ToSet(w)
    <3>1. CASE i < at
      <4>1. i \in Nat /\ 1 <= i /\ i \in 1 .. Len(w)
        BY <1>9
      <4> QED BY <1>10, <2>1, <3>1, <4>1
    <3>2. CASE ~(i < at)
      <4>1. i + 1 \in Nat /\ i + 1 > at /\ i + 1 <= L + 1 /\ i + 1 - 1 = i /\ i + 1 \in 1 .. Len(w)
        BY <1>9, <3>2
      <4>2. w[i + 1] = q[i]
        BY <1>10, <4>1
      <4> QED BY <2>1, <4>1, <4>2
    <3> QED BY <3>1, <3>2
  <2>5. \A x \in ToSet(w) : x \in ToSet(q) \cup {n}
    BY <2>1, <2>2
  <2>6. \A x \in ToSet(q) : x \in ToSet(w)
    BY <2>1, <2>4
  <2> QED BY <2>3, <2>5, <2>6
<1>8. ASSUME NEW i \in 1 .. Len(w), NEW j \in 1 .. Len(w), i < j PROVE key[w[i]] < key[w[j]]
  <2> HIDE DEF L
  <2>0. i \in Nat /\ j \in Nat /\ 1 <= i /\ j <= L + 1 /\ i <= L + 1 /\ 1 <= j
    BY <1>9
  <2>1. CASE j < at
    <3>1. i \in 1 .. L /\ j \in 1 .. L /\ w[i] = q[i] /\ w[j] = q[j]
      <4>1. i < at
        BY <1>8, <1>9, <2>0, <2>1
      <4> QED BY <1>10, <2>0, <2>1, <4>1
    <3> QED BY <1>8, <1>11, <3>1
  <2>2. CASE i < at /\ j = at
    <3>1. i \in 1 .. L /\ w[i] = q[i] /\ w[j] = n
      BY <1>10, <2>0, <2>2
    <3> QED BY <1>11, <2>2, <3>1
  <2>3. CASE i < at /\ j > at
    <3>1. i \in 1 .. L /\ j - 1 \in 1 .. L /\ w[i] = q[i] /\ w[j] = q[j - 1]
      BY <1>10, <2>0, <2>3
    <3>2. i = j - 1 \/ i < j - 1
      BY <1>8, <2>0
    <3>3. i < j - 1
      BY <1>9, <2>0, <2>3
    <3> QED BY <1>11, <3>1, <3>3
  <2>4. CASE i = at /\ j > at
    <3>1. j - 1 \in 1 .. L /\ w[i] = n /\ w[j] = q[j - 1]
      BY <1>10, <2>0, <2>4
    <3>2. ~(j - 1 < at)
      BY <1>9, <2>0, <2>4
    <3>3. key[q[j - 1]] \in Int /\ ~(key[q[j - 1]] < key[n]) /\ key[q[j - 1]] # key[n]
      BY <1>11, <3>1, <3>2
    <3> QED BY <1>2, <3>1, <3>3
  <2>5. CASE i > at
    <3>1. i - 1 \in 1 .. L /\ j - 1 \in 1 .. L /\ w[i] = q[i - 1] /\ w[j] = q[j - 1]
      <4>1. j > at
        BY <1>8, <1>9, <2>0, <2>5
      <4> QED BY <1>10, <2>0, <2>5, <4>1
    <3>2. i - 1 < j - 1
      BY <1>8, <2>0
    <3> QED BY <1>11, <3>1, <3>2
  <2>6. i < at \/ i = at \/ i > at
    BY <1>9, <2>0
  <2>7. j < at \/ j = at \/ j > at
    BY <1>9, <2>0
  <2> QED BY <1>8, <1>9, <2>0, <2>1, <2>2, <2>3, <2>4, <2>5, <2>6, <2>7
<1>12. w = Placed(q, key, n)
  BY DEF w, at, B, Placed
<1> QED BY <1>6, <1>7, <1>8, <1>12

\* The node that is put there keeps the invariant, and is new and empty.
LEMMA InsertedOK ==
  ASSUME NEW m, FilesOK(m), NEW c \in Kept, NEW parent \in Nodes, NEW n \in Nodes,
         m.nodes[parent].dir, m.nodes[parent].used, ~m.nodes[n].used, n # Root, n # parent,
         NEW dir \in BOOLEAN, NEW name \in Int,
         \A x \in Children(m, parent) : m.nodes[x].name # name,
         Inserted(m, c, parent, n, dir, name)
  PROVE  FilesOK(c) /\ Grown(m, c, n) /\ Shown(c, n) = [dir |-> dir, bytes |-> <<>>]
<1> DEFINE q == m.nodes[parent].index
           at == Cardinality({k \in 1 .. Len(q) : m.nodes[q[k]].name < name}) + 1
           w == InsertAt(q, at, n)
<1>1. /\ m \in Kept /\ TreeOK(m) /\ m.nodes \in [Nodes -> Node] /\ m.nodes[parent] \in Node
      /\ c.nodes \in [Nodes -> Node] /\ c.data \in [Nodes -> [1 .. MaxData -> Int]]
  BY FilesFacts DEF Kept
<1>2. /\ c.nodes[n].used /\ c.nodes[n].dir = dir /\ c.nodes[n].parent = parent
      /\ c.nodes[n].name = name /\ c.nodes[n].index = <<>> /\ c.nodes[n].size = 0
  BY DEF Inserted, FreeNode
<1>3. q \in Seq(Nodes) /\ ToSet(q) = Children(m, parent) /\ NamesRise(m, q)
  BY <1>1 DEF Node, TreeOK, Indexed
<1>4. \A i \in 1 .. Len(q) : q[i] \in Children(m, parent) /\ q[i] \in Nodes
  <2> HIDE DEF q
  <2>1. ToSet(q) = {q[i] : i \in 1 .. Len(q)} /\ ToSet(q) \subseteq Nodes
    BY <1>3, QueueSet
  <2> QED BY <1>3, <2>1
<1>5. \A x \in Nodes : n \notin Children(m, x)
  BY DEF Children
<1> DEFINE key == [x \in Nodes |-> c.nodes[x].name]
<1>6. /\ key \in [Nodes -> Int] /\ key[n] = name
      /\ \A x \in Nodes \ {n, parent} : c.nodes[x] = m.nodes[x]
  <2>1. \A x \in Nodes : c.nodes[x].name \in Int
    BY <1>1 DEF Node
  <2> QED BY <1>2, <2>1 DEF Inserted
<1>7. w \in Seq(Nodes)
  <2>1. at \in 1 .. Len(q) + 1
    BY DEF Inserted
  <2> HIDE DEF q, at
  <2> QED BY <1>3, <2>1, InsertAtFacts
<1>8. /\ c.nodes[parent].index = w /\ c.nodes[parent].used /\ c.nodes[parent].dir
      /\ SameAt(m, c, parent) /\ c.nodes[parent].size = m.nodes[parent].size
      /\ c.nodes[parent].dir = m.nodes[parent].dir
  <2>1. c.nodes[parent] = [m.nodes[parent] EXCEPT !.index = w]
    BY DEF Inserted
  <2> DEFINE z == m.nodes[parent]
  <2>2. z \in Node /\ z.used /\ z.dir /\ c.nodes[parent] = [z EXCEPT !.index = w]
    BY <1>1, <2>1
  <2> HIDE DEF w, z
  <2>3. /\ c.nodes[parent].index = w /\ c.nodes[parent].used = z.used
        /\ c.nodes[parent].dir = z.dir /\ c.nodes[parent].parent = z.parent
        /\ c.nodes[parent].name = z.name /\ c.nodes[parent].size = z.size
    <3>1. LET y == [z EXCEPT !.index = w]
          IN  /\ y.index = w /\ y.used = z.used /\ y.dir = z.dir /\ y.parent = z.parent
              /\ y.name = z.name /\ y.size = z.size
      BY ONLY <1>7, <2>2, IndexReplaced
    <3> QED BY ONLY <2>2, <3>1
  <2> QED BY <2>2, <2>3 DEF SameAt, z
<1>9. \A x \in Nodes \ {n} : SameAt(m, c, x) /\ key[x] = m.nodes[x].name
  <2> HIDE DEF w
  <2> QED BY <1>6, <1>8 DEF SameAt
<1> HIDE DEF key
<1>10. ToSet(w) = Children(m, parent) \cup {n} /\ NamesRise(c, w)
  <2>1. \A i \in 1 .. Len(q) : key[q[i]] = m.nodes[q[i]].name /\ key[q[i]] # key[n]
    BY <1>4, <1>5, <1>6, <1>9
  <2>2. \A i, j \in 1 .. Len(q) : i < j => key[q[i]] < key[q[j]]
    BY <1>3, <2>1 DEF NamesRise
  <2>3. at = Cardinality({i \in 1 .. Len(q) : key[q[i]] < key[n]}) + 1
    <3> HIDE DEF q
    <3>1. {i \in 1 .. Len(q) : key[q[i]] < key[n]} = {k \in 1 .. Len(q) : m.nodes[q[k]].name < name}
      BY <1>6, <2>1
    <3> QED BY <3>1
  <2>4. /\ ToSet(w) = ToSet(q) \cup {n}
        /\ \A i, j \in 1 .. Len(w) : i < j => key[w[i]] < key[w[j]]
    <3>1. w = Placed(q, key, n)
      <4> DEFINE B == {i \in 1 .. Len(q) : key[q[i]] < key[n]}
      <4>1. Placed(q, key, n) = InsertAt(q, Cardinality(B) + 1, n)
        BY DEF Placed
      <4> HIDE DEF B
      <4> QED BY <2>3, <4>1 DEF B
    <3> HIDE DEF q, at, w
    <3>2. /\ ToSet(Placed(q, key, n)) = ToSet(q) \cup {n}
          /\ \A i, j \in 1 .. Len(Placed(q, key, n)) :
                i < j => key[Placed(q, key, n)[i]] < key[Placed(q, key, n)[j]]
      <4>1. n \in Nodes /\ q \in Seq(Nodes) /\ key \in [Nodes -> Int]
        BY <1>3, <1>6
      <4>2. \A i \in 1 .. Len(q) : key[q[i]] # key[n]
        BY <2>1
      <4> QED BY ONLY <2>2, <4>1, <4>2, InsertRises
    <3> QED BY <3>1, <3>2
  <2>5. \A i \in 1 .. Len(w) : key[w[i]] = c.nodes[w[i]].name
    <3> HIDE DEF w
    <3> QED BY <1>7 DEF key
  <2> HIDE DEF w
  <2> QED BY <1>3, <2>4, <2>5 DEF NamesRise
<1> HIDE DEF w, q, at
<1>11. /\ Children(c, parent) = Children(m, parent) \cup {n}
       /\ \A x \in Nodes \ {parent} : Children(c, x) = Children(m, x)
  BY <1>2, <1>9 DEF Children, SameAt
<1>12. Children(m, n) = {} /\ Children(c, n) = {}
  <2>1. Children(m, n) = ToSet(<<>>)
    BY <1>1 DEF TreeOK, Indexed, FreeNode
  <2>2. <<>> \in Seq(Nodes)
    OBVIOUS
  <2> QED BY <1>11, <2>1, <2>2, QueueSet
<1>13. ASSUME NEW x \in Nodes PROVE Indexed(c, x)
  <2>1. CASE x = n
    <3>1. <<>> \in Seq(Nodes) /\ Len(<<>>) = 0
      OBVIOUS
    <3>2. ToSet(<<>>) = {}
      BY <3>1, QueueSet
    <3>3. NamesRise(c, <<>>)
      BY <3>1 DEF NamesRise
    <3> QED BY <1>2, <1>12, <2>1, <3>2, <3>3 DEF Indexed
  <2>2. CASE x = parent
    BY <1>8, <1>10, <1>11, <2>2 DEF Indexed
  <2>3. CASE x # n /\ x # parent
    <3>1. c.nodes[x] = m.nodes[x] /\ Children(c, x) = Children(m, x) /\ Indexed(m, x)
      BY <1>1, <1>6, <1>11, <2>3 DEF TreeOK
    <3>2. m.nodes[x].index \in Seq(Nodes)
      BY <1>1 DEF Node
    <3>3. \A i \in 1 .. Len(m.nodes[x].index) :
            c.nodes[m.nodes[x].index[i]].name = m.nodes[m.nodes[x].index[i]].name
      <4> DEFINE r == m.nodes[x].index
      <4>1. ToSet(r) = {r[i] : i \in 1 .. Len(r)} /\ ToSet(r) = Children(m, x)
        <5>1. ToSet(r) = Children(m, x)
          BY <3>1 DEF Indexed
        <5>2. r \in Seq(Nodes)
          BY <3>2
        <5> HIDE DEF r
        <5>3. ToSet(r) = {r[i] : i \in 1 .. Len(r)}
          BY ONLY <5>2, QueueSet
        <5> QED BY ONLY <5>1, <5>3
      <4> HIDE DEF r
      <4>2. \A i \in 1 .. Len(r) : r[i] \in Nodes \ {n}
        BY <1>5, <4>1 DEF Children
      <4>3. \A y \in Nodes \ {n} : c.nodes[y].name = m.nodes[y].name
        BY <1>9 DEF SameAt
      <4> QED BY <4>2, <4>3 DEF r
    <3> QED BY <3>1, <3>3 DEF Indexed, NamesRise
  <2> QED BY <2>1, <2>2, <2>3
<1>14. TreeOK(c)
  <2>1. Root \in Nodes /\ c.nodes[Root].used /\ c.nodes[Root].dir
    <3>1. Root \in Nodes /\ m.nodes[Root].used /\ m.nodes[Root].dir
      BY <1>1, FoundFacts DEF TreeOK
    <3> QED BY <1>6, <1>8, <3>1
  <2>2. ASSUME NEW x \in Nodes, ~c.nodes[x].used PROVE c.nodes[x] = FreeNode
    BY <1>1, <1>2, <1>6, <1>8, <2>2 DEF TreeOK
  <2> QED BY <1>13, <2>1, <2>2 DEF TreeOK
<1>15. Shown(c, n) = [dir |-> dir, bytes |-> <<>>]
  <2>1. SubSeq(c.data[n], 1, 0) = <<>>
    OBVIOUS
  <2> QED BY <1>2, <2>1 DEF Shown
<1> QED BY <1>2, <1>9, <1>12, <1>14, <1>15 DEF FilesOK, Grown

\* The trees before and after: one path more.
LEMMA GrownTree ==
  ASSUME NEW m, FilesOK(m), NEW k, FilesOK(k), NEW new, Grown(m, k, new),
         \A n \in Nodes \ {new} : Shown(k, n) = Shown(m, n),
         NEW path \in FilePaths, FindNode(k, path) = new
  PROVE  /\ path \in DOMAIN TreeOf(k) /\ DOMAIN TreeOf(m) = DOMAIN TreeOf(k) \ {path}
         /\ TreeOf(k)[path] = Shown(k, new)
         /\ \A q \in DOMAIN TreeOf(m) : TreeOf(m)[q] = TreeOf(k)[q]
<1>1. \A q \in FilePaths : q \in Seq(Int)
  BY FilesAssumption
<1>2. \A q \in FilePaths : /\ FindNode(m, q) # new
                           /\ \/ FindNode(k, q) = FindNode(m, q)
                              \/ FindNode(k, q) = new /\ FindNode(m, q) = -1
  BY <1>1, FilesFacts, GrownLookup
<1>3. \A q \in FilePaths : FindNode(k, q) = new <=> q = path
  BY <1>1, FilesFacts, OnePath DEF Grown
<1>4. new \in Nodes /\ -1 \notin Nodes
  BY FoundFacts DEF Grown
<1>5. path \in Listed(k) /\ Listed(m) = Listed(k) \ {path}
  BY <1>2, <1>3, <1>4 DEF Listed
<1>6. \A q \in Listed(m) : FindNode(m, q) = FindNode(k, q) /\ FindNode(m, q) \in Nodes \ {new}
  BY <1>2, <1>4 DEF Listed
<1>7. \A q \in Listed(m) : Shown(m, FindNode(m, q)) = Shown(k, FindNode(k, q))
  BY <1>6
<1> QED BY <1>3, <1>5, <1>7, TreeIs

\* One path more is a Make of the tree.
LEMMA MakeCall ==
  ASSUME NEW m, FilesOK(m), NEW c, FilesOK(c), NEW n, Grown(m, c, n), c.read = <<>>,
         \A x \in Nodes \ {n} : Shown(c, x) = Shown(m, x),
         NEW path \in FilePaths, path # <<>>, FindNode(c, path) = n,
         FindNode(m, Front(path)) \in Nodes, m.nodes[FindNode(m, Front(path))].dir,
         NEW dir \in BOOLEAN, Shown(c, n) = [dir |-> dir, bytes |-> <<>>]
  PROVE  CallOK(m, c)
<1> DEFINE t == TreeOf(m)
           u == TreeOf(c)
<1>1. /\ path \in DOMAIN u /\ DOMAIN t = DOMAIN u \ {path} /\ u[path] = Shown(c, n)
      /\ \A q \in DOMAIN t : t[q] = u[q]
  <2> HIDE DEF t, u
  <2>1. /\ path \in DOMAIN TreeOf(c) /\ DOMAIN TreeOf(m) = DOMAIN TreeOf(c) \ {path}
        /\ TreeOf(c)[path] = Shown(c, n)
        /\ \A q \in DOMAIN TreeOf(m) : TreeOf(m)[q] = TreeOf(c)[q]
    <3>1. /\ FilesOK(m) /\ FilesOK(c) /\ Grown(m, c, n) /\ FindNode(c, path) = n /\ path \in FilePaths
          /\ \A x \in Nodes \ {n} : Shown(c, x) = Shown(m, x)
      OBVIOUS
    <3> QED BY ONLY <3>1, GrownTree
  <2> QED BY <2>1 DEF t, u
<1>2. t = [q \in Listed(m) |-> t[q]] /\ u = [q \in Listed(c) |-> u[q]]
  BY TreeIs
<1>3. Front(path) \in DOMAIN t /\ t[Front(path)].dir
  <2>1. Front(path) \in Listed(m)
    BY FilesAssumption DEF Listed
  <2> QED BY <2>1, TreeIs DEF Shown
<1> HIDE DEF t, u
<1>4. \E contents \in {Tree!Directory, Tree!EmptyFile} : u[path] = contents
  BY <1>1 DEF Tree!Directory, Tree!EmptyFile
<1>5. u = [q \in DOMAIN t \cup {path} |-> IF q = path THEN u[path] ELSE t[q]]
  <2>1. u = [q \in DOMAIN u |-> u[q]]
    BY <1>2
  <2>2. DOMAIN u = DOMAIN t \cup {path}
    BY <1>1
  <2>3. \A q \in DOMAIN u : u[q] = IF q = path THEN u[path] ELSE t[q]
    BY <1>1
  <2>4. u = [q \in DOMAIN u |-> IF q = path THEN u[path] ELSE t[q]]
    BY ONLY <2>1, <2>3
  <2> QED BY ONLY <2>2, <2>4
<1>6. Tree!Make(t, u, path)
  <2>1. PICK contents \in {Tree!Directory, Tree!EmptyFile} : u[path] = contents
    BY <1>4
  <2>2. u = [q \in DOMAIN t \cup {path} |-> IF q = path THEN contents ELSE t[q]]
    BY ONLY <1>5, <2>1
  <2>3. path # <<>> /\ Tree!Parent(path) \in DOMAIN t /\ t[Tree!Parent(path)].dir
    <3>1. Tree!Parent(path) = Front(path)
      BY DEF Tree!Parent, Tree!Front, Front
    <3> QED BY <1>3, <3>1
  <2> QED BY ONLY <2>1, <2>2, <2>3 DEF Tree!Make
<1>7. t # u /\ path \in DOMAIN u \ DOMAIN t
  BY <1>1
<1>8. Tree!TreeStep(t, u, c.read)
  BY <1>6, <1>7 DEF Tree!TreeStep, Tree!Change
<1> QED BY <1>8 DEF CallOK, t, u

\* A call of course_fs_create is a step of the tree.
LEMMA CreateCall ==
  ASSUME NEW m, FilesOK(m), m.read = <<>>, NEW path \in FilePaths, NEW dir \in BOOLEAN
  PROVE  CallOK(m, Create(m, path, dir))
<1> DEFINE c == Create(m, path, dir)
           parent == FindNode(m, Front(path))
<1>1. path \in Seq(Int)
  BY FilesAssumption
<1>2. CASE c = Refuse(m)
  BY <1>2, RefusedCall
<1>3. CASE c # Refuse(m)
  <2>1. /\ path # <<>> /\ parent \in Nodes /\ FindNode(m, path) \notin Nodes /\ m.nodes[parent].dir
        /\ \E n \in Nodes : /\ ~m.nodes[n].used /\ n # Root /\ n # parent
                            /\ Inserted(m, c, parent, n, dir, Last(path)) /\ c \in Kept
    BY <1>1, <1>3, CreateInserts
  <2>2. PICK n \in Nodes : /\ ~m.nodes[n].used /\ n # Root /\ n # parent
                           /\ Inserted(m, c, parent, n, dir, Last(path)) /\ c \in Kept
    BY <2>1
  <2> HIDE DEF c
  <2>3. Front(path) \in Seq(Int) /\ Last(path) \in Int
    BY <1>1, <2>1, FrontFacts
  <2>4. m.nodes[parent].used
    BY <2>1, <2>3, FoundUsed
  <2>5. \A x \in Children(m, parent) : m.nodes[x].name # Last(path)
    <3>1. \A x \in Children(m, parent) : x \in Nodes
      BY DEF Children
    <3>2. \A x \in Nodes : FindNode(m, path) # x
      BY <2>1
    <3> QED BY <1>1, <2>1, <3>1, <3>2, FilesFacts, ChildStep
  <2> HIDE DEF parent
  <2>6. FilesOK(c) /\ Grown(m, c, n) /\ Shown(c, n) = [dir |-> dir, bytes |-> <<>>]
    <3>1. FilesOK(m) /\ dir \in BOOLEAN
      OBVIOUS
    <3> QED BY ONLY <2>1, <2>2, <2>3, <2>4, <2>5, <3>1, n \in Nodes, InsertedOK
  <2>7. c.read = <<>>
    BY <2>2 DEF Inserted
  <2>8. \A x \in Nodes \ {n} : Shown(c, x) = Shown(m, x)
    <3> DEFINE z == m.nodes[parent]
               q == z.index
               w == InsertAt(q, Cardinality({k \in 1 .. Len(q) : m.nodes[q[k]].name < Last(path)}) + 1, n)
    <3>1. c.nodes[parent] = [z EXCEPT !.index = w]
      BY <2>2 DEF Inserted
    <3>2. z \in Node
      BY <2>1, FilesFacts DEF LookupOK
    <3> HIDE DEF w
    <3>3. c.nodes[parent].dir = z.dir /\ c.nodes[parent].size = z.size
      <4> HIDE DEF z
      <4> QED BY <3>1, <3>2 DEF Node
    <3>4. c.data = m.data /\ \A x \in Nodes \ {n, parent} : c.nodes[x] = m.nodes[x]
      BY <2>2 DEF Inserted
    <3> QED BY <3>3, <3>4 DEF Shown
  <2>9. FindNode(c, path) = n
    <3>1. FindNode(c, Front(path)) = parent
      <4>1. \/ FindNode(c, Front(path)) = FindNode(m, Front(path))
            \/ FindNode(c, Front(path)) = n /\ FindNode(m, Front(path)) = -1
        BY <2>3, <2>6, FilesFacts, GrownLookup
      <4> QED BY <2>1, <4>1, FoundFacts DEF parent
    <3>2. n \in Children(c, parent) /\ c.nodes[n].name = Last(path)
      BY <2>2 DEF Inserted, FreeNode, Children
    <3> QED BY <1>1, <2>1, <2>6, <3>1, <3>2, FilesFacts, ChildStep
  <2>10. CallOK(m, c)
    BY <2>1, <2>6, <2>7, <2>8, <2>9, MakeCall DEF parent
  <2> QED BY <2>10 DEF c
<1> QED BY <1>2, <1>3

-----------------------------------------------------------------------------
(* Removing a node *)

\* The keys keep rising when an element is taken out.
LEMMA RemoveRises ==
  ASSUME NEW S, NEW q \in Seq(S), NEW key \in [S -> Int], NEW k \in 1 .. Len(q),
         \A i, j \in 1 .. Len(q) : i < j => key[q[i]] < key[q[j]]
  PROVE  LET w == RemoveAt(q, k)
         IN  /\ w \in Seq(S) /\ ToSet(w) = ToSet(q) \ {q[k]}
             /\ \A i, j \in 1 .. Len(w) : i < j => key[w[i]] < key[w[j]]
<1> DEFINE L == Len(q)
           w == RemoveAt(q, k)
<1>1. L \in Nat /\ \A i \in 1 .. L : q[i] \in S /\ key[q[i]] \in Int
  OBVIOUS
<1>2. w \in Seq(S) /\ Len(w) = L - 1 /\ \A i \in 1 .. L - 1 : w[i] = IF i < k THEN q[i] ELSE q[i + 1]
  <2>1. /\ RemoveAt(q, k) \in Seq(S) /\ Len(RemoveAt(q, k)) = Len(q) - 1
        /\ \A i \in 1 .. Len(q) - 1 : RemoveAt(q, k)[i] = IF i < k THEN q[i] ELSE q[i + 1]
    BY ONLY q \in Seq(S), k \in 1 .. Len(q), RemoveAtFacts
  <2> QED BY <2>1
<1>3. Distinct(q)
  <2>1. ASSUME NEW i \in 1 .. L, NEW j \in 1 .. L, q[i] = q[j] PROVE i = j
    <3>1. ~(i < j) /\ ~(j < i)
      BY <1>1, <2>1
    <3> QED BY <1>1, <3>1
  <2> QED BY <2>1 DEF Distinct
<1>4. ToSet(w) = ToSet(q) \ {q[k]}
  BY <1>3, RemoveAtSet
<1> HIDE DEF w
<1>5. ASSUME NEW i \in 1 .. Len(w), NEW j \in 1 .. Len(w), i < j PROVE key[w[i]] < key[w[j]]
  <2> DEFINE at(x) == IF x < k THEN x ELSE x + 1
  <2>3. k \in Nat /\ 1 <= k /\ k <= L /\ L \in Nat
    BY <1>1
  <2>4. i \in 1 .. L - 1 /\ j \in 1 .. L - 1 /\ i < j /\ \A x \in 1 .. L : q[x] \in S /\ key[q[x]] \in Int
    BY <1>1, <1>2, <1>5
  <2>5. \A x, y \in 1 .. L : x < y => key[q[x]] < key[q[y]]
    OBVIOUS
  <2> HIDE DEF L
  <2>6. \A x \in 1 .. L - 1 : at(x) \in 1 .. L
    BY ONLY <2>3
  <2>7. \A x \in 1 .. L - 1 : w[x] = q[at(x)]
    BY ONLY <1>2
  <2>1. \A x \in 1 .. L - 1 : at(x) \in 1 .. L /\ w[x] = q[at(x)]
    BY <2>6, <2>7
  <2>2. i \in 1 .. L - 1 /\ j \in 1 .. L - 1 /\ at(i) < at(j)
    BY ONLY <2>3, <2>4
  <2> HIDE DEF at
  <2> QED BY <2>1, <2>2, <2>5
<1> QED BY <1>2, <1>4, <1>5 DEF w

\* The nodes after node n, a child of parent, was removed.
Removed(m, c, parent, n) ==
  LET q == m.nodes[parent].index
      at == CHOOSE k \in 1 .. Len(q) : q[k] = n
  IN  /\ c.data = m.data /\ c.fds = m.fds /\ c.read = m.read
      /\ \A x \in Nodes \ {n, parent} : c.nodes[x] = m.nodes[x]
      /\ c.nodes[n] = FreeNode
      /\ c.nodes[parent] = [m.nodes[parent] EXCEPT !.index = RemoveAt(q, at)]

LEMMA FreeNodeFacts ==
  FreeNode \in Node /\ ~FreeNode.used
<1>1. <<>> \in Seq(Nodes) /\ 0 \in 0 .. MaxData /\ Root \in Nodes
  BY FilesAssumption, FoundFacts
<1> QED BY <1>1 DEF FreeNode, Node

\* course_fs_rmdir and course_fs_unlink refuse, or free a node without children.
LEMMA RemoveNodeRemoves ==
  ASSUME NEW m, FilesOK(m), NEW path \in Seq(Int), NEW dir \in BOOLEAN
  PROVE  LET c == RemoveNode(m, path, dir)
             n == FindNode(m, path)
             parent == FindNode(m, Front(path))
         IN  \/ c = Refuse(m)
             \/ /\ path # <<>> /\ n \in Nodes \ {Root} /\ Children(m, n) = {}
                /\ parent \in Nodes \ {n} /\ n \in Children(m, parent)
                /\ Removed(m, c, parent, n) /\ c \in Kept
<1> DEFINE c == RemoveNode(m, path, dir)
           n == FindNode(m, path)
           parent == FindNode(m, Front(path))
           above == m.nodes[n].parent
           q == m.nodes[above].index
           at == CHOOSE k \in 1 .. Len(q) : q[k] = n
           w == RemoveAt(q, at)
<1>1. SUFFICES ASSUME c # Refuse(m)
               PROVE  /\ path # <<>> /\ n \in Nodes \ {Root} /\ Children(m, n) = {}
                      /\ parent \in Nodes \ {n} /\ n \in Children(m, parent)
                      /\ Removed(m, c, parent, n) /\ c \in Kept
  OBVIOUS
<1>2. /\ ~(n <= Root) /\ m.nodes[n].dir = dir /\ ~(dir /\ HasChildren(m, n))
      /\ c = [WithoutChild(Done(m), above, n) EXCEPT !.nodes[n] = FreeNode]
  BY <1>1 DEF RemoveNode
<1>3. m \in Kept /\ LookupOK(m) /\ m.nodes \in [Nodes -> Node]
  BY FilesFacts DEF LookupOK
<1>4. n \in Nodes \ {Root} /\ path # <<>>
  <2>1. n \in Found
    BY <1>3, FindNodeStep
  <2> HIDE DEF n
  <2>2. n \in Nodes \ {Root}
    BY <1>2, <2>1 DEF Found, Nodes, Root
  <2> QED BY <1>3, <2>2, RootStep DEF n
<1>5. Children(m, n) = {}
  <2>1. CASE dir
    BY <1>2, <2>1 DEF HasChildren, Children
  <2>2. CASE ~dir
    BY <1>2, <1>3, <1>4, <2>2 DEF LookupOK, Indexed
  <2> QED BY <2>1, <2>2
<1>6. parent \in Nodes \ {n} /\ n \in Children(m, parent) /\ above = parent
  <2>1. parent \in Nodes /\ n \in Children(m, parent)
    <3>1. \A x \in Nodes : n = x => parent \in Nodes /\ x \in Children(m, parent)
      BY <1>3, <1>4, ChildStep
    <3> QED BY <1>4, <3>1
  <2> HIDE DEF n, parent
  <2> QED BY <1>5, <2>1 DEF Children
<1> HIDE DEF n, parent
<1> HIDE DEF above, c
<1>7. q \in Seq(Nodes) /\ ToSet(q) = Children(m, parent)
  BY <1>3, <1>6 DEF LookupOK, Indexed, Node
<1> HIDE DEF q
<1>8. at \in 1 .. Len(q) /\ q[at] = n
  <2>1. ToSet(q) = {q[k] : k \in 1 .. Len(q)}
    BY <1>7, QueueSet
  <2>2. \E k \in 1 .. Len(q) : q[k] = n
    BY <1>6, <1>7, <2>1
  <2> QED BY <2>2
<1>9. w \in Seq(Nodes)
  <2> HIDE DEF at
  <2> QED BY <1>7, <1>8, RemoveAtFacts
<1> DEFINE d == Done(m)
           k == [d EXCEPT !.nodes[above].index = w]
<1>10. d \in Kept /\ d.nodes = m.nodes /\ d.data = m.data /\ d.fds = m.fds /\ d.read = m.read
  BY <1>3, OkReplaced DEF Done
<1> HIDE DEF d
<1>11. c = [k EXCEPT !.nodes[n] = FreeNode]
  <2>1. WithoutChild(d, above, n) = k
    <3>1. d.nodes[above].index = q
      BY <1>10 DEF q
    <3>2. WithoutChild(d, above, n) =
            LET index == d.nodes[above].index
                pos == CHOOSE i \in 1 .. Len(index) : index[i] = n
            IN  [d EXCEPT !.nodes[above].index = RemoveAt(d.nodes[above].index, pos)]
      BY DEF WithoutChild
    <3> QED BY <3>1, <3>2
  <2> QED BY <1>2, <2>1 DEF d
<1> HIDE DEF w, at
<1> DEFINE z == m.nodes[above]
           y == [m.nodes EXCEPT ![above] = [z EXCEPT !.index = w]]
<1>12. y \in [Nodes -> Node] /\ above \in Nodes
  <2>1. z \in Node /\ above \in Nodes
    BY <1>3, <1>6
  <2>2. [z EXCEPT !.index = w] \in Node
    <3> HIDE DEF z
    <3> QED BY ONLY <1>9, <2>1, IndexReplaced
  <2> HIDE DEF z
  <2> QED BY <1>3, <2>1, <2>2
<1>13. k \in Kept /\ k.nodes = y /\ k.data = m.data /\ k.fds = m.fds /\ k.read = m.read
  <2>1. k = [d EXCEPT !.nodes = y]
    BY <1>10
  <2> HIDE DEF k, y
  <2> QED BY <1>10, <1>12, <2>1, NodesReplaced
<1> HIDE DEF k, y
<1>14. /\ c \in Kept /\ c.data = m.data /\ c.fds = m.fds /\ c.read = m.read
       /\ c.nodes = [y EXCEPT ![n] = FreeNode]
  <2> DEFINE x == [y EXCEPT ![n] = FreeNode]
  <2>1. c = [k EXCEPT !.nodes = x]
    BY <1>11, <1>13
  <2>2. x \in [Nodes -> Node]
    BY <1>4, <1>12, FreeNodeFacts
  <2> HIDE DEF x
  <2>3. c \in Kept /\ c.nodes = x /\ c.data = k.data /\ c.fds = k.fds /\ c.read = k.read
    BY <1>13, <2>1, <2>2, NodesReplaced
  <2> QED BY <1>13, <2>3 DEF x
<1>15. /\ \A x \in Nodes \ {n, parent} : c.nodes[x] = m.nodes[x]
       /\ c.nodes[n] = FreeNode /\ c.nodes[parent] = [m.nodes[parent] EXCEPT !.index = w]
  BY <1>3, <1>4, <1>6, <1>12, <1>14 DEF y
<1>16. Removed(m, c, parent, n)
  BY <1>6, <1>14, <1>15 DEF Removed, w, at, q
<1> QED BY <1>4, <1>5, <1>6, <1>14, <1>16

\* The node that is freed leaves the invariant and the other nodes as they are.
LEMMA RemovedOK ==
  ASSUME NEW m, FilesOK(m), NEW c \in Kept, NEW parent \in Nodes, NEW n \in Nodes \ {Root},
         n # parent, n \in Children(m, parent), Children(m, n) = {}, Removed(m, c, parent, n)
  PROVE  /\ FilesOK(c) /\ Grown(c, m, n)
         /\ \A x \in Nodes \ {n} : Shown(m, x) = Shown(c, x)
<1> DEFINE z == m.nodes[parent]
           q == z.index
           at == CHOOSE k \in 1 .. Len(q) : q[k] = n
           w == RemoveAt(q, at)
<1>1. /\ m \in Kept /\ TreeOK(m) /\ m.nodes \in [Nodes -> Node] /\ z \in Node
      /\ c.nodes \in [Nodes -> Node]
  BY FilesFacts DEF Kept
<1>2. /\ c.nodes[n] = FreeNode /\ ~c.nodes[n].used /\ m.nodes[n].used
      /\ \A x \in Nodes \ {n, parent} : c.nodes[x] = m.nodes[x]
  BY FreeNodeFacts DEF Removed, Children
<1>3. q \in Seq(Nodes) /\ ToSet(q) = Children(m, parent) /\ NamesRise(m, q) /\ z.dir
  BY <1>1 DEF Node, TreeOK, Indexed
<1>4. at \in 1 .. Len(q) /\ q[at] = n
  <2> HIDE DEF q
  <2>1. ToSet(q) = {q[k] : k \in 1 .. Len(q)}
    BY <1>3, QueueSet
  <2>2. \E k \in 1 .. Len(q) : q[k] = n
    BY <1>3, <2>1
  <2> QED BY <2>2
<1>5. \A i \in 1 .. Len(q) : q[i] \in Nodes
  <2> HIDE DEF q
  <2> QED BY <1>3
<1> DEFINE key == [x \in Nodes |-> m.nodes[x].name]
<1>6. key \in [Nodes -> Int]
  <2>1. \A x \in Nodes : m.nodes[x].name \in Int
    BY <1>1 DEF Node
  <2> QED BY <2>1
<1>7. /\ w \in Seq(Nodes) /\ ToSet(w) = Children(m, parent) \ {n}
      /\ \A i, j \in 1 .. Len(w) : i < j => key[w[i]] < key[w[j]]
  <2>1. \A i, j \in 1 .. Len(q) : i < j => key[q[i]] < key[q[j]]
    <3>1. \A i \in 1 .. Len(q) : key[q[i]] = m.nodes[q[i]].name
      <4> HIDE DEF q
      <4> QED BY <1>5
    <3> HIDE DEF q, key
    <3> QED BY <1>3, <3>1 DEF NamesRise
  <2> HIDE DEF q, at, key
  <2>2. /\ RemoveAt(q, at) \in Seq(Nodes) /\ ToSet(RemoveAt(q, at)) = ToSet(q) \ {q[at]}
        /\ \A i, j \in 1 .. Len(RemoveAt(q, at)) :
              i < j => key[RemoveAt(q, at)[i]] < key[RemoveAt(q, at)[j]]
    BY ONLY <1>3, <1>4, <1>6, <2>1, RemoveRises
  <2> QED BY <1>3, <1>4, <2>2
<1>8. /\ c.nodes[parent].index = w /\ c.nodes[parent].used = z.used
      /\ c.nodes[parent].dir = z.dir /\ c.nodes[parent].parent = z.parent
      /\ c.nodes[parent].name = z.name /\ c.nodes[parent].size = z.size
  <2>1. c.nodes[parent] = [z EXCEPT !.index = w]
    BY DEF Removed
  <2> HIDE DEF w, z
  <2>2. LET y == [z EXCEPT !.index = w]
        IN  /\ y.index = w /\ y.used = z.used /\ y.dir = z.dir /\ y.parent = z.parent
            /\ y.name = z.name /\ y.size = z.size
    BY ONLY <1>1, <1>7, IndexReplaced
  <2> QED BY ONLY <2>1, <2>2
<1> HIDE DEF w, at, q
<1>9. \A x \in Nodes \ {n} : SameAt(c, m, x) /\ c.nodes[x].dir = m.nodes[x].dir
                           /\ c.nodes[x].size = m.nodes[x].size
  BY <1>2, <1>8 DEF SameAt
<1> HIDE DEF z
<1>10. /\ Children(c, parent) = Children(m, parent) \ {n}
       /\ \A x \in Nodes \ {parent} : Children(c, x) = Children(m, x)
  <2>1. m.nodes[n].parent = parent
    BY DEF Children
  <2> QED BY <1>2, <1>9, <2>1 DEF Children, SameAt
<1>11. ASSUME NEW x \in Nodes PROVE Indexed(c, x)
  <2>1. CASE x = n
    <3>1. <<>> \in Seq(Nodes) /\ Len(<<>>) = 0
      OBVIOUS
    <3>2. ToSet(<<>>) = {}
      BY <3>1, QueueSet
    <3>3. NamesRise(c, <<>>)
      BY <3>1 DEF NamesRise
    <3>4. c.nodes[n].index = <<>> /\ Children(c, n) = {}
      BY <1>2, <1>10 DEF FreeNode
    <3> QED BY <2>1, <3>2, <3>3, <3>4 DEF Indexed
  <2>2. CASE x = parent
    <3>1. ToSet(w) = {w[i] : i \in 1 .. Len(w)}
      BY <1>7, QueueSet
    <3>2. \A i \in 1 .. Len(w) : w[i] \in Nodes \ {n} /\ key[w[i]] = c.nodes[w[i]].name
      <4>1. \A i \in 1 .. Len(w) : w[i] \in Nodes \ {n}
        BY <1>7, <3>1 DEF Children
      <4>2. \A y \in Nodes \ {n} : key[y] = c.nodes[y].name
        BY <1>9 DEF SameAt
      <4> HIDE DEF key
      <4> QED BY <4>1, <4>2
    <3>3. NamesRise(c, w)
      <4> HIDE DEF key
      <4> QED BY <1>7, <3>2 DEF NamesRise
    <3>4. c.nodes[parent].dir
      BY <1>3, <1>8
    <3> QED BY <1>7, <1>8, <1>10, <2>2, <3>3, <3>4 DEF Indexed
  <2>3. CASE x # n /\ x # parent
    <3>1. c.nodes[x] = m.nodes[x] /\ Children(c, x) = Children(m, x) /\ Indexed(m, x)
      BY <1>1, <1>2, <1>10, <2>3 DEF TreeOK
    <3>2. m.nodes[x].index \in Seq(Nodes)
      BY <1>1 DEF Node
    <3>3. \A i \in 1 .. Len(m.nodes[x].index) :
            c.nodes[m.nodes[x].index[i]].name = m.nodes[m.nodes[x].index[i]].name
      <4> DEFINE r == m.nodes[x].index
      <4>1. ToSet(r) = {r[i] : i \in 1 .. Len(r)} /\ ToSet(r) = Children(m, x)
        <5>1. ToSet(r) = Children(m, x)
          BY <3>1 DEF Indexed
        <5>2. r \in Seq(Nodes)
          BY <3>2
        <5> HIDE DEF r
        <5>3. ToSet(r) = {r[i] : i \in 1 .. Len(r)}
          BY ONLY <5>2, QueueSet
        <5> QED BY ONLY <5>1, <5>3
      <4> HIDE DEF r
      <4>2. n \notin Children(m, x)
        BY <2>3 DEF Children
      <4>3. \A i \in 1 .. Len(r) : r[i] \in Nodes \ {n}
        BY <4>1, <4>2 DEF Children
      <4>4. \A y \in Nodes \ {n} : c.nodes[y].name = m.nodes[y].name
        BY <1>9 DEF SameAt
      <4> QED BY <4>3, <4>4 DEF r
    <3> QED BY <3>1, <3>3 DEF Indexed, NamesRise
  <2> QED BY <2>1, <2>2, <2>3
<1>12. TreeOK(c)
  <2>1. Root \in Nodes /\ c.nodes[Root].used /\ c.nodes[Root].dir
    <3>1. Root \in Nodes /\ m.nodes[Root].used /\ m.nodes[Root].dir
      BY <1>1, FoundFacts DEF TreeOK
    <3> QED BY <1>9, <3>1 DEF SameAt
  <2>2. ASSUME NEW x \in Nodes, ~c.nodes[x].used PROVE c.nodes[x] = FreeNode
    <3>1. CASE x = n
      BY <1>2, <3>1
    <3>2. CASE x = parent
      <4>1. ~z.used /\ z = FreeNode
        BY <1>1, <1>8, <2>2, <3>2 DEF TreeOK, z
      <4>2. ToSet(<<>>) = {} /\ q = <<>>
        <5>1. <<>> \in Seq(Nodes)
          OBVIOUS
        <5> QED BY <4>1, <5>1, QueueSet DEF FreeNode, q
      <4> QED BY <1>3, <4>2
    <3>3. CASE x # n /\ x # parent
      BY <1>1, <1>2, <2>2, <3>3 DEF TreeOK
    <3> QED BY <3>1, <3>2, <3>3
  <2> QED BY <1>11, <2>1, <2>2 DEF TreeOK
<1>13. \A x \in Nodes \ {n} : Shown(m, x) = Shown(c, x)
  BY <1>9 DEF Shown, Removed
<1>14. Grown(c, m, n)
  BY <1>2, <1>9, <1>10 DEF Grown
<1> QED BY <1>12, <1>13, <1>14 DEF FilesOK

\* One path less is a Delete of the tree.
LEMMA DeleteCall ==
  ASSUME NEW m, FilesOK(m), NEW c, FilesOK(c), NEW n, Grown(c, m, n), c.read = <<>>,
         \A x \in Nodes \ {n} : Shown(m, x) = Shown(c, x),
         NEW path \in FilePaths, path # <<>>, FindNode(m, path) = n
  PROVE  CallOK(m, c)
<1> DEFINE t == TreeOf(m)
           u == TreeOf(c)
<1>1. /\ path \in DOMAIN t /\ DOMAIN u = DOMAIN t \ {path}
      /\ \A q \in DOMAIN u : u[q] = t[q]
  <2> HIDE DEF t, u
  <2>1. /\ path \in DOMAIN TreeOf(m) /\ DOMAIN TreeOf(c) = DOMAIN TreeOf(m) \ {path}
        /\ \A q \in DOMAIN TreeOf(c) : TreeOf(c)[q] = TreeOf(m)[q]
    <3>1. /\ FilesOK(m) /\ FilesOK(c) /\ Grown(c, m, n) /\ FindNode(m, path) = n /\ path \in FilePaths
          /\ \A x \in Nodes \ {n} : Shown(m, x) = Shown(c, x)
      OBVIOUS
    <3> QED BY ONLY <3>1, GrownTree
  <2> QED BY <2>1 DEF t, u
<1>2. u = [q \in Listed(c) |-> u[q]] /\ DOMAIN t = Listed(m)
  BY TreeIs
<1> HIDE DEF t, u
<1>3. u = Tree!Restrict(t, DOMAIN t \ {path})
  <2>1. u = [q \in DOMAIN u |-> u[q]]
    BY <1>2
  <2>2. u = [q \in DOMAIN u |-> t[q]]
    BY ONLY <1>1, <2>1
  <2>3. u = [q \in DOMAIN t \ {path} |-> t[q]]
    BY ONLY <1>1, <2>2
  <2>4. Tree!Restrict(t, DOMAIN t \ {path}) = [q \in DOMAIN t \ {path} |-> t[q]]
    BY DEF Tree!Restrict
  <2> QED BY ONLY <2>3, <2>4
<1>4. ASSUME NEW q \in DOMAIN t \ {<<>>} PROVE Tree!Parent(q) # path
  <2>1. q \in FilePaths /\ q \in Seq(Int) /\ FindNode(m, q) \in Nodes
    BY <1>2, FilesAssumption DEF Listed
  <2>2. FindNode(m, q) \in Children(m, FindNode(m, Front(q)))
    BY <2>1, FilesFacts, ChildStep
  <2>3. Front(q) # path
    BY <2>2 DEF Grown
  <2>4. Tree!Parent(q) = Front(q)
    BY DEF Tree!Parent, Tree!Front, Front
  <2> QED BY <2>3, <2>4
<1>5. Tree!Delete(t, u, path)
  BY <1>3, <1>4 DEF Tree!Delete, Tree!Childless
<1>6. t # u /\ path \in DOMAIN t \ DOMAIN u
  BY <1>1
<1>7. Tree!TreeStep(t, u, c.read)
  BY <1>5, <1>6 DEF Tree!TreeStep, Tree!Change
<1> QED BY <1>7 DEF CallOK, t, u

\* A call of course_fs_rmdir or course_fs_unlink is a step of the tree.
LEMMA RemoveCall ==
  ASSUME NEW m, FilesOK(m), m.read = <<>>, NEW path \in FilePaths, NEW dir \in BOOLEAN
  PROVE  CallOK(m, RemoveNode(m, path, dir))
<1> DEFINE c == RemoveNode(m, path, dir)
           n == FindNode(m, path)
           parent == FindNode(m, Front(path))
<1>1. path \in Seq(Int)
  BY FilesAssumption
<1>2. CASE c = Refuse(m)
  BY <1>2, RefusedCall
<1>3. CASE c # Refuse(m)
  <2>1. /\ path # <<>> /\ n \in Nodes \ {Root} /\ Children(m, n) = {}
        /\ parent \in Nodes \ {n} /\ n \in Children(m, parent)
        /\ Removed(m, c, parent, n) /\ c \in Kept
    BY <1>1, <1>3, RemoveNodeRemoves
  <2>2. n = FindNode(m, path)
    OBVIOUS
  <2> HIDE DEF c, n, parent
  <2>3. FilesOK(c) /\ Grown(c, m, n) /\ \A x \in Nodes \ {n} : Shown(m, x) = Shown(c, x)
    BY <2>1, RemovedOK
  <2>4. c.read = <<>>
    BY <2>1 DEF Removed
  <2>5. CallOK(m, c)
    BY <2>1, <2>2, <2>3, <2>4, DeleteCall
  <2> QED BY <2>5 DEF c
<1> QED BY <1>2, <1>3

-----------------------------------------------------------------------------
(* Writing to a file *)

LEMMA FirstBytes ==
  ASSUME NEW f \in [1 .. MaxData -> Int], NEW size \in 0 .. MaxData
  PROVE  /\ SubSeq(f, 1, size) = [i \in 1 .. size |-> f[i]]
         /\ SubSeq(f, 1, size) \in Seq(Int) /\ Len(SubSeq(f, 1, size)) = size
<1> DEFINE w == SubSeq(f, 1, size)
<1>1. MaxData \in Nat /\ size \in Nat /\ size <= MaxData
  BY FilesAssumption
<1>2. f \in Seq(Int) /\ Len(f) = MaxData
  BY <1>1
<1>3. 1 \in Int /\ size \in Int /\ \A i \in 1 .. size : f[i] \in Int
  BY <1>1
<1>4. /\ w \in Seq(Int) /\ Len(w) = IF 1 <= size THEN size - 1 + 1 ELSE 0
      /\ \A i \in 1 .. size - 1 + 1 : w[i] = f[1 + i - 1]
  BY <1>3, SubSeqProperties
<1> HIDE DEF w
<1>5. Len(w) = size
  BY <1>1, <1>4
<1>6. \A i \in 1 .. size : w[i] = f[i]
  <2>1. size - 1 + 1 = size /\ \A i \in 1 .. size : 1 + i - 1 = i
    BY <1>1
  <2> QED BY <1>4, <2>1
<1>7. w = [i \in 1 .. size |-> w[i]]
  BY <1>4, <1>5
<1>8. w = [i \in 1 .. size |-> f[i]]
  BY ONLY <1>6, <1>7
<1> QED BY <1>4, <1>5, <1>8 DEF w

\* What a write leaves in the data area.
Laid(f, size, offset, bytes) ==
  [i \in 1 .. MaxData |-> IF i \in offset + 1 .. offset + Len(bytes) THEN bytes[i - offset]
                          ELSE IF i \in size + 1 .. offset THEN 0 ELSE f[i]]

NewSize(size, end) == IF end > size THEN end ELSE size

\* What course_fs_write leaves in a data area is what the tree says of the file: a hole is zero
\* whatever an earlier file left there.
LEMMA LaidIsOverwritten ==
  ASSUME NEW f \in [1 .. MaxData -> Int], NEW size \in 0 .. MaxData, NEW offset \in Nat,
         NEW byte \in Bytes, offset + 1 <= MaxData
  PROVE  /\ Laid(f, size, offset, <<byte>>) \in [1 .. MaxData -> Int]
         /\ NewSize(size, offset + 1) \in 0 .. MaxData
         /\ SubSeq(Laid(f, size, offset, <<byte>>), 1, NewSize(size, offset + 1))
              = Tree!Overwritten(SubSeq(f, 1, size), offset, <<byte>>)
<1> DEFINE g == Laid(f, size, offset, <<byte>>)
           u == SubSeq(f, 1, size)
           s == NewSize(size, offset + 1)
<1>1. MaxData \in Nat /\ byte \in Int /\ size \in Nat /\ size <= MaxData
  BY FilesAssumption
<1>2. Len(<<byte>>) = 1 /\ <<byte>>[1] = byte
  OBVIOUS
<1>3. ASSUME NEW i \in 1 .. MaxData
      PROVE  /\ g[i] = IF i = offset + 1 THEN byte ELSE IF i \in size + 1 .. offset THEN 0 ELSE f[i]
             /\ g[i] \in Int
  <2>1. g[i] = IF i \in offset + 1 .. offset + 1 THEN <<byte>>[i - offset]
               ELSE IF i \in size + 1 .. offset THEN 0 ELSE f[i]
    BY <1>2 DEF Laid
  <2>2. i \in offset + 1 .. offset + 1 <=> i = offset + 1
    OBVIOUS
  <2>3. i = offset + 1 => i - offset = 1
    OBVIOUS
  <2>4. g[i] = IF i = offset + 1 THEN byte ELSE IF i \in size + 1 .. offset THEN 0 ELSE f[i]
    BY ONLY <1>2, <2>1, <2>2, <2>3
  <2>5. f[i] \in Int
    OBVIOUS
  <2> HIDE DEF g
  <2> QED BY <1>1, <2>4, <2>5
<1>4. g \in [1 .. MaxData -> Int]
  <2>1. g = [i \in 1 .. MaxData |-> g[i]]
    BY DEF Laid
  <2> HIDE DEF g
  <2> QED BY <1>3, <2>1
<1>5. s \in 0 .. MaxData /\ s = IF offset + 1 > size THEN offset + 1 ELSE size
  BY <1>1 DEF NewSize
<1> HIDE DEF g, s, u
<1>6. SubSeq(g, 1, s) = [i \in 1 .. s |-> g[i]]
  BY <1>4, <1>5, FirstBytes
<1>7. u = [i \in 1 .. size |-> f[i]] /\ Len(u) = size
  BY FirstBytes DEF u
<1>8. Tree!Overwritten(u, offset, <<byte>>) =
        [i \in 1 .. s |-> IF i \in offset + 1 .. offset + 1 THEN <<byte>>[i - offset]
                          ELSE IF i <= size THEN u[i] ELSE 0]
  BY ONLY <1>2, <1>5, <1>7 DEF Tree!Overwritten
<1>9. ASSUME NEW i \in 1 .. s
      PROVE  g[i] = IF i \in offset + 1 .. offset + 1 THEN <<byte>>[i - offset]
                    ELSE IF i <= size THEN u[i] ELSE 0
  <2>1. i \in 1 .. MaxData /\ i \in Nat
    BY <1>1, <1>5
  <2>2. i \in offset + 1 .. offset + 1 <=> i = offset + 1
    BY <2>1
  <2>3. CASE i = offset + 1
    <3>1. i - offset = 1
      BY <2>3
    <3> QED BY <1>2, <1>3, <2>1, <2>2, <2>3, <3>1
  <2>4. CASE i # offset + 1 /\ i <= size
    <3>1. i \in 1 .. size /\ i \notin size + 1 .. offset
      BY <1>1, <2>1, <2>4
    <3>2. u[i] = f[i]
      BY <1>7, <3>1
    <3> QED BY <1>3, <2>1, <2>2, <2>4, <3>1, <3>2
  <2>5. CASE i # offset + 1 /\ ~(i <= size)
    <3>1. i \in size + 1 .. offset
      BY <1>1, <1>5, <2>1, <2>5
    <3> QED BY <1>3, <2>1, <2>2, <2>5, <3>1
  <2> QED BY <2>3, <2>4, <2>5
<1>10. SubSeq(g, 1, s) = Tree!Overwritten(u, offset, <<byte>>)
  BY ONLY <1>6, <1>8, <1>9
<1> QED BY <1>4, <1>5, <1>10 DEF g, s, u

LEMMA SizeReplaced ==
  ASSUME NEW x \in Node, NEW s \in 0 .. MaxData
  PROVE  LET y == [x EXCEPT !.size = s]
         IN  /\ y \in Node /\ y.size = s /\ y.index = x.index /\ y.used = x.used
             /\ y.dir = x.dir /\ y.parent = x.parent /\ y.name = x.name
BY DEF Node

\* Node n holds g, of which s bytes count.
Filled(m, c, n, g, s) ==
  /\ c.nodes = [m.nodes EXCEPT ![n] = [m.nodes[n] EXCEPT !.size = s]]
  /\ c.data = [m.data EXCEPT ![n] = g] /\ c.read = m.read

\* A write keeps the invariant and the other files.
LEMMA FilledOK ==
  ASSUME NEW m, FilesOK(m), NEW c \in Kept, NEW n \in Nodes, m.nodes[n].used, ~m.nodes[n].dir,
         NEW g \in [1 .. MaxData -> Int], NEW s \in 0 .. MaxData, Filled(m, c, n, g, s)
  PROVE  /\ FilesOK(c) /\ \A x \in Nodes : SameAt(m, c, x)
         /\ \A x \in Nodes \ {n} : Shown(c, x) = Shown(m, x)
         /\ Shown(c, n) = [dir |-> FALSE, bytes |-> SubSeq(g, 1, s)]
<1>1. m \in Kept /\ TreeOK(m) /\ m.nodes \in [Nodes -> Node] /\ m.data \in [Nodes -> [1 .. MaxData -> Int]]
  BY FilesFacts DEF Kept
<1>2. /\ \A x \in Nodes \ {n} : c.nodes[x] = m.nodes[x] /\ c.data[x] = m.data[x]
      /\ c.nodes[n] = [m.nodes[n] EXCEPT !.size = s] /\ c.data[n] = g
  BY <1>1 DEF Filled
<1>3. /\ c.nodes[n].size = s /\ c.nodes[n].index = m.nodes[n].index
      /\ c.nodes[n].used = m.nodes[n].used /\ c.nodes[n].dir = m.nodes[n].dir
      /\ c.nodes[n].parent = m.nodes[n].parent /\ c.nodes[n].name = m.nodes[n].name
  <2> DEFINE z == m.nodes[n]
  <2>1. z \in Node /\ c.nodes[n] = [z EXCEPT !.size = s]
    BY <1>1, <1>2
  <2> HIDE DEF z
  <2>2. LET y == [z EXCEPT !.size = s]
        IN  /\ y.size = s /\ y.index = z.index /\ y.used = z.used
            /\ y.dir = z.dir /\ y.parent = z.parent /\ y.name = z.name
    BY <2>1, SizeReplaced
  <2> QED BY ONLY <2>1, <2>2 DEF z
<1>4. \A x \in Nodes : /\ SameAt(m, c, x) /\ c.nodes[x].index = m.nodes[x].index
                       /\ c.nodes[x].dir = m.nodes[x].dir
  BY <1>2, <1>3 DEF SameAt
<1>5. ASSUME NEW x \in Nodes PROVE Indexed(c, x)
  <2> DEFINE r == m.nodes[x].index
  <2>1. Children(c, x) = Children(m, x) /\ c.nodes[x].index = r /\ c.nodes[x].dir = m.nodes[x].dir
    BY <1>4 DEF Children, SameAt
  <2>2. ToSet(r) = Children(m, x) /\ NamesRise(m, r) /\ r \in Seq(Nodes)
        /\ (Children(m, x) # {} => m.nodes[x].dir)
    BY <1>1 DEF TreeOK, Indexed, Node
  <2> HIDE DEF r
  <2>3. \A i \in 1 .. Len(r) : c.nodes[r[i]].name = m.nodes[r[i]].name
    BY <1>4, <2>2 DEF SameAt
  <2>4. NamesRise(c, r)
    BY <2>2, <2>3 DEF NamesRise
  <2> QED BY <2>1, <2>2, <2>4 DEF Indexed
<1>6. TreeOK(c)
  <2>1. c.nodes[Root].used /\ c.nodes[Root].dir
    BY <1>1, <1>4, FoundFacts DEF TreeOK, SameAt
  <2>2. \A x \in Nodes : ~c.nodes[x].used => c.nodes[x] = FreeNode
    BY <1>1, <1>2, <1>3 DEF TreeOK
  <2> QED BY <1>5, <2>1, <2>2 DEF TreeOK
<1>7. FilesOK(c)
  BY <1>6 DEF FilesOK
<1>8. /\ \A x \in Nodes \ {n} : Shown(c, x) = Shown(m, x)
      /\ Shown(c, n) = [dir |-> FALSE, bytes |-> SubSeq(g, 1, s)]
  <2>1. c.nodes[n].dir = FALSE
    BY <1>1, <1>3 DEF Node
  <2> QED BY <1>2, <1>3, <2>1 DEF Shown
<1> QED BY <1>4, <1>7, <1>8

LEMMA BytesReplaced ==
  ASSUME NEW x \in [dir : BOOLEAN, bytes : Seq(Int)], NEW b \in Seq(Int)
  PROVE  [x EXCEPT !.bytes = b] = [dir |-> x.dir, bytes |-> b]
<1> DEFINE y == [x EXCEPT !.bytes = b]
<1>1. y \in [dir : BOOLEAN, bytes : Seq(Int)] /\ y.dir = x.dir /\ y.bytes = b
  OBVIOUS
<1> HIDE DEF y
<1>2. y = [dir |-> y.dir, bytes |-> y.bytes]
  BY <1>1
<1> QED BY <1>1, <1>2 DEF y

\* A write is a Put of the tree, or changes nothing.
LEMMA PutCall ==
  ASSUME NEW m, FilesOK(m), NEW c \in Kept, NEW n \in Nodes, ~m.nodes[n].dir, m.read = <<>>,
         NEW g \in [1 .. MaxData -> Int], NEW s \in 0 .. MaxData, Filled(m, c, n, g, s),
         NEW path \in FilePaths, FindNode(m, path) = n, NEW offset \in Nat, NEW byte \in Bytes,
         offset + 1 <= MaxData,
         SubSeq(g, 1, s)
           = Tree!Overwritten(SubSeq(m.data[n], 1, m.nodes[n].size), offset, <<byte>>)
  PROVE  CallOK(m, c)
<1> DEFINE t == TreeOf(m)
           u == TreeOf(c)
           bytes == SubSeq(g, 1, s)
           held == SubSeq(m.data[n], 1, m.nodes[n].size)
<1>1. path \in Seq(Int) /\ m.nodes[n].used
  BY FoundUsed, FilesAssumption
<1>2. /\ FilesOK(c) /\ \A x \in Nodes : SameAt(m, c, x)
      /\ \A x \in Nodes \ {n} : Shown(c, x) = Shown(m, x)
      /\ Shown(c, n) = [dir |-> FALSE, bytes |-> bytes]
  <2>1. /\ FilesOK(m) /\ c \in Kept /\ n \in Nodes /\ m.nodes[n].used /\ ~m.nodes[n].dir
        /\ g \in [1 .. MaxData -> Int] /\ s \in 0 .. MaxData /\ Filled(m, c, n, g, s)
    BY <1>1
  <2> QED BY ONLY <2>1, FilledOK
<1>3. \A q \in FilePaths : FindNode(c, q) = FindNode(m, q)
  <2>1. \A q \in Seq(Int) : FindNode(c, q) = FindNode(m, q)
    BY <1>2, FilesFacts, SameLookup
  <2> QED BY <2>1, FilesAssumption
<1>4. Listed(c) = Listed(m) /\ path \in Listed(m)
  BY <1>3 DEF Listed
<1>5. \A q \in Listed(m) : FindNode(m, q) = n => q = path
  <2>1. \A q \in Listed(m) : q \in Seq(Int)
    BY FilesAssumption DEF Listed
  <2> QED BY <1>1, <2>1, FilesFacts, OnePath
<1>6. /\ t = [q \in Listed(m) |-> t[q]] /\ u = [q \in Listed(m) |-> u[q]]
      /\ \A q \in Listed(m) : t[q] = Shown(m, FindNode(m, q)) /\ u[q] = Shown(c, FindNode(c, q))
  BY <1>2, <1>4, TreeIs
<1>7. /\ \A q \in Listed(m) \ {path} : u[q] = t[q]
      /\ u[path] = [dir |-> FALSE, bytes |-> bytes]
      /\ t[path] = [dir |-> FALSE, bytes |-> held]
  <2> HIDE DEF t, u
  <2>1. ASSUME NEW q \in Listed(m) \ {path} PROVE u[q] = t[q]
    <3>1. FindNode(m, q) \in Nodes \ {n} /\ FindNode(c, q) = FindNode(m, q)
      BY <1>3, <1>5 DEF Listed
    <3> QED BY <1>2, <1>6, <3>1
  <2>2. u[path] = Shown(c, n) /\ t[path] = Shown(m, n)
    BY <1>3, <1>4, <1>6
  <2>3. m.nodes[n].dir = FALSE
    BY FilesFacts DEF LookupOK, Node
  <2> QED BY <1>2, <2>1, <2>2, <2>3 DEF Shown
<1> HIDE DEF t, u
<1>12. /\ t[path].bytes = held /\ t[path].dir = FALSE /\ t[path] \in [dir : BOOLEAN, bytes : Seq(Int)]
       /\ bytes \in Seq(Int) /\ bytes = Tree!Overwritten(held, offset, <<byte>>)
  <2>1. held \in Seq(Int) /\ bytes \in Seq(Int)
    <3>1. m.data[n] \in [1 .. MaxData -> Int] /\ m.nodes[n].size \in 0 .. MaxData
      BY FilesFacts DEF LookupOK, Kept, Node
    <3> QED BY <3>1, FirstBytes
  <2>2. bytes = Tree!Overwritten(held, offset, <<byte>>)
    OBVIOUS
  <2> HIDE DEF held, bytes
  <2>3. t[path] = [dir |-> FALSE, bytes |-> held]
    BY <1>7
  <2> QED BY ONLY <2>1, <2>2, <2>3
<1> HIDE DEF bytes, held
<1>8. u = [t EXCEPT ![path].bytes = Tree!Overwritten(t[path].bytes, offset, <<byte>>)]
  <2> DEFINE v == [t EXCEPT ![path] = [t[path] EXCEPT !.bytes = bytes]]
  <2>1. bytes = Tree!Overwritten(t[path].bytes, offset, <<byte>>)
    BY <1>12
  <2>2. [t[path] EXCEPT !.bytes = bytes] = [dir |-> FALSE, bytes |-> bytes]
    BY ONLY <1>12, BytesReplaced
  <2>3. DOMAIN t = Listed(m)
    BY <1>6
  <2>4. v = [q \in Listed(m) |-> IF q = path THEN u[path] ELSE t[q]]
    BY <1>7, <2>2, <2>3
  <2>5. u = [q \in Listed(m) |-> IF q = path THEN u[path] ELSE t[q]]
    <3>1. \A q \in Listed(m) : u[q] = IF q = path THEN u[path] ELSE t[q]
      BY <1>7
    <3>2. u = [q \in Listed(m) |-> u[q]]
      BY <1>6
    <3> QED BY ONLY <3>1, <3>2
  <2>6. u = v
    BY ONLY <2>4, <2>5
  <2> QED BY ONLY <2>1, <2>6
<1>9. Tree!Put(t, u, path)
  <2>1. ~t[path].dir
    BY <1>7
  <2>2. offset \in 0 .. MaxData - 1
    BY FilesAssumption
  <2> QED BY <1>8, <2>1, <2>2 DEF Tree!Put
<1>10. CASE t = u
  BY <1>2, <1>10 DEF CallOK, Tree!TreeStep, Tree!Fetch, t, u, Filled
<1>11. CASE t # u
  <2>1. t[path] # u[path]
    <3> SUFFICES ASSUME t[path] = u[path] PROVE FALSE
      OBVIOUS
    <3>1. \A q \in Listed(m) : t[q] = u[q]
      BY <1>7
    <3>2. t = u
      BY ONLY <1>6, <3>1
    <3> QED BY <1>11, <3>2
  <2>2. path \in DOMAIN t \cap DOMAIN u
    BY <1>4, <1>6
  <2>3. Tree!Change(t, u)
    BY <1>9, <2>1, <2>2 DEF Tree!Change
  <2>4. c.read = <<>>
    BY DEF Filled
  <2>5. Tree!TreeStep(t, u, c.read)
    BY <1>11, <2>3, <2>4 DEF Tree!TreeStep
  <2> QED BY <1>2, <2>5 DEF CallOK, t, u
<1> QED BY <1>10, <1>11

LEMMA OffsetReplaced ==
  ASSUME NEW x \in FdState, NEW offset \in Nat
  PROVE  [x EXCEPT !.offset = offset] \in FdState
BY DEF FdState

\* A call of course_fd_write is a step of the tree.
LEMMA WriteFdCall ==
  ASSUME NEW m, FilesOK(m), m.read = <<>>, NEW fd \in Fds, NEW byte \in Bytes
  PROVE  CallOK(m, WriteFd(m, fd, <<byte>>))
<1> DEFINE x == m.fds[fd]
           n == FindNode(m, x.path)
           end == x.offset + 1
           f == m.data[n]
           size == m.nodes[n].size
           g == Laid(f, size, x.offset, <<byte>>)
           s == NewSize(size, end)
           k == [Done(m) EXCEPT !.data[n] = g, !.nodes[n].size = s]
           c == WriteFd(m, fd, <<byte>>)
<1>1. /\ m \in Kept /\ m.nodes \in [Nodes -> Node] /\ m.data \in [Nodes -> [1 .. MaxData -> Int]]
      /\ m.fds \in [Fds -> FdState] /\ x \in FdState /\ x.path \in FilePaths /\ x.offset \in Nat
  <2>1. m \in Kept
    BY FilesFacts
  <2>2. m.fds \in [Fds -> FdState]
    BY <2>1 DEF Kept
  <2>3. x \in FdState
    BY <2>2
  <2> QED BY <2>1, <2>2, <2>3 DEF Kept, FdState
<1>2. n \in Found
  <2>1. x.path \in Seq(Int)
    BY <1>1, FilesAssumption
  <2> QED BY <2>1, FilesFacts, FindNodeStep
<1>3. ~Refuse(m).ok /\ Done(m).ok
  <2>1. Refuse(m).ok = FALSE /\ Done(m).ok = TRUE
    BY <1>1, OkReplaced DEF Refuse, Done
  <2> QED BY <2>1
<1>4. \/ c = Refuse(m)
      \/ /\ ~(n < 0) /\ end <= MaxData /\ ~m.nodes[n].dir
         /\ c = Moved(k, fd, 1)
  <2>1. CASE x.kind # "file" \/ "w" \notin x.flags
    BY <2>1 DEF WriteFd
  <2>2. CASE ~(x.kind # "file" \/ "w" \notin x.flags)
    <3>1. Len(<<byte>>) = 1
      OBVIOUS
    <3>2. c = Moved(WriteAt(m, n, x.offset, <<byte>>), fd, 1)
      BY <2>2, <3>1 DEF WriteFd, WriteNode
    <3>3. Moved(Refuse(m), fd, 1) = Refuse(m)
      BY <1>3 DEF Moved
    <3>4. CASE n < 0 \/ end > MaxData \/ m.nodes[n].dir
      <4>1. WriteAt(m, n, x.offset, <<byte>>) = Refuse(m)
        BY <3>1, <3>4 DEF WriteAt
      <4> QED BY <3>2, <3>3, <4>1
    <3>5. CASE ~(n < 0 \/ end > MaxData \/ m.nodes[n].dir)
      <4>0. Done(m).nodes = m.nodes /\ Done(m).data = m.data
        BY <1>1, OkReplaced DEF Done
      <4>3. WriteAt(m, n, x.offset, <<byte>>) =
              [Done(m) EXCEPT !.data[n] = Laid(Done(m).data[n], size, x.offset, <<byte>>),
                              !.nodes[n].size = NewSize(Done(m).nodes[n].size, end)]
        <5> HIDE DEF x, n
        <5> QED BY <3>1, <3>5 DEF WriteAt, Laid, NewSize
      <4>1. WriteAt(m, n, x.offset, <<byte>>) = k
        BY <4>0, <4>3
      <4>2. end <= MaxData
        BY <1>1, <3>5, FilesAssumption
      <4> QED BY <3>2, <3>5, <4>1, <4>2
    <3> QED BY <3>4, <3>5
  <2> QED BY <2>1, <2>2
<1>5. CASE c = Refuse(m)
  BY <1>5, RefusedCall
<1>6. CASE ~(n < 0) /\ end <= MaxData /\ ~m.nodes[n].dir /\ c = Moved(k, fd, 1)
  <2>1. n \in Nodes
    BY <1>2, <1>6, FoundFacts DEF Found
  <2>2. f \in [1 .. MaxData -> Int] /\ size \in 0 .. MaxData
    BY <1>1, <2>1 DEF Node
  <2>3. /\ g \in [1 .. MaxData -> Int] /\ s \in 0 .. MaxData
        /\ SubSeq(g, 1, s) = Tree!Overwritten(SubSeq(f, 1, size), x.offset, <<byte>>)
    <3>1. x.offset \in Nat /\ x.offset + 1 <= MaxData
      BY <1>1, <1>6
    <3>2. byte \in Bytes
      OBVIOUS
    <3> HIDE DEF x, f, size, n
    <3> QED BY ONLY <2>2, <3>1, <3>2, LaidIsOverwritten
  <2> DEFINE d == Done(m)
             y == [m.nodes EXCEPT ![n] = [m.nodes[n] EXCEPT !.size = s]]
             a == [m.data EXCEPT ![n] = g]
             e == [d EXCEPT !.data = a]
  <2>4. d \in Kept /\ d.nodes = m.nodes /\ d.data = m.data /\ d.fds = m.fds /\ d.read = m.read /\ d.ok = TRUE
    BY <1>1, OkReplaced DEF Done
  <2>5. k = [d EXCEPT !.data = [d.data EXCEPT ![n] = g],
                      !.nodes = [d.nodes EXCEPT ![n] = [d.nodes[n] EXCEPT !.size = s]]]
    OBVIOUS
  <2> HIDE DEF d, k, g, s, c, n, x
  <2>6. y \in [Nodes -> Node] /\ a \in [Nodes -> [1 .. MaxData -> Int]]
    <3>1. m.nodes[n] \in Node
      BY <1>1, <2>1
    <3>2. [m.nodes[n] EXCEPT !.size = s] \in Node
      BY ONLY <2>3, <3>1, SizeReplaced
    <3> QED BY <1>1, <2>1, <2>3, <3>2
  <2>7. k = [e EXCEPT !.nodes = y]
    <3>1. k = [d EXCEPT !.data = a, !.nodes = y]
      BY <2>4, <2>5
    <3> QED BY <3>1
  <2> HIDE DEF y, a
  <2>8. /\ e \in Kept /\ e.data = a /\ e.nodes = m.nodes /\ e.fds = m.fds /\ e.read = m.read /\ e.ok = TRUE
    BY <2>4, <2>6, DataReplaced
  <2> HIDE DEF e
  <2>9. /\ k \in Kept /\ k.data = a /\ k.nodes = y /\ k.fds = m.fds /\ k.read = m.read /\ k.ok = TRUE
    BY <2>6, <2>7, <2>8, NodesReplaced
  <2>10. c = [k EXCEPT !.fds[fd].offset = @ + 1]
    BY <1>6, <2>9 DEF Moved
  <2> DEFINE z == [m.fds EXCEPT ![fd] = [x EXCEPT !.offset = x.offset + 1]]
  <2>11. z \in [Fds -> FdState]
    <3>1. [x EXCEPT !.offset = x.offset + 1] \in FdState
      <4>1. x \in FdState /\ x.offset + 1 \in Nat
        BY <1>1
      <4> QED BY ONLY <4>1, OffsetReplaced
    <3> QED BY <1>1, <3>1
  <2>12. c = [k EXCEPT !.fds = z]
    BY <2>9, <2>10 DEF x
  <2> HIDE DEF z
  <2>13. c \in Kept /\ c.nodes = y /\ c.data = a /\ c.read = m.read
    BY <2>9, <2>11, <2>12, FdsReplaced
  <2>14. Filled(m, c, n, g, s)
    BY <2>13 DEF Filled, y, a
  <2>15. /\ x.path \in FilePaths /\ FindNode(m, x.path) = n /\ x.offset \in Nat /\ x.offset + 1 <= MaxData
    BY <1>1, <1>6 DEF n
  <2>16. CallOK(m, c)
    <3>1. /\ FilesOK(m) /\ m.read = <<>> /\ ~m.nodes[n].dir /\ byte \in Bytes
      BY <1>6
    <3> QED BY ONLY <2>1, <2>3, <2>13, <2>14, <2>15, <3>1, PutCall
  <2> QED BY <2>16 DEF c
<1> QED BY <1>4, <1>5, <1>6

-----------------------------------------------------------------------------
(* The other calls of the descriptors *)

\* What follows a call on the descriptors alone.
LEMMA CallThen ==
  ASSUME NEW m, FilesOK(m), NEW x, CallOK(m, x), NEW c \in Kept,
         c.nodes = x.nodes, c.data = x.data, c.read = x.read
  PROVE  CallOK(m, c)
<1>1. FilesOK(x) /\ Tree!TreeStep(TreeOf(m), TreeOf(x), x.read)
  BY DEF CallOK
<1>2. FilesOK(c) /\ TreeOf(c) = TreeOf(x)
  BY <1>1, NodesKept
<1> QED BY <1>1, <1>2 DEF CallOK

LEMMA DoneCall ==
  ASSUME NEW m, FilesOK(m), m.read = <<>>
  PROVE  /\ CallOK(m, Done(m)) /\ Done(m) \in Kept /\ Done(m).nodes = m.nodes
         /\ Done(m).data = m.data /\ Done(m).fds = m.fds /\ Done(m).read = m.read
<1>1. /\ Done(m) \in Kept /\ Done(m).nodes = m.nodes
      /\ Done(m).data = m.data /\ Done(m).fds = m.fds /\ Done(m).read = m.read
  BY FilesFacts, OkReplaced DEF Done
<1> QED BY <1>1, QuietCall

LEMMA OpenedCall ==
  ASSUME NEW m, FilesOK(m), NEW x, CallOK(m, x), NEW fd \in Fds, NEW path \in FilePaths,
         NEW flags \in SUBSET {"r", "w", "c"}
  PROVE  CallOK(m, Opened(x, fd, "file", flags, path))
<1> DEFINE entry == [kind |-> "file", flags |-> flags, offset |-> 0, path |-> path]
           y == [x EXCEPT !.fd = fd]
           z == [x.fds EXCEPT ![fd] = entry]
           c == [x EXCEPT !.fd = fd, !.fds[fd] = entry]
<1>1. CASE ~x.ok
  BY <1>1 DEF Opened
<1>2. CASE x.ok
  <2>1. x \in Kept
    BY DEF CallOK, FilesOK
  <2>2. y \in Kept /\ y.nodes = x.nodes /\ y.data = x.data /\ y.fds = x.fds /\ y.read = x.read
    <3>1. fd \in Int
      BY DEF Fds
    <3> QED BY <2>1, <3>1, FdReplaced
  <2>3. entry \in FdState
    BY DEF FdState
  <2>4. x.fds \in [Fds -> FdState]
    BY <2>1 DEF Kept
  <2>5. z \in [Fds -> FdState]
    BY <2>3, <2>4
  <2>6. c = [y EXCEPT !.fds = z]
    OBVIOUS
  <2>7. Opened(x, fd, "file", flags, path) = c
    BY <1>2 DEF Opened
  <2> HIDE DEF c, y, z
  <2>8. c \in Kept /\ c.nodes = y.nodes /\ c.data = y.data /\ c.read = y.read
    BY <2>2, <2>5, <2>6, FdsReplaced
  <2>9. CallOK(m, c)
    BY <2>2, <2>8, CallThen
  <2> QED BY <2>7, <2>9
<1> QED BY <1>1, <1>2

\* A call of course_fd_open, which may create the file, is a step of the tree.
LEMMA OpenCall ==
  ASSUME NEW m, FilesOK(m), m.read = <<>>, NEW path \in FilePaths,
         NEW flags \in SUBSET {"r", "w", "c"}
  PROVE  CallOK(m, Open(m, path, flags, FALSE))
<1> DEFINE free == {fd \in Fds : m.fds[fd].kind = "unused"}
           fd == CHOOSE x \in free : \A y \in free : x <= y
           x == IF FindNode(m, path) >= 0 THEN Done(m)
                ELSE IF "c" \in flags THEN Create(m, path, FALSE) ELSE Refuse(m)
<1>1. CASE free = {}
  BY <1>1, RefusedCall DEF Open
<1>2. CASE free # {}
  <2>1. free \in SUBSET Nat
    BY DEF Fds
  <2>2. fd \in Fds
    <3>1. \E a \in free : \A b \in free : a <= b
      <4> HIDE DEF free
      <4> QED BY <1>2, <2>1, LeastOf
    <3> QED BY <3>1
  <2>3. CallOK(m, x)
    BY DoneCall, CreateCall, RefusedCall
  <2>4. Open(m, path, flags, FALSE) = Opened(x, fd, "file", flags, path)
    BY <1>2 DEF Open
  <2> HIDE DEF x, fd
  <2> QED BY <2>2, <2>3, <2>4, OpenedCall
<1> QED BY <1>1, <1>2

\* A call that changes one descriptor.
LEMMA FdCall ==
  ASSUME NEW m, FilesOK(m), m.read = <<>>, NEW fd \in Fds, NEW entry \in FdState
  PROVE  CallOK(m, [Done(m) EXCEPT !.fds[fd] = entry])
<1> DEFINE d == Done(m)
           z == [m.fds EXCEPT ![fd] = entry]
           c == [d EXCEPT !.fds[fd] = entry]
<1>1. d \in Kept /\ d.nodes = m.nodes /\ d.data = m.data /\ d.fds = m.fds /\ d.read = m.read
  BY DoneCall
<1>2. z \in [Fds -> FdState]
  BY FilesFacts DEF Kept
<1>3. c = [d EXCEPT !.fds = z]
  BY <1>1
<1> HIDE DEF c, d, z
<1>4. c \in Kept /\ c.nodes = m.nodes /\ c.data = m.data /\ c.read = m.read
  BY <1>1, <1>2, <1>3, FdsReplaced
<1>5. CallOK(m, c)
  BY <1>4, QuietCall
<1> QED BY <1>5 DEF c, d

LEMMA CloseCall ==
  ASSUME NEW m, FilesOK(m), m.read = <<>>, NEW fd \in Fds
  PROVE  CallOK(m, Close(m, fd))
<1>1. FreeFd \in FdState
  BY FilesAssumption DEF FreeFd, FdState
<1> QED BY <1>1, RefusedCall, FdCall DEF Close

LEMMA SeekCall ==
  ASSUME NEW m, FilesOK(m), m.read = <<>>, NEW fd \in Fds, NEW offset \in Nat
  PROVE  CallOK(m, Seek(m, fd, offset))
<1> DEFINE entry == [m.fds[fd] EXCEPT !.offset = offset]
<1>1. entry \in FdState
  <2>1. m.fds[fd] \in FdState
    BY FilesFacts DEF Kept
  <2> QED BY <2>1, OffsetReplaced
<1>2. [Done(m) EXCEPT !.fds[fd].offset = offset] = [Done(m) EXCEPT !.fds[fd] = entry]
  <2>1. Done(m).fds = m.fds
    BY DoneCall
  <2> QED BY <2>1
<1> HIDE DEF entry
<1>3. CallOK(m, [Done(m) EXCEPT !.fds[fd] = entry])
  BY <1>1, FdCall
<1> QED BY <1>2, <1>3, RefusedCall DEF Seek

LEMMA SetCwdCall ==
  ASSUME NEW m, FilesOK(m), m.read = <<>>, NEW path \in FilePaths
  PROVE  CallOK(m, SetCwd(m, path))
<1> DEFINE d == Done(m)
           c == [d EXCEPT !.cwd = path]
<1>1. d \in Kept /\ d.nodes = m.nodes /\ d.data = m.data /\ d.read = m.read
  BY DoneCall
<1>2. path \in Seq(Int)
  BY FilesAssumption
<1> HIDE DEF d
<1>3. c \in Kept /\ c.nodes = m.nodes /\ c.data = m.data /\ c.read = m.read
  BY <1>1, <1>2, CwdReplaced
<1> HIDE DEF c
<1>4. CallOK(m, c)
  BY <1>3, QuietCall
<1> QED BY <1>4, RefusedCall DEF SetCwd, c, d

\* Reading a byte at an offset of a file.
LEMMA ReadFdCall ==
  ASSUME NEW m, FilesOK(m), m.read = <<>>, NEW fd \in Fds
  PROVE  CallOK(m, ReadFd(m, fd, 1, Nothing))
<1> DEFINE x == m.fds[fd]
           n == FindNode(m, x.path)
           bytes == SubSeq(m.data[n], 1, m.nodes[n].size)
           L == Len(bytes)
           count == IF x.offset + 1 <= L THEN 1 ELSE IF x.offset <= L THEN L - x.offset ELSE 0
           got == SubSeq(bytes, x.offset + 1, x.offset + count)
           d == Done(m)
           c == [d EXCEPT !.read = got, !.fds[fd].offset = @ + count]
           r == ReadFd(m, fd, 1, Nothing)
<1>1. m \in Kept /\ x \in FdState /\ x.path \in FilePaths /\ x.offset \in Nat
  <2>1. m \in Kept /\ m.fds \in [Fds -> FdState]
    BY FilesFacts DEF Kept
  <2>2. x \in FdState
    BY <2>1
  <2> HIDE DEF x
  <2> QED BY <2>1, <2>2 DEF FdState
<1>2. r = Refuse(m) \/ (r = c /\ ~(n < 0) /\ ~m.nodes[n].dir)
  <2>1. Nothing.there = FALSE
    BY DEF Nothing
  <2>2. CASE x.kind = "unused" \/ "r" \notin x.flags
    BY <2>2 DEF ReadFd
  <2>3. CASE ~(x.kind = "unused" \/ "r" \notin x.flags) /\ x.kind # "file"
    <3>1. r = ReadFrom(m, fd, 1, Nothing)
      BY <2>3 DEF ReadFd
    <3> QED BY <2>1, <3>1 DEF ReadFrom
  <2>4. CASE ~(x.kind = "unused" \/ "r" \notin x.flags) /\ x.kind = "file"
    <3>1. r = ReadFrom(m, fd, 1, Held(m, n))
      BY <2>4 DEF ReadFd, Contents
    <3>2. CASE n < 0 \/ m.nodes[n].dir
      <4>1. Held(m, n) = Nothing
        BY <3>2 DEF Held
      <4> QED BY <2>1, <3>1, <4>1 DEF ReadFrom
    <3>3. CASE ~(n < 0 \/ m.nodes[n].dir)
      <4>1. Held(m, n) = [there |-> TRUE, bytes |-> bytes]
        BY <3>3 DEF Held
      <4> DEFINE held == Held(m, n)
      <4>4. held = [there |-> TRUE, bytes |-> bytes]
        BY <4>1
      <4> HIDE DEF held, bytes
      <4>2. held.there = TRUE /\ held.bytes = bytes
        BY ONLY <4>4
      <4>3. ReadFrom(m, fd, 1, held) = c
        BY <4>2 DEF ReadFrom
      <4> QED BY <3>1, <3>3, <4>3 DEF held
    <3> QED BY <3>2, <3>3
  <2> QED BY <2>2, <2>3, <2>4
<1>3. CASE r = Refuse(m)
  BY <1>3, RefusedCall
<1>4. CASE r = c /\ ~(n < 0) /\ ~m.nodes[n].dir
  <2>1. n \in Nodes
    <3>1. x.path \in Seq(Int)
      BY <1>1, FilesAssumption
    <3>2. n \in Found
      BY <3>1, FilesFacts, FindNodeStep
    <3> QED BY <1>4, <3>2, FoundFacts DEF Found
  <2>2. bytes \in Seq(Int) /\ L \in Nat
    <3>1. m.data[n] \in [1 .. MaxData -> Int] /\ m.nodes[n].size \in 0 .. MaxData
      BY <2>1, FilesFacts DEF LookupOK, Kept, Node
    <3>2. bytes \in Seq(Int)
      BY <3>1, FirstBytes
    <3> HIDE DEF bytes
    <3> QED BY <3>2
  <2>3. x.path \in Listed(m) /\ TreeOf(m)[x.path] = [dir |-> m.nodes[n].dir, bytes |-> bytes]
        /\ DOMAIN TreeOf(m) = Listed(m)
    <3>1. x.path \in Listed(m)
      BY <1>1, <2>1 DEF Listed
    <3> QED BY <3>1, TreeIs DEF Shown
  <2> DEFINE offset == x.offset
  <2>10. offset \in Nat /\ x.path \in FilePaths
    BY <1>1
  <2>11. count = IF offset + 1 <= L THEN 1 ELSE IF offset <= L THEN L - offset ELSE 0
    OBVIOUS
  <2>12. got = SubSeq(bytes, offset + 1, offset + count)
    OBVIOUS
  <2> HIDE DEF offset, count, got
  <2>13. L = Len(bytes)
    OBVIOUS
  <2> HIDE DEF L, bytes
  <2>4. count \in Nat /\ (count = 0 \/ (count = 1 /\ offset + 1 <= L))
    BY <2>2, <2>10, <2>11
  <2>5. got \in Seq(Int) /\ (count = 0 => got = <<>>)
    <3>1. CASE count = 0
      <4>1. offset + 1 \in Int /\ offset \in Int /\ offset + count = offset /\ ~(offset + 1 <= offset)
        BY <2>10, <3>1
      <4>2. \A i \in offset + 1 .. offset : bytes[i] \in Int
        BY <2>10
      <4>3. /\ SubSeq(bytes, offset + 1, offset) \in Seq(Int)
            /\ Len(SubSeq(bytes, offset + 1, offset)) =
                  IF offset + 1 <= offset THEN offset - (offset + 1) + 1 ELSE 0
        BY <4>1, <4>2, SubSeqProperties
      <4>4. got \in Seq(Int) /\ Len(got) = 0
        BY <2>12, <4>1, <4>3
      <4>5. got = <<>>
        BY ONLY <4>4
      <4> QED BY <4>4, <4>5
    <3>2. CASE count = 1 /\ offset + 1 <= L
      <4>1. offset + 1 \in Int /\ offset + 1 \in 1 .. L
        BY <2>2, <2>10, <3>2
      <4>2. \A i \in offset + 1 .. offset + 1 : bytes[i] \in Int
        <5>1. \A i \in offset + 1 .. offset + 1 : i \in 1 .. L
          BY <2>2, <2>10, <4>1
        <5> QED BY <2>2, <2>13, <5>1
      <4>3. SubSeq(bytes, offset + 1, offset + 1) \in Seq(Int)
        BY <4>1, <4>2, SubSeqProperties
      <4> QED BY <2>12, <3>2, <4>3
    <3> QED BY <2>4, <3>1, <3>2
  <2>6. c \in Kept /\ c.nodes = m.nodes /\ c.data = m.data /\ c.read = got
    <3> DEFINE e == [d EXCEPT !.read = got]
               z == [m.fds EXCEPT ![fd] = [m.fds[fd] EXCEPT !.offset = m.fds[fd].offset + count]]
    <3>1. d \in Kept /\ d.nodes = m.nodes /\ d.data = m.data /\ d.fds = m.fds
      BY DoneCall
    <3>2. c = [e EXCEPT !.fds = z]
      <4> HIDE DEF d
      <4> QED BY <3>1
    <3>3. z \in [Fds -> FdState]
      <4>1. m.fds \in [Fds -> FdState] /\ m.fds[fd] \in FdState /\ m.fds[fd].offset + count \in Nat
        BY <1>1, <2>4 DEF Kept
      <4>2. [m.fds[fd] EXCEPT !.offset = m.fds[fd].offset + count] \in FdState
        BY ONLY <4>1, OffsetReplaced
      <4> QED BY <4>1, <4>2
    <3> HIDE DEF d, z, c
    <3>4. /\ e \in Kept /\ e.nodes = d.nodes /\ e.data = d.data /\ e.read = got
      BY <2>5, <3>1, ReadReplaced
    <3> HIDE DEF e
    <3> QED BY <3>1, <3>2, <3>3, <3>4, FdsReplaced
  <2> HIDE DEF c, r
  <2>7. FilesOK(c) /\ TreeOf(c) = TreeOf(m)
    BY <2>6, NodesKept
  <2>8. Tree!Fetch(TreeOf(m), got)
    <3>1. CASE count = 0
      BY <2>5, <3>1 DEF Tree!Fetch
    <3>2. CASE count = 1 /\ offset + 1 <= L
      <4> DEFINE t == TreeOf(m)
                 p == x.path
      <4>1. p \in DOMAIN t /\ ~t[p].dir /\ t[p].bytes = bytes
        BY <1>4, <2>3
      <4>2. offset + 1 \in 1 .. L + 1 /\ offset + 1 \in 0 .. L
        BY <2>2, <2>10, <3>2
      <4>3. got = SubSeq(t[p].bytes, offset + 1, offset + 1)
        BY <2>12, <3>2, <4>1
      <4> HIDE DEF t, p
      <4>4. /\ p \in {q \in DOMAIN t : ~t[q].dir}
            /\ \E first \in 1 .. Len(t[p].bytes) + 1, last \in 0 .. Len(t[p].bytes) :
                 got = SubSeq(t[p].bytes, first, last)
        BY <2>13, <4>1, <4>2, <4>3
      <4> QED BY <4>4 DEF Tree!Fetch, t
    <3> QED BY <2>4, <3>1, <3>2
  <2>9. CallOK(m, c)
    BY <2>6, <2>7, <2>8 DEF CallOK, Tree!TreeStep
  <2> QED BY <1>4, <2>9 DEF r
<1> QED BY <1>2, <1>3, <1>4

-----------------------------------------------------------------------------
(* Formatting *)

\* A format leaves the root alone, whatever was open or written.
LEMMA FormattedOK ==
  ASSUME NEW data \in [Nodes -> [1 .. MaxData -> Int]]
  PROVE  LET c == Formatted(data)
         IN  FilesOK(c) /\ TreeOf(c) = Tree!Bare /\ c.read = <<>>
<1> DEFINE c == Formatted(data)
           top == [FreeNode EXCEPT !.used = TRUE, !.dir = TRUE]
<1>1. /\ c.nodes = [n \in Nodes |-> IF n = Root THEN top ELSE FreeNode]
      /\ c.data = data /\ c.fds = [fd \in Fds |-> FreeFd] /\ c.cwd = <<>>
      /\ c.ok = TRUE /\ c.fd = 0 /\ c.read = <<>>
  BY DEF Formatted
<1>2. /\ top.used /\ top.dir /\ top.parent = Root /\ top.name = 0 /\ top.size = 0
      /\ top.index = <<>> /\ top \in Node
  <2>1. FreeNode.index = <<>> /\ FreeNode.size = 0 /\ FreeNode.parent = Root /\ FreeNode.name = 0
    BY DEF FreeNode
  <2>2. \A x \in Node :
          LET y == [x EXCEPT !.used = TRUE, !.dir = TRUE]
          IN  /\ y \in Node /\ y.used = TRUE /\ y.dir = TRUE /\ y.parent = x.parent
              /\ y.name = x.name /\ y.size = x.size /\ y.index = x.index
    BY DEF Node
  <2> QED BY <2>1, <2>2, FreeNodeFacts
<1>3. c \in Kept
  <2>1. c.nodes \in [Nodes -> Node]
    BY <1>1, <1>2, FreeNodeFacts
  <2>2. c.fds \in [Fds -> FdState]
    <3>1. FreeFd \in FdState
      BY FilesAssumption DEF FreeFd, FdState
    <3> QED BY <1>1, <3>1
  <2>3. c = [nodes |-> c.nodes, data |-> c.data, fds |-> c.fds, cwd |-> c.cwd, ok |-> c.ok,
             fd |-> c.fd, read |-> c.read]
    BY DEF Formatted
  <2>4. <<>> \in Seq(Int) /\ 0 \in Int
    OBVIOUS
  <2> HIDE DEF c
  <2> QED BY <1>1, <2>1, <2>2, <2>3, <2>4 DEF Kept
<1>4. /\ c.nodes[Root] = top /\ \A n \in Nodes \ {Root} : c.nodes[n] = FreeNode
  <2> HIDE DEF top
  <2> QED BY <1>1, FoundFacts
<1> HIDE DEF c
<1>5. \A n : Children(c, n) = {}
  BY <1>4, FreeNodeFacts DEF Children
<1>6. \A n \in Nodes : c.nodes[n].index = <<>>
  <2>1. FreeNode.index = <<>> /\ top.index = <<>>
    BY <1>2 DEF FreeNode
  <2> HIDE DEF top
  <2> QED BY <1>4, <2>1
<1>7. ASSUME NEW n \in Nodes PROVE Indexed(c, n)
  <2>1. <<>> \in Seq(Nodes) /\ Len(<<>>) = 0
    OBVIOUS
  <2>2. ToSet(<<>>) = {}
    BY <2>1, QueueSet
  <2>3. NamesRise(c, <<>>)
    BY <2>1 DEF NamesRise
  <2> QED BY <1>5, <1>6, <2>2, <2>3 DEF Indexed
<1>8. FilesOK(c)
  <2>1. c.nodes[Root].used /\ c.nodes[Root].dir
    BY <1>2, <1>4
  <2>2. \A n \in Nodes : ~c.nodes[n].used => c.nodes[n] = FreeNode
    BY <1>4, <2>1
  <2> QED BY <1>3, <1>7, <2>1, <2>2 DEF FilesOK, TreeOK
<1>9. Listed(c) = {<<>>}
  <2>1. <<>> \in Listed(c)
    BY <1>8, FilesFacts, FilesAssumption, RootStep DEF Listed
  <2>2. ASSUME NEW q \in Listed(c), q # <<>> PROVE FALSE
    <3>1. q \in Seq(Int) /\ FindNode(c, q) \in Nodes
      BY FilesAssumption DEF Listed
    <3>2. FindNode(c, q) \in Children(c, FindNode(c, Front(q)))
      BY <1>8, <2>2, <3>1, FilesFacts, ChildStep
    <3> QED BY <1>5, <3>2
  <2> QED BY <2>1, <2>2
<1>10. Shown(c, Root) = Tree!Directory
  <2>1. SubSeq(c.data[Root], 1, 0) = <<>>
    OBVIOUS
  <2>2. c.nodes[Root].dir = TRUE /\ c.nodes[Root].size = 0
    BY ONLY <1>2, <1>4
  <2> QED BY <2>1, <2>2 DEF Shown, Tree!Directory
<1>11. TreeOf(c) = Tree!Bare
  <2>1. TreeOf(c) = [p \in {<<>>} |-> Shown(c, FindNode(c, p))]
    BY <1>8, <1>9, TreeIs
  <2>2. \A p \in {<<>>} : Shown(c, FindNode(c, p)) = Tree!Directory
    BY <1>8, <1>10, FilesFacts, RootStep
  <2>3. TreeOf(c) = [p \in {<<>>} |-> Tree!Directory]
    BY ONLY <2>1, <2>2
  <2> QED BY <2>3 DEF Tree!Bare
<1> QED BY <1>1, <1>8, <1>11 DEF c

LEMMA FormatCall ==
  ASSUME NEW m, FilesOK(m)
  PROVE  CallOK(m, Formatted(m.data))
<1> DEFINE c == Formatted(m.data)
<1>1. m.data \in [Nodes -> [1 .. MaxData -> Int]]
  BY FilesFacts DEF Kept
<1>2. FilesOK(c) /\ TreeOf(c) = Tree!Bare /\ c.read = <<>>
  BY <1>1, FormattedOK
<1> HIDE DEF c
<1>3. CallOK(m, c)
  BY <1>2 DEF CallOK, Tree!TreeStep, Tree!Fetch, Tree!Change
<1> QED BY <1>3 DEF c

-----------------------------------------------------------------------------
(* The refinement *)

\* The inductive invariant, and what lookups found after the last call.
FilesInv == FilesOK(files) /\ seen = TreeOf(files)

LEMMA FilesStarted == FilesInit => FilesInv /\ Tree!TreeInit
<1> DEFINE data == [n \in Nodes |-> [i \in 1 .. MaxData |-> 0]]
<1>1. data \in [Nodes -> [1 .. MaxData -> Int]]
  OBVIOUS
<1>2. FilesStart = Formatted(data)
  BY DEF FilesStart
<1> HIDE DEF data
<1>3. FilesOK(FilesStart) /\ TreeOf(FilesStart) = Tree!Bare /\ FilesStart.read = <<>>
  BY <1>1, <1>2, FormattedOK
<1> QED BY <1>3 DEF FilesInit, FilesInv, Tree!TreeInit

\* A call whose result is kept and returned is a step of the tree.
LEMMA CallStep ==
  ASSUME FilesInv, NEW c, CallOK([files EXCEPT !.read = <<>>], c), FilesCall(c)
  PROVE  FilesInv' /\ Tree!TreeStep(seen, seen', files.read')
<1> DEFINE called == [files EXCEPT !.read = <<>>]
           d == [c EXCEPT !.fd = 0]
           e == [d EXCEPT !.ok = TRUE]
<1>1. called \in Kept /\ called.nodes = files.nodes /\ called.data = files.data
  <2>1. files \in Kept /\ <<>> \in Seq(Int)
    BY FilesFacts DEF FilesInv
  <2> QED BY <2>1, ReadReplaced
<1>2. TreeOf(called) = TreeOf(files) /\ FilesOK(called)
  <2> HIDE DEF called
  <2> QED BY <1>1, NodesKept DEF FilesInv
<1>3. FilesOK(c) /\ c \in Kept /\ Tree!TreeStep(TreeOf(called), TreeOf(c), c.read)
  BY DEF CallOK, FilesOK
<1>4. files' = e
  BY DEF FilesCall
<1>5. e \in Kept /\ e.nodes = c.nodes /\ e.data = c.data /\ e.read = c.read
  <2>1. d \in Kept /\ d.nodes = c.nodes /\ d.data = c.data /\ d.read = c.read
    <3>1. 0 \in Int
      OBVIOUS
    <3> QED BY <1>3, <3>1, FdReplaced
  <2> HIDE DEF d
  <2> QED BY <2>1, OkReplaced
<1> HIDE DEF d, e
<1>6. FilesOK(e) /\ TreeOf(e) = TreeOf(c)
  BY <1>3, <1>5, NodesKept
<1>7. seen' = TreeOf(c) /\ seen = TreeOf(files)
  BY DEF FilesCall, FilesInv
<1>8. FilesInv'
  <2>1. FilesOK(files') /\ seen' = TreeOf(files')
    BY <1>4, <1>6, <1>7
  <2> QED BY <2>1 DEF FilesInv
<1>9. Tree!TreeStep(seen, seen', files.read')
  BY <1>2, <1>3, <1>4, <1>5, <1>7
<1> QED BY <1>8, <1>9

\* Every step keeps the invariant and is a step of the tree.
LEMMA FilesStep ==
  FilesInv /\ [FilesNext]_<<files, seen>> =>
    FilesInv' /\ [Tree!TreeStep(seen, seen', files.read')]_(Tree!treeVars)
<1> SUFFICES ASSUME FilesInv, [FilesNext]_<<files, seen>>
             PROVE  FilesInv' /\ [Tree!TreeStep(seen, seen', files.read')]_(Tree!treeVars)
  OBVIOUS
<1>1. CASE UNCHANGED <<files, seen>>
  BY <1>1 DEF FilesInv, Tree!treeVars
<1>2. CASE FilesNext
  <2> DEFINE called == [files EXCEPT !.read = <<>>]
  <2>1. FilesOK(called) /\ called.read = <<>> /\ called.data = files.data
    <3>1. files \in Kept /\ <<>> \in Seq(Int) /\ FilesOK(files)
      BY FilesFacts DEF FilesInv
    <3>2. called \in Kept /\ called.nodes = files.nodes /\ called.data = files.data /\ called.read = <<>>
      BY <3>1, ReadReplaced
    <3> HIDE DEF called
    <3> QED BY <3>1, <3>2, NodesKept
  <2> DEFINE Answered == \E c : FilesCall(c) /\ CallOK(called, c)
  <2>2. Answered
    <3> HIDE DEF called
    <3>1. ASSUME NEW p \in FilePaths, FilesCall(Create(called, p, TRUE)) PROVE Answered
      BY <2>1, <3>1, CreateCall
    <3>2. ASSUME NEW p \in FilePaths, NEW dir \in BOOLEAN, FilesCall(RemoveNode(called, p, dir))
          PROVE  Answered
      BY <2>1, <3>2, RemoveCall
    <3>3. ASSUME NEW p \in FilePaths, NEW flags \in {{"r", "w"}, {"w", "c"}},
                 FilesCall(Open(called, p, flags, FALSE))
          PROVE  Answered
      <4>1. flags \in SUBSET {"r", "w", "c"}
        BY <3>3
      <4> QED BY <2>1, <3>3, <4>1, OpenCall
    <3>4. ASSUME NEW p \in FilePaths, FilesCall(SetCwd(called, p)) PROVE Answered
      BY <2>1, <3>4, SetCwdCall
    <3>5. ASSUME NEW fd \in Fds, FilesCall(Close(called, fd)) PROVE Answered
      BY <2>1, <3>5, CloseCall
    <3>6. ASSUME NEW fd \in Fds, FilesCall(ReadFd(called, fd, 1, Nothing)) PROVE Answered
      BY <2>1, <3>6, ReadFdCall
    <3>7. ASSUME NEW fd \in Fds, NEW byte \in Bytes, FilesCall(WriteFd(called, fd, <<byte>>))
          PROVE  Answered
      BY <2>1, <3>7, WriteFdCall
    <3>8. ASSUME NEW fd \in Fds, NEW offset \in 0 .. MaxData, FilesCall(Seek(called, fd, offset))
          PROVE  Answered
      <4>1. offset \in Nat
        BY <3>8
      <4> QED BY <2>1, <3>8, <4>1, SeekCall
    <3>9. CASE FilesCall(Formatted(files.data))
      <4>1. CallOK(called, Formatted(called.data))
        BY <2>1, FormatCall
      <4> QED BY <2>1, <3>9, <4>1
    <3>10. Named \subseteq FilePaths
      BY DEF Named
    <3> HIDE DEF Answered
    <3> USE DEF called
    <3>11. CASE \E p \in Named :
                  \/ FilesCall(Create(called, p, TRUE))
                  \/ \E dir \in BOOLEAN : FilesCall(RemoveNode(called, p, dir))
                  \/ \E flags \in {{"r", "w"}, {"w", "c"}} : FilesCall(Open(called, p, flags, FALSE))
                  \/ Len(p) <= MaxCwd /\ FilesCall(SetCwd(called, p))
      BY <3>1, <3>2, <3>3, <3>4, <3>10, <3>11
    <3>12. CASE \E fd \in Fds :
                  \/ FilesCall(Close(called, fd))
                  \/ FilesCall(ReadFd(called, fd, 1, Nothing))
                  \/ \E byte \in Bytes : FilesCall(WriteFd(called, fd, <<byte>>))
                  \/ \E offset \in 0 .. MaxData : FilesCall(Seek(called, fd, offset))
      BY <3>5, <3>6, <3>7, <3>8, <3>12
    <3> QED BY <1>2, <3>9, <3>11, <3>12 DEF FilesNext
  <2>3. PICK c : FilesCall(c) /\ CallOK(called, c)
    BY <2>2
  <2>4. FilesInv' /\ Tree!TreeStep(seen, seen', files.read')
    BY <2>3, CallStep
  <2> QED BY <2>4
<1> QED BY <1>1, <1>2

\* What a path leads to through the indexes of the directories (resolve_path and find_child of
\* course_fs.c) is what was made there and written to it, and nothing else changes: not by the
\* reuse of a node and its data area, nor by a write beyond the end of a file.  For every number
\* of nodes, size of a leaf and of a file, and every set of paths closed under prefixes.
THEOREM FilesAreATree == FilesSpec => ImplementsFileTree
<1>1. FilesInit => FilesInv /\ Tree!TreeInit
  BY FilesStarted
<1>2. FilesInv /\ [FilesNext]_<<files, seen>> =>
        FilesInv' /\ [Tree!TreeStep(seen, seen', files.read')]_(Tree!treeVars)
  BY FilesStep
<1> QED BY <1>1, <1>2, PTL DEF FilesSpec, ImplementsFileTree, Tree!TreeSpec

=============================================================================
