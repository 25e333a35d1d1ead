----------------------------- MODULE QueueLemmas -----------------------------
(***************************************************************************)
(* What the proofs need to know of the sequences that model queues: the    *)
(* set of what they hold, whether they hold anything twice, and how        *)
(* joining at the end and leaving at the front change both.  And of sets   *)
(* of numbers: their least and greatest members, and what a sequence keeps *)
(* when only some of its indices are selected.  And of positions modulo a  *)
(* size, and the ring of slots that they index.  And of loops.             *)
(***************************************************************************)
EXTENDS Selection, Integers, SequencesExt, SequenceTheorems, FiniteSetTheorems,
        NaturalsInduction, WellFoundedInduction, TLAPS

Distinct(q) == \A i, j \in 1 .. Len(q) : q[i] = q[j] => i = j

LEMMA QueueSet ==
  ASSUME NEW S, NEW q \in Seq(S)
  PROVE  /\ ToSet(q) = {q[i] : i \in 1 .. Len(q)} /\ ToSet(q) \subseteq S
         /\ ToSet(<<>>) = {} /\ Distinct(<<>>)
<1>1. \A i \in 1 .. Len(q) : q[i] \in S
  OBVIOUS
<1> QED BY <1>1 DEF ToSet, Distinct

LEMMA AppendSet ==
  ASSUME NEW S, NEW q \in Seq(S), NEW p \in S
  PROVE  /\ ToSet(Append(q, p)) = ToSet(q) \cup {p}
         /\ Distinct(q) /\ p \notin ToSet(q) => Distinct(Append(q, p))
<1> DEFINE r == Append(q, p)
<1>1. /\ r \in Seq(S) /\ Len(r) = Len(q) + 1 /\ Len(q) \in Nat
      /\ \A i \in 1 .. Len(q) : r[i] = q[i]
      /\ r[Len(q) + 1] = p
  OBVIOUS
<1> HIDE DEF r
<1>2. ToSet(r) = ToSet(q) \cup {p}
  <2>1. ToSet(r) = {r[i] : i \in 1 .. Len(r)} /\ ToSet(q) = {q[i] : i \in 1 .. Len(q)}
    BY <1>1, QueueSet
  <2>2. \A i \in 1 .. Len(r) : i \in 1 .. Len(q) \/ i = Len(q) + 1
    BY <1>1
  <2>3. ToSet(r) \subseteq ToSet(q) \cup {p}
    BY <1>1, <2>1, <2>2
  <2>4. \A i \in 1 .. Len(q) : i \in 1 .. Len(r)
    BY <1>1
  <2>5. Len(q) + 1 \in 1 .. Len(r)
    BY <1>1
  <2>6. ToSet(q) \cup {p} \subseteq ToSet(r)
    BY <1>1, <2>1, <2>4, <2>5
  <2> QED BY <2>3, <2>6
<1>3. ASSUME Distinct(q), p \notin ToSet(q)
      PROVE  Distinct(r)
  <2>1. \A i \in 1 .. Len(q) : q[i] # p
    BY <1>3, QueueSet
  <2> QED BY <1>1, <1>3, <2>1 DEF Distinct
<1> QED BY <1>2, <1>3 DEF r

LEMMA TailSet ==
  ASSUME NEW S, NEW q \in Seq(S), q # <<>>
  PROVE  /\ Head(q) \in ToSet(q) /\ Tail(q) \in Seq(S)
         /\ ToSet(q) = {Head(q)} \cup ToSet(Tail(q))
         /\ Distinct(q) => Distinct(Tail(q)) /\ Head(q) \notin ToSet(Tail(q))
<1> DEFINE r == Tail(q)
<1>1. /\ r \in Seq(S) /\ Len(q) = Len(r) + 1 /\ Len(r) \in Nat
      /\ \A i \in 1 .. Len(r) : r[i] = q[i + 1]
      /\ Head(q) = q[1]
  OBVIOUS
<1> HIDE DEF r
<1>2. ToSet(r) = {r[i] : i \in 1 .. Len(r)} /\ ToSet(q) = {q[i] : i \in 1 .. Len(q)}
  BY <1>1, QueueSet
<1>3. 1 \in 1 .. Len(q) /\ \A i \in 1 .. Len(r) : i + 1 \in 1 .. Len(q)
  BY <1>1
<1>4. \A i \in 1 .. Len(q) : i = 1 \/ (i - 1 \in 1 .. Len(r) /\ r[i - 1] = q[i])
  BY <1>1
<1>5. ToSet(q) \subseteq {Head(q)} \cup ToSet(r)
  BY <1>1, <1>2, <1>4
<1>6. {Head(q)} \cup ToSet(r) \subseteq ToSet(q)
  BY <1>1, <1>2, <1>3
<1>7. ASSUME Distinct(q)
      PROVE  Distinct(r) /\ Head(q) \notin ToSet(r)
  <2>1. Distinct(r)
    BY <1>1, <1>3, <1>7 DEF Distinct
  <2>2. \A i \in 1 .. Len(r) : r[i] # q[1]
    BY <1>1, <1>3, <1>7 DEF Distinct
  <2> QED BY <1>1, <1>2, <2>1, <2>2
<1> QED BY <1>1, <1>5, <1>6, <1>7 DEF r

LEMMA DistinctConcat ==
  ASSUME NEW S, NEW q \in Seq(S), NEW r \in Seq(S), Distinct(q), Distinct(r),
         ToSet(q) \cap ToSet(r) = {}
  PROVE  IsInjective(q \o r)
<1> DEFINE w == q \o r
<1>1. /\ DOMAIN w = 1 .. Len(q) + Len(r) /\ Len(q) \in Nat /\ Len(r) \in Nat
      /\ \A i \in 1 .. Len(q) + Len(r) : w[i] = IF i <= Len(q) THEN q[i] ELSE r[i - Len(q)]
  OBVIOUS
<1> HIDE DEF w
<1>2. \A i \in 1 .. Len(q), j \in 1 .. Len(r) : q[i] # r[j]
  <2>1. ToSet(q) = {q[i] : i \in 1 .. Len(q)}
    BY QueueSet
  <2>2. ToSet(r) = {r[i] : i \in 1 .. Len(r)}
    BY QueueSet
  <2> QED BY <2>1, <2>2
<1>3. \A i \in 1 .. Len(q) + Len(r) :
        (i \in 1 .. Len(q) /\ w[i] = q[i]) \/ (i - Len(q) \in 1 .. Len(r) /\ w[i] = r[i - Len(q)])
  BY <1>1
<1>4. \A i, j \in 1 .. Len(q) + Len(r) : w[i] = w[j] => i = j
  <2> TAKE i, j \in 1 .. Len(q) + Len(r)
  <2>1. CASE i \in 1 .. Len(q) /\ j \in 1 .. Len(q)
    BY <1>1, <2>1 DEF Distinct
  <2>2. CASE i - Len(q) \in 1 .. Len(r) /\ j - Len(q) \in 1 .. Len(r)
    <3>1. w[i] = r[i - Len(q)] /\ w[j] = r[j - Len(q)]
      BY <1>1, <2>2
    <3>2. w[i] = w[j] => i - Len(q) = j - Len(q)
      BY <2>2, <3>1 DEF Distinct
    <3> QED BY <1>1, <3>2
  <2>3. CASE i \in 1 .. Len(q) /\ j - Len(q) \in 1 .. Len(r)
    BY <1>1, <1>2, <2>3
  <2>4. CASE j \in 1 .. Len(q) /\ i - Len(q) \in 1 .. Len(r)
    BY <1>1, <1>2, <2>4
  <2> QED BY <1>3, <2>1, <2>2, <2>3, <2>4
<1> QED BY <1>1, <1>4 DEF IsInjective, w

LEMMA PrefixByIndex ==
  ASSUME NEW S, NEW p \in Seq(S), NEW q \in Seq(S)
  PROVE  IsPrefix(p, q) <=> Len(p) <= Len(q) /\ \A i \in 1 .. Len(p) : p[i] = q[i]
<1>1. CASE Len(p) <= Len(q)
  <2> DEFINE u == SubSeq(p, 1, Len(p))
             v == SubSeq(q, 1, Len(p))
  <2>1. /\ u \in Seq(S) /\ Len(u) = Len(p) /\ \A i \in 1 .. Len(p) : u[i] = p[i]
        /\ v \in Seq(S) /\ Len(v) = Len(p) /\ \A i \in 1 .. Len(p) : v[i] = q[i]
    BY <1>1
  <2> HIDE DEF u, v
  <2>2. u = v <=> \A i \in 1 .. Len(p) : u[i] = v[i]
    BY <2>1, SeqEqual
  <2> QED BY <1>1, <2>1, <2>2 DEF IsPrefix, u, v
<1>2. CASE ~(Len(p) <= Len(q))
  BY <1>2 DEF IsPrefix
<1> QED BY <1>1, <1>2

LEMMA PrefixAppend ==
  ASSUME NEW S, NEW p \in Seq(S), NEW q \in Seq(S), NEW x \in S, IsPrefix(p, q)
  PROVE  IsPrefix(p, Append(q, x))
<1>1. Append(q, x) \in Seq(S) /\ Len(Append(q, x)) = Len(q) + 1
      /\ \A i \in 1 .. Len(q) : Append(q, x)[i] = q[i]
  OBVIOUS
<1>2. Len(p) <= Len(q) /\ (\A i \in 1 .. Len(p) : p[i] = q[i]) /\ Len(p) \in Nat /\ Len(q) \in Nat
  BY PrefixByIndex
<1>3. Len(p) <= Len(Append(q, x)) /\ \A i \in 1 .. Len(p) : p[i] = Append(q, x)[i]
  BY <1>1, <1>2
<1> QED BY <1>1, <1>3, PrefixByIndex

LEMMA PrefixTail ==
  ASSUME NEW S, NEW p \in Seq(S), NEW q \in Seq(S), IsPrefix(p, q), p # <<>>
  PROVE  q # <<>> /\ Head(p) = Head(q) /\ IsPrefix(Tail(p), Tail(q))
<1> DEFINE u == Tail(p)
           v == Tail(q)
<1>1. Len(p) <= Len(q) /\ (\A i \in 1 .. Len(p) : p[i] = q[i])
      /\ Len(p) \in Nat \ {0} /\ Len(q) \in Nat
  BY PrefixByIndex
<1>2. /\ u \in Seq(S) /\ Len(u) = Len(p) - 1
      /\ \A i \in 1 .. Len(p) - 1 : u[i] = p[i + 1]
  BY <1>1
<1>3. /\ v \in Seq(S) /\ Len(v) = Len(q) - 1 /\ q # <<>>
      /\ \A i \in 1 .. Len(q) - 1 : v[i] = q[i + 1]
  BY <1>1
<1>4. \A i \in 1 .. Len(p) - 1 : u[i] = v[i]
  BY <1>1, <1>2, <1>3
<1>5. Head(p) = Head(q)
  BY <1>1, <1>3
<1> HIDE DEF u, v
<1>6. Len(u) <= Len(v) /\ \A i \in 1 .. Len(u) : u[i] = v[i]
  BY <1>1, <1>2, <1>3, <1>4
<1>7. IsPrefix(u, v)
  BY <1>2, <1>3, <1>6, PrefixByIndex
<1> QED BY <1>3, <1>5, <1>7 DEF u, v

\* The first of the second part of a concatenation moves to the end of the first part.
LEMMA MoveHead ==
  ASSUME NEW S, NEW p \in Seq(S), NEW q \in Seq(S), q # <<>>
  PROVE  /\ Append(p, Head(q)) \in Seq(S) /\ Tail(q) \in Seq(S) /\ Head(q) \in S
         /\ p \o q = Append(p, Head(q)) \o Tail(q)
OBVIOUS

\* A cut queue: what joins the whole joins its second part.
Cut(w, p, q) == w = p \o q

LEMMA AppendCut ==
  ASSUME NEW S, NEW p \in Seq(S), NEW q \in Seq(S), NEW x \in S, NEW w, Cut(w, p, q)
  PROVE  Cut(Append(w, x), p, Append(q, x))
<1>1. Append(p \o q, x) = p \o Append(q, x)
  OBVIOUS
<1>2. w = p \o q
  BY DEF Cut
<1> HIDE DEF Cut
<1>3. Append(w, x) = p \o Append(q, x)
  BY ONLY <1>1, <1>2, Zenon
<1> QED BY <1>3 DEF Cut

LEMMA TailConcat ==
  ASSUME NEW S, NEW p \in Seq(S), NEW q \in Seq(S), p # <<>>
  PROVE  Tail(p \o q) = Tail(p) \o q
OBVIOUS

LEMMA PrefixConcat ==
  ASSUME NEW S, NEW p \in Seq(S), NEW q \in Seq(S)
  PROVE  IsPrefix(p, p \o q) /\ p \o q \in Seq(S)
<1> DEFINE w == p \o q
<1>1. w \in Seq(S) /\ Len(p) <= Len(w) /\ \A i \in 1 .. Len(p) : p[i] = w[i]
  OBVIOUS
<1> HIDE DEF w
<1>2. IsPrefix(p, w)
  BY <1>1, PrefixByIndex
<1> QED BY <1>1, <1>2 DEF w

LEMMA LeastOf ==
  ASSUME NEW S \in SUBSET Nat, S # {}
  PROVE  \E x \in S : \A y \in S : x <= y
<1> DEFINE R == {ss \in Nat \X Nat : ss[1] < ss[2]}
<1>1. IsWellFoundedOn(R, Nat)
  BY NatLessThanWellFounded DEF OpToRel
<1>2. \A x, y \in Nat : <<y, x>> \in R <=> y < x
  OBVIOUS
<1> HIDE DEF R
<1>3. PICK x \in S : \A y \in S : ~(<<y, x>> \in R)
  BY <1>1, WFMin
<1>4. \A y \in S : x <= y
  <2> TAKE y \in S
  <2>1. ~(<<y, x>> \in R) /\ x \in Nat /\ y \in Nat
    BY <1>3
  <2>2. ~(y < x)
    BY <2>1, <1>2
  <2> QED BY <2>1, <2>2
<1> QED BY <1>4

LEMMA GreatestOf ==
  ASSUME NEW n \in Nat, NEW S \in SUBSET (0 .. n), S # {}
  PROVE  \E x \in S : \A y \in S : x >= y
<1> DEFINE T == {n - x : x \in S}
<1>1. T \in SUBSET Nat /\ T # {}
  <2>1. \A x \in S : x \in Int /\ x <= n
    OBVIOUS
  <2>2. \A x \in S : n - x \in Nat
    BY <2>1
  <2> QED BY <2>2
<1> HIDE DEF T
<1>2. PICK t \in T : \A u \in T : t <= u
  BY <1>1, LeastOf
<1>3. PICK x \in S : t = n - x
  BY DEF T
<1>4. \A y \in S : n - y \in T
  BY DEF T
<1>5. \A y \in S : x >= y
  BY <1>2, <1>3, <1>4
<1> QED BY <1>5

\* One element taken out of a sequence.
LEMMA RemoveAtFacts ==
  ASSUME NEW S, NEW q \in Seq(S), NEW k \in 1 .. Len(q)
  PROVE  /\ RemoveAt(q, k) \in Seq(S) /\ Len(RemoveAt(q, k)) = Len(q) - 1
         /\ \A n \in 1 .. Len(q) - 1 : RemoveAt(q, k)[n] = IF n < k THEN q[n] ELSE q[n + 1]
<1> DEFINE w == RemoveAt(q, k)
           u == SubSeq(q, 1, k - 1)
           v == SubSeq(q, k + 1, Len(q))
<1>0. Len(q) \in Nat
  OBVIOUS
<1>1. u \in Seq(S) /\ Len(u) = k - 1 /\ \A n \in 1 .. k - 1 : u[n] = q[n]
  OBVIOUS
<1>2. v \in Seq(S) /\ Len(v) = Len(q) - k /\ \A n \in 1 .. Len(q) - k : v[n] = q[k + n]
  OBVIOUS
<1>3. w = u \o v
  BY DEF RemoveAt
<1> HIDE DEF u, v, w
<1>4. w \in Seq(S) /\ Len(w) = Len(q) - 1
  <2>1. w \in Seq(S) /\ Len(w) = Len(u) + Len(v)
    BY <1>1, <1>2, <1>3, ConcatProperties
  <2> QED BY <1>0, <1>1, <1>2, <2>1
<1>5. \A n \in 1 .. Len(q) - 1 : w[n] = IF n <= Len(u) THEN u[n] ELSE v[n - Len(u)]
  BY <1>0, <1>1, <1>2, <1>3
<1>6. \A n \in 1 .. Len(q) - 1 : w[n] = IF n < k THEN q[n] ELSE q[n + 1]
  <2> TAKE n \in 1 .. Len(q) - 1
  <2>1. CASE n < k
    BY <1>0, <1>1, <1>5, <2>1
  <2>2. CASE ~(n < k)
    <3>1. n - Len(u) \in 1 .. Len(q) - k /\ k + (n - Len(u)) = n + 1
      BY <1>0, <1>1, <2>2
    <3> QED BY <1>0, <1>1, <1>2, <1>5, <2>2, <3>1
  <2> QED BY <2>1, <2>2
<1> QED BY <1>4, <1>6 DEF w

LEMMA RemoveAtSet ==
  ASSUME NEW S, NEW q \in Seq(S), NEW k \in 1 .. Len(q), Distinct(q)
  PROVE  ToSet(RemoveAt(q, k)) = ToSet(q) \ {q[k]} /\ Distinct(RemoveAt(q, k))
<1> DEFINE w == RemoveAt(q, k)
           at(n) == IF n < k THEN n ELSE n + 1
<1>1. w \in Seq(S) /\ Len(w) = Len(q) - 1 /\ Len(q) \in Nat
  BY RemoveAtFacts
<1>2. \A n \in 1 .. Len(w) : w[n] = q[at(n)]
  BY <1>1, RemoveAtFacts
<1> HIDE DEF w
<1>3. \A n \in 1 .. Len(w) : at(n) \in 1 .. Len(q) /\ at(n) # k
  BY <1>1
<1>4. \A n, m \in 1 .. Len(w) : at(n) = at(m) => n = m
  BY <1>1
<1>5. \A m \in 1 .. Len(q) : m # k => \E n \in 1 .. Len(w) : at(n) = m
  <2> SUFFICES ASSUME NEW m \in 1 .. Len(q), m # k PROVE \E n \in 1 .. Len(w) : at(n) = m
    OBVIOUS
  <2>1. CASE m < k
    BY <1>1, <2>1
  <2>2. CASE m > k
    <3>1. m - 1 \in 1 .. Len(w) /\ at(m - 1) = m
      BY <1>1, <2>2
    <3> QED BY <3>1
  <2> QED BY <2>1, <2>2
<1> HIDE DEF at
<1>6. ToSet(w) = {w[i] : i \in 1 .. Len(w)} /\ ToSet(q) = {q[i] : i \in 1 .. Len(q)}
  BY <1>1, QueueSet
<1>7. \A i, j \in 1 .. Len(q) : q[i] = q[j] => i = j
  BY DEF Distinct
<1>8. ToSet(w) \subseteq ToSet(q) \ {q[k]}
  BY <1>2, <1>3, <1>6, <1>7
<1>9. ToSet(q) \ {q[k]} \subseteq ToSet(w)
  BY <1>2, <1>5, <1>6
<1>10. Distinct(w)
  BY <1>2, <1>3, <1>4, <1>7 DEF Distinct
<1> QED BY <1>8, <1>9, <1>10 DEF w

\* Those before an element of a finite set of numbers, and those up to it.
LEMMA RankFacts ==
  ASSUME NEW N \in Nat, NEW S \in SUBSET (1 .. N)
  PROVE  /\ IsFiniteSet(S) /\ Cardinality(S) \in Nat
         /\ \A i \in S : /\ Cardinality({j \in S : j < i}) \in Nat
                         /\ Cardinality({j \in S : j <= i}) = Cardinality({j \in S : j < i}) + 1
                         /\ Cardinality({j \in S : j <= i}) <= Cardinality(S)
         /\ \A i, k \in S : i < k => Cardinality({j \in S : j < i}) < Cardinality({j \in S : j < k})
<1>1. IsFiniteSet(1 .. N)
  BY FS_Interval
<1>2. \A T \in SUBSET S : IsFiniteSet(T) /\ Cardinality(T) \in Nat /\ Cardinality(T) <= Cardinality(S)
  BY <1>1, FS_Subset, FS_CardinalityType
<1>3. \A i \in S : i \in Int
  OBVIOUS
<1>4. ASSUME NEW i \in S
      PROVE  /\ Cardinality({j \in S : j <= i}) = Cardinality({j \in S : j < i}) + 1
             /\ Cardinality({j \in S : j <= i}) <= Cardinality(S)
             /\ Cardinality({j \in S : j < i}) \in Nat
  <2> DEFINE T == {j \in S : j < i}
             U == {j \in S : j <= i}
  <2>0. \A j \in S : j <= i <=> j < i \/ j = i
    BY <1>3
  <2>1. U = T \cup {i} /\ i \notin T /\ T \in SUBSET S /\ U \in SUBSET S
    <3>1. ~(i < i)
      BY <1>3
    <3> QED BY <2>0, <3>1
  <2> HIDE DEF T, U
  <2>2. Cardinality(U) = Cardinality(T) + 1
    BY <1>2, <2>1, FS_AddElement
  <2>3. Cardinality(T) \in Nat /\ Cardinality(U) <= Cardinality(S)
    BY <1>2, <2>1
  <2> QED BY <2>2, <2>3 DEF T, U
<1>5. ASSUME NEW i \in S, NEW k \in S, i < k
      PROVE  Cardinality({j \in S : j < i}) < Cardinality({j \in S : j < k})
  <2> DEFINE T == {j \in S : j < k}
             U == {j \in S : j <= i}
  <2>0. \A j \in S : j <= i => j < k
    BY <1>3, <1>5
  <2>1. U \in SUBSET T /\ T \in SUBSET S
    BY <2>0
  <2>2. Cardinality(U) = Cardinality({j \in S : j < i}) + 1 /\ Cardinality({j \in S : j < i}) \in Nat
    BY <1>4
  <2> HIDE DEF T, U
  <2>3. IsFiniteSet(T) /\ Cardinality(T) \in Nat
    BY <1>2, <2>1
  <2>4. Cardinality(U) <= Cardinality(T) /\ Cardinality(U) \in Nat
    BY <2>1, <2>3, FS_Subset, FS_CardinalityType
  <2> QED BY <2>2, <2>3, <2>4 DEF T
<1>6. IsFiniteSet(S) /\ Cardinality(S) \in Nat
  BY <1>2
<1> QED BY <1>4, <1>5, <1>6

\* Nth enumerates a finite set of numbers from the least to the greatest.
LEMMA NthFacts ==
  ASSUME NEW N \in Nat, NEW S \in SUBSET (1 .. N)
  PROVE  /\ \A n \in 1 .. Cardinality(S) :
              Nth(S, n) \in S /\ Cardinality({j \in S : j < Nth(S, n)}) = n - 1
         /\ \A n, m \in 1 .. Cardinality(S) : n < m <=> Nth(S, n) < Nth(S, m)
         /\ \A i \in S : \E n \in 1 .. Cardinality(S) : Nth(S, n) = i
<1> DEFINE Rank(i) == Cardinality({j \in S : j < i})
           card == Cardinality(S)
           Missing == {n \in 1 .. card : ~\E i \in S : Rank(i) = n - 1}
<1>0. /\ IsFiniteSet(S) /\ card \in Nat
      /\ \A i \in S : /\ Rank(i) \in Nat
                      /\ Cardinality({j \in S : j <= i}) = Rank(i) + 1
                      /\ Cardinality({j \in S : j <= i}) <= card
      /\ \A i, k \in S : i < k => Rank(i) < Rank(k)
  BY RankFacts
<1>00. \A i \in S : i \in Int
  OBVIOUS
<1>1. Missing = {}
  <2> SUFFICES ASSUME Missing # {} PROVE FALSE
    OBVIOUS
  <2>1. Missing \in SUBSET Nat
    BY <1>0
  <2>2. PICK n \in Missing : \A m \in Missing : n <= m
    BY <2>1, LeastOf
  <2>3. n \in 1 .. card /\ ~\E i \in S : Rank(i) = n - 1
    OBVIOUS
  <2>4. \A T : T \in SUBSET S /\ T # {} => \E x \in T : \A y \in T : x <= y
    <3> TAKE T
    <3> HAVE T \in SUBSET S /\ T # {}
    <3>1. T \in SUBSET Nat /\ T # {}
      OBVIOUS
    <3> QED BY <3>1, LeastOf
  <2>5. n # 1
    <3> SUFFICES ASSUME n = 1 PROVE FALSE
      OBVIOUS
    <3>1. S # {}
      BY <1>0, <2>3, FS_EmptySet
    <3>2. PICK x \in S : \A y \in S : x <= y
      BY <2>4, <3>1
    <3>3. \A j \in S : ~(j < x)
      BY <1>00, <3>2
    <3>4. {j \in S : j < x} = {}
      BY <3>3
    <3>5. Rank(x) = 0
      BY <3>4, FS_EmptySet
    <3>6. Rank(x) = n - 1
      BY <3>5
    <3> QED BY <2>3, <3>2, <3>6
  <2>6. n - 1 \in 1 .. card /\ n - 1 \notin Missing
    <3> HIDE DEF Missing
    <3>1. n - 1 \in 1 .. card
      BY <1>0, <2>3, <2>5
    <3>2. ~(n <= n - 1)
      BY <2>3
    <3> QED BY <2>2, <3>1, <3>2
  <2>7. PICK i \in S : Rank(i) = n - 2
    BY <2>3, <2>6
  <2> DEFINE U == {j \in S : j <= i}
  <2>8. Cardinality(U) = n - 1 /\ U \in SUBSET S
    BY <1>0, <2>3, <2>7
  <2>9. S \ U # {}
    <3> SUFFICES ASSUME S \ U = {} PROVE FALSE
      OBVIOUS
    <3>1. U = S
      BY <2>8
    <3> QED BY <1>0, <2>3, <2>8, <3>1
  <2>10. PICK x \in S \ U : \A y \in S \ U : x <= y
    BY <2>4, <2>9
  <2>11. {j \in S : j < x} = U
    <3>1. \A j \in S : j \in Int
      OBVIOUS
    <3>2. i < x
      BY <2>10, <3>1
    <3>3. \A j \in S : j < x <=> j <= i
      BY <2>10, <3>1, <3>2
    <3> QED BY <3>3
  <2>12. Rank(x) = n - 1 /\ x \in S
    BY <2>8, <2>10, <2>11
  <2> QED BY <2>3, <2>12
<1> HIDE DEF Missing
<1>2. \A n \in 1 .. card : \E i \in S : Rank(i) = n - 1
  BY <1>1 DEF Missing
<1>3. \A n \in 1 .. card : Nth(S, n) \in S /\ Rank(Nth(S, n)) = n - 1
  BY <1>2 DEF Nth
<1>4. \A i, k \in S : Rank(i) = Rank(k) => i = k
  <2> TAKE i, k \in S
  <2> HIDE DEF Rank, card
  <2>1. i \in Int /\ k \in Int
    BY <1>00
  <2>2. Rank(i) \in Nat /\ Rank(k) \in Nat /\ (i < k => Rank(i) < Rank(k))
        /\ (k < i => Rank(k) < Rank(i))
    BY <1>0
  <2> QED BY <2>1, <2>2
<1> HIDE DEF Rank, card
<1>5. \A n, m \in 1 .. card : n < m <=> Nth(S, n) < Nth(S, m)
  <2> TAKE n, m \in 1 .. card
  <2>1. Nth(S, n) \in S /\ Nth(S, m) \in S /\ Rank(Nth(S, n)) = n - 1 /\ Rank(Nth(S, m)) = m - 1
    BY <1>3
  <2>2. Nth(S, n) \in Int /\ Nth(S, m) \in Int
    BY <1>00, <2>1
  <2> QED BY <1>0, <2>1, <2>2
<1>6. \A i \in S : \E n \in 1 .. card : Nth(S, n) = i
  <2> TAKE i \in S
  <2>1. Rank(i) \in Nat /\ Rank(i) + 1 <= card
    BY <1>0
  <2>2. Rank(i) + 1 \in 1 .. card
    BY <1>0, <2>1
  <2>3. Nth(S, Rank(i) + 1) \in S /\ Rank(Nth(S, Rank(i) + 1)) = Rank(i)
    BY <1>3, <2>1, <2>2
  <2> QED BY <1>4, <2>2, <2>3
<1> QED BY <1>3, <1>5, <1>6 DEF Rank, card

LEMMA SelectedFacts ==
  ASSUME NEW T, NEW q \in Seq(T), NEW S \in SUBSET (1 .. Len(q))
  PROVE  /\ Selected(q, S) \in Seq(T) /\ Len(Selected(q, S)) = Cardinality(S)
         /\ Cardinality(S) \in Nat /\ Cardinality(S) <= Len(q)
         /\ \A n \in 1 .. Cardinality(S) :
              Nth(S, n) \in S /\ Selected(q, S)[n] = q[Nth(S, n)]
         /\ \A n, m \in 1 .. Cardinality(S) : Nth(S, n) = Nth(S, m) => n = m
         /\ \A i \in S : \E n \in 1 .. Cardinality(S) : Nth(S, n) = i
<1> DEFINE card == Cardinality(S)
<1>1. Len(q) \in Nat
  OBVIOUS
<1>2. card \in Nat
  BY <1>1, RankFacts
<1>3. card <= Len(q)
  <2>1. IsFiniteSet(1 .. Len(q)) /\ Cardinality(1 .. Len(q)) = Len(q)
    BY <1>1, FS_Interval
  <2> QED BY <2>1, FS_Subset
<1>4. /\ \A n \in 1 .. card : Nth(S, n) \in S
      /\ \A n, m \in 1 .. card : n < m <=> Nth(S, n) < Nth(S, m)
      /\ \A i \in S : \E n \in 1 .. card : Nth(S, n) = i
  BY <1>1, NthFacts
<1> HIDE DEF card
<1>5. \A n \in 1 .. card : Nth(S, n) \in 1 .. Len(q) /\ q[Nth(S, n)] \in T
  <2> TAKE n \in 1 .. card
  <2>1. \A i \in 1 .. Len(q) : q[i] \in T
    OBVIOUS
  <2>2. Nth(S, n) \in 1 .. Len(q)
    BY <1>4
  <2> QED BY <2>1, <2>2
<1>6. \A n, m \in 1 .. card : Nth(S, n) = Nth(S, m) => n = m
  <2> TAKE n, m \in 1 .. card
  <2>1. Nth(S, n) \in Int /\ Nth(S, m) \in Int
    BY <1>5
  <2> QED BY <1>4, <2>1
<1>7. Selected(q, S) = [n \in 1 .. card |-> q[Nth(S, n)]]
  BY DEF Selected, card
<1>8. Selected(q, S) \in Seq(T) /\ Len(Selected(q, S)) = card
  BY <1>2, <1>5, <1>7
<1>9. \A n \in 1 .. card : Nth(S, n) \in S /\ Selected(q, S)[n] = q[Nth(S, n)]
  BY <1>4, <1>7
<1> QED BY <1>2, <1>3, <1>4, <1>6, <1>8, <1>9 DEF card

\* A sequence that repeats nothing is as long as its set.
LEMMA DistinctCardinality ==
  ASSUME NEW S, NEW q \in Seq(S), Distinct(q)
  PROVE  IsFiniteSet(ToSet(q)) /\ Cardinality(ToSet(q)) = Len(q)
<1> DEFINE n == Len(q)
<1>1. n \in Nat /\ q \in [1 .. n -> S]
  OBVIOUS
<1>2. ToSet(q) = {q[i] : i \in 1 .. n}
  BY QueueSet
<1>3. q \in Bijection(1 .. n, ToSet(q))
  BY <1>1, <1>2 DEF Distinct, Bijection, Injection, Surjection, IsInjective
<1>4. IsFiniteSet(1 .. n) /\ Cardinality(1 .. n) = n
  BY <1>1, FS_Interval
<1>5. ExistsBijection(1 .. n, ToSet(q))
  BY <1>3 DEF ExistsBijection
<1> HIDE DEF n
<1>6. IsFiniteSet(ToSet(q)) /\ Cardinality(ToSet(q)) = Cardinality(1 .. n)
  BY <1>4, <1>5, FS_Bijection
<1> QED BY <1>4, <1>6 DEF n

-----------------------------------------------------------------------------
(* Positions modulo a size *)

LEMMA ModDef ==
  ASSUME NEW Q \in Nat \ {0}, NEW x \in Nat
  PROVE  (x % Q) \in 0 .. Q - 1 /\ \E k \in Nat : x = k * Q + (x % Q)
<1>1. (x % Q) \in 0 .. Q - 1 /\ (x \div Q) \in Int /\ x = (x \div Q) * Q + (x % Q)
  OBVIOUS
<1>2. (x \div Q) \in Nat
  OBVIOUS
<1> QED BY <1>1, <1>2

\* The only remainder.
LEMMA ModUnique ==
  ASSUME NEW Q \in Nat \ {0}, NEW r \in 0 .. Q - 1, NEW k \in Int, NEW x \in Int, x = k * Q + r
  PROVE  x % Q = r
OBVIOUS

LEMMA ModPlus ==
  ASSUME NEW Q \in Nat \ {0}, NEW x \in Nat, NEW k \in Int, NEW y \in Nat, y = x + k * Q
  PROVE  y % Q = x % Q
<1>1. PICK j \in Nat : x = j * Q + (x % Q)
  BY ModDef
<1>2. (x % Q) \in 0 .. Q - 1
  BY ModDef
<1> DEFINE r == x % Q
           m == j + k
<1>3. y = m * Q + r /\ m \in Int /\ r \in 0 .. Q - 1
  BY <1>1, <1>2
<1>4. y \in Int
  OBVIOUS
<1>5. ASSUME NEW rr \in 0 .. Q - 1, NEW mm \in Int, y = mm * Q + rr
      PROVE  y % Q = rr
  BY ONLY Q \in Nat \ {0}, <1>4, <1>5, ModUnique
<1> HIDE DEF r, m
<1>6. y % Q = r
  BY <1>3, <1>5
<1> QED BY <1>6 DEF r

\* A number and one less than Q further on have different remainders.
LEMMA ModApart ==
  ASSUME NEW Q \in Nat \ {0}, NEW x \in Nat, NEW d \in 1 .. Q - 1
  PROVE  (x + d) % Q # x % Q
<1> SUFFICES ASSUME (x + d) % Q = x % Q PROVE FALSE
  OBVIOUS
<1>1. PICK j \in Nat : x = j * Q + (x % Q)
  BY ModDef
<1> DEFINE y == x + d
<1>12. y \in Nat
  OBVIOUS
<1> HIDE DEF y
<1>13. \E k \in Nat : y = k * Q + (y % Q)
  BY <1>12, ModDef
<1>2. PICK k \in Nat : x + d = k * Q + ((x + d) % Q)
  BY <1>13 DEF y
<1>3. (x % Q) \in 0 .. Q - 1
  BY ModDef
<1>4. d = (k - j) * Q /\ k - j \in Int
  BY <1>1, <1>2, <1>3
<1>5. k - j >= 1
  BY <1>4
<1> QED BY <1>4, <1>5

\* A span that is a multiple of Q.
LEMMA ModOfMod ==
  ASSUME NEW Q \in Nat \ {0}, NEW Span \in Nat \ {0}, (Span % Q) = 0
  PROVE  \A x, i \in Nat : (((x % Span) + i) % Q) = ((x + i) % Q)
<1> TAKE x, i \in Nat
<1>1. PICK j \in Nat : x = j * Span + (x % Span)
  BY ModDef
<1>2. (x % Span) \in 0 .. Span - 1
  BY ModDef
<1>3. PICK k \in Nat : Span = k * Q + (Span % Q)
  BY ModDef
<1>4. Span = k * Q
  BY <1>3
<1>5. x + i = ((x % Span) + i) + (j * k) * Q /\ j * k \in Int
  BY <1>1, <1>2, <1>4
<1> DEFINE low == (x % Span) + i
<1>6. low \in Nat /\ x + i \in Nat /\ x + i = low + (j * k) * Q
  BY <1>2, <1>5
<1> HIDE DEF low
<1>7. (x + i) % Q = low % Q
  BY <1>5, <1>6, ModPlus
<1> QED BY <1>7 DEF low

\* Counters that wrap: how far it is from one to another.
LEMMA WrapFacts ==
  ASSUME NEW Span \in Nat \ {0}, NEW from \in 0 .. Span - 1, NEW to \in 0 .. Span - 1
  PROVE  /\ ((to + Span - from) % Span) \in 0 .. Span - 1
         /\ ((from + ((to + Span - from) % Span)) % Span) = to
<1> DEFINE d == (to + Span - from) % Span
<1>1. CASE from <= to
  <2>1. d = to - from
    <3>1. to + Span - from = 1 * Span + (to - from) /\ to - from \in 0 .. Span - 1
          /\ to + Span - from \in Int
      BY <1>1
    <3> QED BY <3>1, ModUnique
  <2>2. from + d = 0 * Span + to /\ from + d \in Int
    BY <2>1
  <2>3. (from + d) % Span = to
    <3> HIDE DEF d
    <3> QED BY <2>2, ModUnique
  <2> QED BY <1>1, <2>1, <2>3
<1>2. CASE ~(from <= to)
  <2>1. d = to + Span - from
    <3>1. to + Span - from = 0 * Span + (to + Span - from)
          /\ to + Span - from \in 0 .. Span - 1
      BY <1>2
    <3> QED BY <3>1, ModUnique
  <2>2. from + d = 1 * Span + to /\ from + d \in Int
    BY <2>1
  <2>3. (from + d) % Span = to
    <3> HIDE DEF d
    <3> QED BY <2>2, ModUnique
  <2> QED BY <1>2, <2>1, <2>3
<1> QED BY <1>1, <1>2

LEMMA ModSelf ==
  ASSUME NEW Q \in Nat \ {0}
  PROVE  /\ (Q % Q) = 0
         /\ \A x, i \in Nat : (((x % Q) + i) % Q) = ((x + i) % Q)
<1>1. Q = 1 * Q + 0 /\ 0 \in 0 .. Q - 1 /\ Q \in Int
  OBVIOUS
<1>2. (Q % Q) = 0
  BY <1>1, ModUnique
<1> QED BY <1>2, ModOfMod

LEMMA WrapLength ==
  ASSUME NEW Span \in Nat \ {0}, NEW from \in 0 .. Span - 1
  PROVE  \A n \in 0 .. Span - 1 : ((((from + n) % Span) + (Span - from)) % Span) = n
<1> TAKE n \in 0 .. Span - 1
<1> DEFINE to == (from + n) % Span
<1>1. CASE from + n < Span
  <2>1. to = from + n
    <3>1. from + n = 0 * Span + (from + n) /\ from + n \in 0 .. Span - 1
      BY <1>1
    <3> QED BY <3>1, ModUnique
  <2>2. to + Span - from = 1 * Span + n /\ to + Span - from \in Int
    BY <2>1
  <2> HIDE DEF to
  <2>3. (to + Span - from) % Span = n
    BY <2>2, ModUnique
  <2> QED BY <2>3 DEF to
<1>2. CASE ~(from + n < Span)
  <2>1. to = from + n - Span
    <3>1. from + n = 1 * Span + (from + n - Span) /\ from + n - Span \in 0 .. Span - 1
      BY <1>2
    <3> QED BY <3>1, ModUnique
  <2>2. to + Span - from = 0 * Span + n /\ to + Span - from \in Int
    BY <2>1
  <2> HIDE DEF to
  <2>3. (to + Span - from) % Span = n
    BY <2>2, ModUnique
  <2> QED BY <2>3 DEF to
<1> QED BY <1>1, <1>2

\* The ring of a size from a slot on, n entries of it.
Ring(slots, size, head, n) == [i \in 1 .. n |-> slots[(head + i - 1) % size]]

RingEnd(size, head, n) == (head + n) % size
RingNext(size, head) == (head + 1) % size
RingWith(slots, size, head, n, b) == [slots EXCEPT ![RingEnd(size, head, n)] = b]

LEMMA RingSeq ==
  ASSUME NEW S, NEW size \in Nat \ {0}, NEW slots \in [0 .. size - 1 -> S],
         NEW head \in 0 .. size - 1, NEW n \in Nat
  PROVE  Ring(slots, size, head, n) \in Seq(S) /\ Len(Ring(slots, size, head, n)) = n
<1>1. ASSUME NEW i \in 1 .. n
      PROVE  slots[(head + i - 1) % size] \in S
  <2> DEFINE x == head + i - 1
  <2>1. x \in Nat
    OBVIOUS
  <2> HIDE DEF x
  <2>2. (x % size) \in 0 .. size - 1
    BY <2>1, ModDef
  <2>3. slots[x % size] \in S
    BY <2>2
  <2> QED BY <2>3 DEF x
<1> QED BY <1>1 DEF Ring

\* A byte is put behind the last one.
LEMMA RingPush ==
  ASSUME NEW S, NEW size \in Nat \ {0}, NEW slots \in [0 .. size - 1 -> S],
         NEW head \in 0 .. size - 1, NEW n \in Nat, n < size, NEW b \in S
  PROVE  Ring(RingWith(slots, size, head, n, b), size, head, n + 1)
           = Append(Ring(slots, size, head, n), b)
<1> DEFINE at == (head + n) % size
           later == [slots EXCEPT ![at] = b]
           before == Ring(slots, size, head, n)
           after == Ring(later, size, head, n + 1)
<1>1. at \in 0 .. size - 1
  <2> DEFINE x == head + n
  <2>1. x \in Nat
    OBVIOUS
  <2> HIDE DEF x
  <2>2. (x % size) \in 0 .. size - 1
    BY <2>1, ModDef
  <2> QED BY <2>2 DEF x
<1>2. later \in [0 .. size - 1 -> S] /\ later[at] = b
      /\ \A s \in 0 .. size - 1 : s # at => later[s] = slots[s]
  BY <1>1
<1>3. /\ before \in Seq(S) /\ Len(before) = n
      /\ \A i \in 1 .. n : before[i] = slots[(head + i - 1) % size]
  <2>1. before \in Seq(S) /\ Len(before) = n
    BY ONLY size \in Nat \ {0}, slots \in [0 .. size - 1 -> S], head \in 0 .. size - 1, n \in Nat, RingSeq
  <2>2. \A i \in 1 .. n : before[i] = slots[(head + i - 1) % size]
    BY DEF Ring
  <2> QED BY <2>1, <2>2
<1> HIDE DEF later
<1>4. /\ after \in Seq(S) /\ Len(after) = n + 1
      /\ \A i \in 1 .. n + 1 : after[i] = later[(head + i - 1) % size]
  <2> DEFINE m == n + 1
  <2>1. m \in Nat
    OBVIOUS
  <2> HIDE DEF m
  <2>2. Ring(later, size, head, m) \in Seq(S) /\ Len(Ring(later, size, head, m)) = m
    BY ONLY size \in Nat \ {0}, <1>2, head \in 0 .. size - 1, <2>1, RingSeq
  <2>3. \A i \in 1 .. m : Ring(later, size, head, m)[i] = later[(head + i - 1) % size]
    BY DEF Ring
  <2> QED BY <2>2, <2>3 DEF m
<1> HIDE DEF before, after
<1>5. after[n + 1] = b
  <2>1. head + (n + 1) - 1 = head + n /\ n + 1 \in 1 .. n + 1
    OBVIOUS
  <2>2. after[n + 1] = later[(head + (n + 1) - 1) % size]
    BY <1>4, <2>1
  <2> QED BY <1>2, <2>1, <2>2
<1>6. ASSUME NEW i \in 1 .. n
      PROVE  after[i] = before[i]
  <2> DEFINE x == head + i - 1
             g == n + 1 - i
  <2>1. x \in Nat /\ g \in 1 .. size - 1 /\ x + g = head + n
    OBVIOUS
  <2>2. after[i] = later[x % size] /\ before[i] = slots[x % size]
    BY <1>3, <1>4
  <2>3. at = (x + g) % size
    BY <2>1
  <2> HIDE DEF x, g, at
  <2>4. ((x + g) % size) # (x % size)
    BY <2>1, ModApart
  <2>5. (x % size) \in 0 .. size - 1
    BY <2>1, ModDef
  <2> QED BY <1>2, <2>2, <2>3, <2>4, <2>5
<1>7. /\ Append(before, b) \in Seq(S) /\ Len(Append(before, b)) = n + 1
      /\ Append(before, b)[n + 1] = b /\ \A i \in 1 .. n : Append(before, b)[i] = before[i]
  BY <1>3
<1> DEFINE both == Append(before, b)
<1> HIDE DEF both
<1>8. ASSUME NEW i \in 1 .. n + 1
      PROVE  after[i] = both[i]
  <2>1. CASE i = n + 1
    BY <1>5, <1>7, <2>1 DEF both
  <2>2. CASE i # n + 1
    <3>1. i \in 1 .. n
      BY <2>2
    <3> QED BY <1>6, <1>7, <3>1 DEF both
  <2> QED BY <2>1, <2>2
<1>9. after = both
  BY <1>4, <1>7, <1>8 DEF both
<1> QED BY <1>1, <1>9 DEF after, both, before, later, at, RingEnd, RingWith

\* The oldest byte is taken.
LEMMA RingPop ==
  ASSUME NEW S, NEW size \in Nat \ {0}, NEW slots \in [0 .. size - 1 -> S],
         NEW head \in 0 .. size - 1, NEW n \in Nat
  PROVE  /\ RingNext(size, head) \in 0 .. size - 1
         /\ Ring(slots, size, head, n + 1) = <<slots[head]>> \o Ring(slots, size, RingNext(size, head), n)
         /\ RingEnd(size, RingNext(size, head), n) = RingEnd(size, head, n + 1)
<1> DEFINE next == (head + 1) % size
           before == Ring(slots, size, head, n + 1)
           after == Ring(slots, size, next, n)
<1>0. \A xx, ii \in Nat : (((xx % size) + ii) % size) = ((xx + ii) % size)
  BY ModSelf
<1> DEFINE x == head + 1
<1>1. x \in Nat
  OBVIOUS
<1>2. next = (x % size)
  OBVIOUS
<1> HIDE DEF x, next
<1>3. next \in 0 .. size - 1
  BY <1>1, <1>2, ModDef
<1>4. /\ after \in Seq(S) /\ Len(after) = n
      /\ \A i \in 1 .. n : after[i] = slots[(next + i - 1) % size]
  <2>1. after \in Seq(S) /\ Len(after) = n
    BY <1>3, RingSeq
  <2>2. \A i \in 1 .. n : after[i] = slots[(next + i - 1) % size]
    BY DEF Ring
  <2> QED BY <2>1, <2>2
<1>5. /\ before \in Seq(S) /\ Len(before) = n + 1
      /\ \A i \in 1 .. n + 1 : before[i] = slots[(head + i - 1) % size]
  <2> DEFINE m == n + 1
  <2>1. m \in Nat
    OBVIOUS
  <2> HIDE DEF m
  <2>2. Ring(slots, size, head, m) \in Seq(S) /\ Len(Ring(slots, size, head, m)) = m
    BY <2>1, RingSeq
  <2>3. \A i \in 1 .. m : Ring(slots, size, head, m)[i] = slots[(head + i - 1) % size]
    BY DEF Ring
  <2> QED BY <2>2, <2>3 DEF m
<1> HIDE DEF before, after
<1>6. before[1] = slots[head] /\ slots[head] \in S
  <2>1. head + 1 - 1 = head /\ 1 \in 1 .. n + 1
    OBVIOUS
  <2>2. (head % size) = head
    <3>1. head = 0 * size + head /\ head \in Int
      OBVIOUS
    <3> QED BY <3>1, ModUnique
  <2>3. before[1] = slots[(head + 1 - 1) % size]
    BY <1>5, <2>1
  <2> QED BY <2>1, <2>2, <2>3
<1>7. ASSUME NEW i \in 1 .. n
      PROVE  before[i + 1] = after[i]
  <2> DEFINE j == i - 1
  <2>1. j \in Nat /\ next + j = next + i - 1 /\ x + j = head + (i + 1) - 1 /\ i + 1 \in 1 .. n + 1
    BY <1>3 DEF x
  <2>2. (((x % size) + j) % size) = ((x + j) % size)
    BY <1>0, <1>1, <2>1
  <2>3. before[i + 1] = slots[(head + (i + 1) - 1) % size]
    BY <1>5, <2>1
  <2>4. after[i] = slots[(next + i - 1) % size]
    BY <1>4
  <2>5. (next + j) % size = (x + j) % size
    BY <1>2, <2>2
  <2> HIDE DEF j
  <2> QED BY <2>1, <2>3, <2>4, <2>5
<1> DEFINE one == <<slots[head]>>
           both == one \o after
<1>8. one \in Seq(S) /\ Len(one) = 1 /\ one[1] = slots[head]
  BY <1>6
<1> HIDE DEF one
<1>9. /\ both \in Seq(S) /\ Len(both) = 1 + n
      /\ \A i \in 1 .. 1 + n : both[i] = IF i <= 1 THEN one[i] ELSE after[i - 1]
  BY <1>4, <1>8, ConcatProperties
<1> HIDE DEF both
<1>10. ASSUME NEW i \in 1 .. n + 1
       PROVE  before[i] = both[i]
  <2>1. CASE i = 1
    BY <1>6, <1>8, <1>9, <2>1
  <2>2. CASE i # 1
    <3> DEFINE k == i - 1
    <3>1. k \in 1 .. n /\ i = k + 1
      BY <2>2
    <3>2. both[i] = after[k]
      BY <1>9, <2>2
    <3> HIDE DEF k
    <3> QED BY <1>7, <3>1, <3>2
  <2> QED BY <2>1, <2>2
<1>11. before = both
  BY <1>5, <1>9, <1>10
<1>12. (next + n) % size = (head + (n + 1)) % size
  <2>1. (((x % size) + n) % size) = ((x + n) % size)
    BY <1>0, <1>1
  <2>2. x + n = head + (n + 1)
    BY DEF x
  <2> QED BY <1>2, <2>1, <2>2
<1> QED BY <1>3, <1>11, <1>12 DEF before, after, both, one, next, RingNext, RingEnd

-----------------------------------------------------------------------------
(* Loops *)

\* f is what the first n rounds make of d, G[i] being the i-th.
Orbit(f, n, d, G) == \A i \in 0 .. n : f[i] = IF i = 0 THEN d ELSE G[i][f[i - 1]]

\* The rounds of a loop exist, however many.
LEMMA Iterates ==
  ASSUME NEW S, NEW G \in [Nat -> [S -> S]], NEW d \in S
  PROVE  \A n \in Nat : \E f \in [0 .. n -> S] : Orbit(f, n, d, G)
<1> DEFINE Bad == {n \in Nat : ~ \E f \in [0 .. n -> S] : Orbit(f, n, d, G)}
<1>1. SUFFICES ASSUME Bad # {} PROVE FALSE
  OBVIOUS
<1>2. PICK x \in Bad : \A y \in Bad : x <= y
  BY <1>1, LeastOf
<1>3. CASE x = 0
  <2> DEFINE f == [i \in 0 .. 0 |-> d]
  <2>1. f \in [0 .. 0 -> S] /\ \A i \in 0 .. 0 : i = 0 /\ f[i] = d
    OBVIOUS
  <2>2. Orbit(f, 0, d, G)
    BY <2>1 DEF Orbit
  <2> QED BY <1>2, <1>3, <2>1, <2>2
<1>4. CASE x # 0
  <2>1. x \in Nat /\ x - 1 \in Nat /\ x - 1 < x /\ x - 1 \notin Bad
    <3>1. Bad \subseteq Nat
      OBVIOUS
    <3> HIDE DEF Bad
    <3> QED BY <1>2, <1>4, <3>1
  <2>2. PICK f \in [0 .. x - 1 -> S] : Orbit(f, x - 1, d, G)
    BY <2>1
  <2> DEFINE g == [i \in 0 .. x |-> IF i = x THEN G[x][f[x - 1]] ELSE f[i]]
  <2>3. G[x][f[x - 1]] \in S
    BY <2>1, <2>2
  <2>4. g \in [0 .. x -> S]
    BY <2>1, <2>2, <2>3
  <2>5. ASSUME NEW i \in 0 .. x PROVE g[i] = IF i = 0 THEN d ELSE G[i][g[i - 1]]
    <3>1. CASE i = x
      BY <1>4, <2>1, <3>1
    <3>2. CASE i # x
      <4>1. i \in 0 .. x - 1 /\ g[i] = f[i] /\ (i # 0 => i - 1 \in 0 .. x - 1 /\ g[i - 1] = f[i - 1])
        BY <2>1, <3>2
      <4> QED BY <2>2, <4>1 DEF Orbit
    <3> QED BY <3>1, <3>2
  <2>6. Orbit(g, x, d, G)
    BY ONLY <2>5 DEF Orbit
  <2> QED BY <1>2, <2>1, <2>4, <2>6
<1> QED BY <1>3, <1>4
=============================================================================
