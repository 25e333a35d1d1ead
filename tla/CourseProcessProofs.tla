------------------------- MODULE CourseProcessProofs -------------------------
(***************************************************************************)
(* Proofs about CourseProcess, for every size of the table, of a process   *)
(* and of the page pool.  The operations work on a table value, and so do  *)
(* the lemmas: a table that satisfies TableInv is made another one by      *)
(* every operation the kernel performs on it.                              *)
(***************************************************************************)
EXTENDS CourseProcess, QueueLemmas, FiniteSetTheorems, FunctionTheorems, TLAPS

USE ProcessAssumption

Positions == Slots \X UserPages

RefAt(t, r) == t.procs[r[1]].refs[r[2]]

Page == [refcount : Nat \ {0}, data : Values]

\* Types; page ids and pids are handed out upwards.
TableTypes(t) ==
  /\ t = [procs |-> t.procs, pages |-> t.pages, nextPid |-> t.nextPid, nextPage |-> t.nextPage]
  /\ t.procs \in [Slots -> Process]
  /\ t.nextPid \in 1 .. MaxPid + 1 /\ t.nextPage \in 1 .. MaxPageId + 1
  /\ t.pages \in [DOMAIN t.pages -> Page]
  /\ DOMAIN t.pages \subseteq 1 .. t.nextPage - 1
  /\ Cardinality(DOMAIN t.pages) <= MaxCowPages

\* A pid names one slot, and the next one none.
PidsNameSlots(t) ==
  /\ \A s \in Slots : t.procs[s].pid < t.nextPid
  /\ \A s \in Slots : t.procs[s].state # "UNUSED" => t.procs[s].pid # 0
  /\ \A s, r \in Slots : t.procs[s].pid = t.procs[r].pid /\ t.procs[s].pid # 0 => s = r

\* Entries name pages that exist, counts are exact, a writable entry is the only one of its
\* page and is not marked copy-on-write, and a slot that can be handed out holds nothing.
RefsCounted(t) ==
  /\ \A r \in Positions : RefAt(t, r).id # 0 => RefAt(t, r).id \in DOMAIN t.pages
  /\ \A k \in DOMAIN t.pages : t.pages[k].refcount = Cardinality(RefsTo(t, k))
  /\ \A r \in Positions : RefAt(t, r).writable =>
       /\ RefAt(t, r).id # 0 /\ ~RefAt(t, r).cow
       /\ \A q \in Positions : RefAt(t, q).id = RefAt(t, r).id => q = r
  /\ \A s \in FreeSlots(t) : t.procs[s].refs = [i \in UserPages |-> NoRef]

TableInv(t) == TableTypes(t) /\ PidsNameSlots(t) /\ RefsCounted(t)

-----------------------------------------------------------------------------
(* Finite sets *)

LEMMA RefsFinite ==
  ASSUME NEW t, NEW k
  PROVE  IsFiniteSet(RefsTo(t, k)) /\ RefsTo(t, k) \subseteq Positions
<1>1. IsFiniteSet(Slots) /\ IsFiniteSet(UserPages)
  BY FS_Interval DEF Slots, UserPages
<1>2. IsFiniteSet(Slots \X UserPages)
  BY <1>1, FS_Product
<1>3. RefsTo(t, k) \subseteq Slots \X UserPages
  BY DEF RefsTo
<1> QED BY <1>2, <1>3, FS_Subset DEF Positions

\* The entries of one slot are as many as their indices.
LEMMA RowCardinality ==
  ASSUME NEW s \in Slots, NEW I \in SUBSET UserPages, NEW Row \in SUBSET Positions,
         \A r \in Positions : r \in Row <=> r[1] = s /\ r[2] \in I
  PROVE  IsFiniteSet(Row) /\ Cardinality(Row) = Cardinality(I) /\ Cardinality(I) \in Nat
<1> DEFINE f == [i \in I |-> <<s, i>>]
<1>1. IsFiniteSet(I) /\ Cardinality(I) \in Nat
  <2>1. IsFiniteSet(UserPages)
    BY FS_Interval DEF UserPages
  <2>2. IsFiniteSet(I)
    BY <2>1, FS_Subset
  <2> QED BY <2>2, FS_CardinalityType
<1>2. f \in Bijection(I, Row)
  <2>1. \A i \in I : f[i] \in Row
    BY DEF Positions
  <2>2. \A i, j \in I : f[i] = f[j] => i = j
    OBVIOUS
  <2>3. \A r \in Row : \E i \in I : f[i] = r
    <3> TAKE r \in Row
    <3>1. r[1] = s /\ r[2] \in I /\ r = <<r[1], r[2]>>
      BY DEF Positions
    <3> QED BY <3>1
  <2> QED BY <2>1, <2>2, <2>3, Fun_IsBij
<1>3. ExistsBijection(I, Row)
  BY <1>2 DEF ExistsBijection
<1> QED BY <1>1, <1>3, FS_Bijection

-----------------------------------------------------------------------------
(* Slots *)

LEMMA LeastSlot ==
  ASSUME NEW S \in SUBSET Slots, S # {}
  PROVE  (CHOOSE s \in S : \A r \in S : s <= r) \in S
<1>1. S \in SUBSET Nat
  BY DEF Slots
<1>2. \E s \in S : \A r \in S : s <= r
  BY <1>1, LeastOf
<1> QED BY <1>2

\* A pid that is found is found where it is.
LEMMA SlotFacts ==
  ASSUME NEW t, TableInv(t), NEW pid \in Pids, SlotOf(t, pid) # 0
  PROVE  /\ SlotOf(t, pid) \in Slots
         /\ t.procs[SlotOf(t, pid)].pid = pid
         /\ t.procs[SlotOf(t, pid)].state # "UNUSED"
         /\ \A s \in Slots : t.procs[s].pid = pid => s = SlotOf(t, pid)
<1> DEFINE found == {s \in Slots : t.procs[s].state # "UNUSED" /\ t.procs[s].pid = pid}
<1>1. found # {} /\ SlotOf(t, pid) = CHOOSE s \in found : \A r \in found : s <= r
  BY DEF SlotOf, Pids
<1>2. found \in SUBSET Slots
  OBVIOUS
<1>3. SlotOf(t, pid) \in found
  BY <1>1, <1>2, LeastSlot
<1>4. \A r \in Slots : t.procs[r].pid = pid => r = SlotOf(t, pid)
  BY <1>3 DEF TableInv, PidsNameSlots, Pids
<1> QED BY <1>3, <1>4

\* A pid that is not found has no slot but unused ones.
LEMMA NoSlot ==
  ASSUME NEW t, NEW pid \in Pids
  PROVE  SlotOf(t, pid) = 0 <=>
           \A s \in Slots : t.procs[s].pid = pid => t.procs[s].state = "UNUSED"
<1> DEFINE found == {s \in Slots : t.procs[s].state # "UNUSED" /\ t.procs[s].pid = pid}
<1>1. CASE found = {}
  BY <1>1 DEF SlotOf
<1>2. CASE found # {}
  <2>1. SlotOf(t, pid) = CHOOSE s \in found : \A r \in found : s <= r
    BY <1>2 DEF SlotOf, Pids
  <2>2. found \in SUBSET Slots
    OBVIOUS
  <2>3. SlotOf(t, pid) \in found
    BY <1>2, <2>1, <2>2, LeastSlot
  <2> QED BY <2>3 DEF Slots
<1> QED BY <1>1, <1>2

\* Where a process stands is where its pid says.
LEMMA SlotOfPid ==
  ASSUME NEW t, TableInv(t), NEW s \in Slots, t.procs[s].state # "UNUSED",
         t.procs[s].pid \in Pids
  PROVE  SlotOf(t, t.procs[s].pid) = s
BY NoSlot, SlotFacts

LEMMA SpawnSlotFacts ==
  ASSUME NEW t, FreeSlots(t) # {}
  PROVE  SpawnSlot(t) \in FreeSlots(t) /\ SpawnSlot(t) \in Slots
<1>1. FreeSlots(t) \in SUBSET Slots
  BY DEF FreeSlots
<1>2. SpawnSlot(t) \in FreeSlots(t)
  BY <1>1, LeastSlot DEF SpawnSlot
<1> QED BY <1>2 DEF FreeSlots

LEMMA LiveSlot ==
  ASSUME NEW t, TableInv(t), NEW pid \in Pids, IsLive(t, pid)
  PROVE  /\ SlotOf(t, pid) \in Slots /\ SlotOf(t, pid) # 0
         /\ t.procs[SlotOf(t, pid)].state \in Live
         /\ t.procs[SlotOf(t, pid)].pid = pid
         /\ SlotOf(t, pid) \notin FreeSlots(t)
<1>1. SlotOf(t, pid) # 0 /\ t.procs[SlotOf(t, pid)].state \in Live
  BY DEF IsLive, StateOf, Live
<1> QED BY <1>1, SlotFacts DEF FreeSlots, Live

-----------------------------------------------------------------------------
(* Operations *)

\* A state is written to a slot.
StateSet(t, s, state) == [t EXCEPT !.procs[s].state = state]

StateSetTo(t, s, state, u) ==
  /\ u = [procs |-> u.procs, pages |-> t.pages, nextPid |-> t.nextPid, nextPage |-> t.nextPage]
  /\ u.procs = [r \in Slots |-> IF r = s THEN [t.procs[s] EXCEPT !.state = state] ELSE t.procs[r]]
  /\ \A r \in Slots : /\ u.procs[r].pid = t.procs[r].pid
                      /\ u.procs[r].ppid = t.procs[r].ppid
                      /\ u.procs[r].refs = t.procs[r].refs
                      /\ u.procs[r].state = IF r = s THEN state ELSE t.procs[r].state

LEMMA SetStateFields ==
  ASSUME NEW t, TableInv(t), NEW s \in Slots, NEW state, NEW u, u = StateSet(t, s, state)
  PROVE  StateSetTo(t, s, state, u)
<1>1. t = [procs |-> t.procs, pages |-> t.pages, nextPid |-> t.nextPid, nextPage |-> t.nextPage]
  BY DEF TableInv, TableTypes
<1>2. t.procs \in [Slots -> Process]
  BY DEF TableInv, TableTypes
<1>3. u = [procs |-> [t.procs EXCEPT ![s].state = state], pages |-> t.pages,
           nextPid |-> t.nextPid, nextPage |-> t.nextPage]
  BY <1>1 DEF StateSet
<1>4. u.procs = [r \in Slots |-> IF r = s THEN [t.procs[s] EXCEPT !.state = state] ELSE t.procs[r]]
  BY <1>2, <1>3
<1>5. \A r \in Slots : t.procs[r] = [pid |-> t.procs[r].pid, ppid |-> t.procs[r].ppid,
                                     state |-> t.procs[r].state, refs |-> t.procs[r].refs]
  BY <1>2 DEF Process
<1>6. u = [procs |-> u.procs, pages |-> t.pages, nextPid |-> t.nextPid, nextPage |-> t.nextPage]
  BY <1>3
<1>7. \A r \in Slots : u.procs[r].pid = t.procs[r].pid /\ u.procs[r].ppid = t.procs[r].ppid
                       /\ u.procs[r].refs = t.procs[r].refs
                       /\ u.procs[r].state = IF r = s THEN state ELSE t.procs[r].state
  BY <1>4, <1>5
<1> QED BY <1>4, <1>6, <1>7 DEF StateSetTo

\* A state is written to a used slot, which is not given back by that.
LEMMA SetStatePreserves ==
  ASSUME NEW t, TableInv(t), NEW s \in Slots, t.procs[s].state # "UNUSED",
         NEW state \in {"READY", "RUNNING", "BLOCKED", "ZOMBIE"},
         NEW u, u = StateSet(t, s, state)
  PROVE  TableInv(u)
<1>1. StateSetTo(t, s, state, u)
  BY SetStateFields
<1>2. u.pages = t.pages /\ u.nextPid = t.nextPid /\ u.nextPage = t.nextPage
  BY <1>1 DEF StateSetTo
<1>3. TableTypes(u)
  <2>1. t.procs \in [Slots -> Process]
    BY DEF TableInv, TableTypes
  <2>2. [t.procs[s] EXCEPT !.state = state] \in Process
    BY <2>1 DEF Process, States
  <2>3. u.procs \in [Slots -> Process]
    BY <1>1, <2>1, <2>2 DEF StateSetTo
  <2>4. u = [procs |-> u.procs, pages |-> u.pages, nextPid |-> u.nextPid, nextPage |-> u.nextPage]
    BY <1>1, <1>2 DEF StateSetTo
  <2> QED BY <1>2, <2>3, <2>4 DEF TableInv, TableTypes
<1>4. PidsNameSlots(u)
  BY <1>1, <1>2 DEF TableInv, PidsNameSlots, StateSetTo
<1>5. RefsCounted(u)
  <2>1. \A r \in Positions : RefAt(u, r) = RefAt(t, r)
    BY <1>1 DEF RefAt, Positions, StateSetTo
  <2>2. \A k : RefsTo(u, k) = RefsTo(t, k)
    BY <2>1 DEF RefsTo, RefAt, Positions
  <2>3. FreeSlots(u) \subseteq FreeSlots(t)
    BY <1>1 DEF FreeSlots, StateSetTo
  <2>4. \A r \in FreeSlots(u) : u.procs[r].refs = t.procs[r].refs
    BY <1>1 DEF FreeSlots, StateSetTo
  <2> QED BY <1>2, <2>1, <2>2, <2>3, <2>4 DEF TableInv, RefsCounted
<1> QED BY <1>3, <1>4, <1>5 DEF TableInv

LEMMA PagesFinite ==
  ASSUME NEW t, TableInv(t)
  PROVE  IsFiniteSet(DOMAIN t.pages) /\ Cardinality(DOMAIN t.pages) \in Nat
<1>1. t.nextPage - 1 \in Int /\ DOMAIN t.pages \subseteq 1 .. t.nextPage - 1
  BY DEF TableInv, TableTypes
<1>2. IsFiniteSet(1 .. t.nextPage - 1)
  BY <1>1, FS_Interval
<1> QED BY <1>1, <1>2, FS_Subset, FS_CardinalityType

\* Entries of one slot that name a page.
Row(t, s, k) == {i \in UserPages : t.procs[s].refs[i].id = k}

LEMMA ReleasedCount ==
  ASSUME NEW t, NEW u, NEW s \in Slots, NEW k, k # 0,
         \A r \in Positions : RefAt(u, r).id = IF r[1] = s THEN 0 ELSE RefAt(t, r).id
  PROVE  /\ Cardinality(RefsTo(u, k)) = Cardinality(RefsTo(t, k)) - Cardinality(Row(t, s, k))
         /\ Cardinality(RefsTo(u, k)) \in Nat /\ Cardinality(RefsTo(t, k)) \in Nat
         /\ Cardinality(Row(t, s, k)) \in Nat
<1> DEFINE row == {r \in Positions : r[1] = s /\ r[2] \in Row(t, s, k)}
<1>1. Row(t, s, k) \in SUBSET UserPages
  BY DEF Row
<1>2. Cardinality(row) = Cardinality(Row(t, s, k)) /\ Cardinality(Row(t, s, k)) \in Nat
  BY <1>1, RowCardinality
<1>3. row \subseteq RefsTo(t, k)
  BY DEF Row, RefsTo, Positions
<1>4. RefsTo(u, k) = RefsTo(t, k) \ row
  <2>1. \A r \in Positions : r \in RefsTo(u, k) <=> RefAt(u, r).id = k
    BY DEF RefsTo, RefAt, Positions
  <2>2. \A r \in Positions : r \in RefsTo(t, k) <=> RefAt(t, r).id = k
    BY DEF RefsTo, RefAt, Positions
  <2>3. \A r \in Positions : r \in row <=> r[1] = s /\ RefAt(t, r).id = k
    BY DEF Row, RefAt, Positions
  <2> HIDE DEF row
  <2> QED BY <2>1, <2>2, <2>3, RefsFinite
<1>5. RefsTo(t, k) \cap row = row
  BY <1>3
<1> HIDE DEF row
<1>6. Cardinality(RefsTo(u, k)) = Cardinality(RefsTo(t, k)) - Cardinality(row)
  BY <1>4, <1>5, RefsFinite, FS_Difference
<1> QED BY <1>2, <1>6, RefsFinite, FS_CardinalityType

\* What releasing the pages of a slot leaves.
ReleasedTo(t, s, u) ==
  /\ u = [procs |-> u.procs, pages |-> u.pages, nextPid |-> t.nextPid, nextPage |-> t.nextPage]
  /\ u.procs \in [Slots -> Process]
  /\ \A r \in Slots : /\ u.procs[r].pid = t.procs[r].pid
                      /\ u.procs[r].ppid = t.procs[r].ppid
                      /\ u.procs[r].state = t.procs[r].state
                      /\ r # s => u.procs[r].refs = t.procs[r].refs
  /\ u.procs[s].refs = [i \in UserPages |-> NoRef]
  /\ \A k : k \in DOMAIN u.pages <=>
       k \in DOMAIN t.pages /\ t.pages[k].refcount - Cardinality(Row(t, s, k)) > 0
  /\ u.pages = [k \in DOMAIN u.pages |->
       [t.pages[k] EXCEPT !.refcount = t.pages[k].refcount - Cardinality(Row(t, s, k))]]

LEMMA ReleasedFields ==
  ASSUME NEW t, TableInv(t), NEW s \in Slots, NEW u, u = Released(t, s)
  PROVE  ReleasedTo(t, s, u)
<1> DEFINE kept == {k \in DOMAIN t.pages : t.pages[k].refcount - Cardinality(Row(t, s, k)) > 0}
           pages == [k \in kept |->
              [t.pages[k] EXCEPT !.refcount = t.pages[k].refcount - Cardinality(Row(t, s, k))]]
           none == [i \in UserPages |-> NoRef]
<1>1. t = [procs |-> t.procs, pages |-> t.pages, nextPid |-> t.nextPid, nextPage |-> t.nextPage]
  BY DEF TableInv, TableTypes
<1>2. t.procs \in [Slots -> Process]
  BY DEF TableInv, TableTypes
<1>3. u = [t EXCEPT !.procs[s].refs = none, !.pages = pages]
  BY DEF Released, Row
<1> HIDE DEF pages, none
<1>4. u = [procs |-> [t.procs EXCEPT ![s].refs = none], pages |-> pages,
           nextPid |-> t.nextPid, nextPage |-> t.nextPage]
  BY <1>1, <1>3
<1>5. u.procs = [r \in Slots |-> IF r = s THEN [t.procs[s] EXCEPT !.refs = none] ELSE t.procs[r]]
  BY <1>2, <1>4
<1>6. none \in [UserPages -> Ref]
  BY DEF none, NoRef, Ref
<1>7. \A r \in Slots : t.procs[r] = [pid |-> t.procs[r].pid, ppid |-> t.procs[r].ppid,
                                     state |-> t.procs[r].state, refs |-> t.procs[r].refs]
  BY <1>2 DEF Process
<1>8. [t.procs[s] EXCEPT !.refs = none] \in Process
  BY <1>2, <1>6 DEF Process
<1>9. u.procs \in [Slots -> Process]
  BY <1>2, <1>5, <1>8
<1>10. u.procs[s].refs = none
  BY <1>5, <1>7
<1>11. \A r \in Slots : /\ u.procs[r].pid = t.procs[r].pid
                        /\ u.procs[r].ppid = t.procs[r].ppid
                        /\ u.procs[r].state = t.procs[r].state
                        /\ r # s => u.procs[r].refs = t.procs[r].refs
  BY <1>5, <1>7
<1>12. u = [procs |-> u.procs, pages |-> u.pages, nextPid |-> t.nextPid, nextPage |-> t.nextPage]
  BY <1>4
<1>13. u.pages = pages /\ DOMAIN pages = kept
  BY <1>4 DEF pages
<1> QED BY <1>9, <1>10, <1>11, <1>12, <1>13 DEF pages, none, ReleasedTo

LEMMA ReleasedPreserves ==
  ASSUME NEW t, TableInv(t), NEW s \in Slots, NEW u, u = Released(t, s)
  PROVE  TableInv(u)
<1>a. ReleasedTo(t, s, u)
  BY ReleasedFields
<1>b. u.nextPid = t.nextPid /\ u.nextPage = t.nextPage
  BY <1>a DEF ReleasedTo
<1>0. DOMAIN u.pages \subseteq DOMAIN t.pages
  BY <1>a DEF ReleasedTo
<1>1. \A r \in Positions : RefAt(u, r) = IF r[1] = s THEN NoRef ELSE RefAt(t, r)
  BY <1>a DEF RefAt, Positions, ReleasedTo
<1>2. \A r \in Positions : RefAt(u, r).id = IF r[1] = s THEN 0 ELSE RefAt(t, r).id
  BY <1>1 DEF NoRef
<1>3. \A k \in DOMAIN t.pages : k # 0
  BY DEF TableInv, TableTypes
<1>4. \A k \in DOMAIN t.pages :
        /\ Cardinality(RefsTo(u, k)) = t.pages[k].refcount - Cardinality(Row(t, s, k))
        /\ Cardinality(RefsTo(u, k)) \in Nat /\ Cardinality(Row(t, s, k)) \in Nat
  BY <1>2, <1>3, ReleasedCount DEF TableInv, RefsCounted
<1>5. TableTypes(u)
  <2>1. \A k \in DOMAIN u.pages : u.pages[k] \in Page
    <3> TAKE k \in DOMAIN u.pages
    <3>1. t.pages[k] \in Page /\ k \in DOMAIN t.pages
      BY <1>0 DEF TableInv, TableTypes
    <3>2. t.pages[k].refcount - Cardinality(Row(t, s, k)) \in Nat \ {0}
      BY <3>1, <1>4, <1>a DEF Page, ReleasedTo
    <3>3. u.pages[k] = [t.pages[k] EXCEPT !.refcount = t.pages[k].refcount - Cardinality(Row(t, s, k))]
      BY <1>a DEF ReleasedTo
    <3> QED BY <3>1, <3>2, <3>3 DEF Page
  <2>2. u.pages \in [DOMAIN u.pages -> Page]
    BY <2>1, <1>a DEF ReleasedTo
  <2>3. IsFiniteSet(DOMAIN t.pages)
    BY PagesFinite
  <2>4. Cardinality(DOMAIN u.pages) <= MaxCowPages
    BY <1>0, <2>3, FS_Subset, FS_CardinalityType DEF TableInv, TableTypes
  <2> QED BY <1>0, <2>2, <2>4, <1>b, <1>a DEF TableInv, TableTypes, ReleasedTo
<1>6. PidsNameSlots(u)
  BY <1>b, <1>a DEF TableInv, PidsNameSlots, ReleasedTo
<1>7. RefsCounted(u)
  <2>1. ASSUME NEW r \in Positions, RefAt(u, r).id # 0
        PROVE  RefAt(u, r).id \in DOMAIN u.pages
    <3> DEFINE k == RefAt(u, r).id
    <3>1. k \in DOMAIN t.pages
      BY <1>2, <2>1 DEF TableInv, RefsCounted
    <3>2. r \in RefsTo(u, k)
      BY DEF RefsTo, RefAt, Positions
    <3>3. Cardinality(RefsTo(u, k)) # 0
      BY <3>2, RefsFinite, FS_EmptySet
    <3>4. t.pages[k].refcount - Cardinality(Row(t, s, k)) > 0
      BY <3>1, <3>3, <1>4
    <3> QED BY <3>1, <3>4, <1>a DEF ReleasedTo
  <2>2. ASSUME NEW k \in DOMAIN u.pages
        PROVE  u.pages[k].refcount = Cardinality(RefsTo(u, k))
    <3>1. u.pages[k] = [t.pages[k] EXCEPT !.refcount = t.pages[k].refcount - Cardinality(Row(t, s, k))]
      BY <1>a DEF ReleasedTo
    <3>2. t.pages[k] \in Page /\ k \in DOMAIN t.pages
      BY <1>0 DEF TableInv, TableTypes
    <3>3. u.pages[k].refcount = t.pages[k].refcount - Cardinality(Row(t, s, k))
      BY <3>1, <3>2 DEF Page
    <3> QED BY <3>2, <3>3, <1>4
  <2>3. ASSUME NEW r \in Positions, RefAt(u, r).writable
        PROVE  /\ RefAt(u, r).id # 0 /\ ~RefAt(u, r).cow
               /\ \A q \in Positions : RefAt(u, q).id = RefAt(u, r).id => q = r
    BY <1>1, <1>2, <2>3 DEF TableInv, RefsCounted, NoRef
  <2>4. \A r \in FreeSlots(u) : u.procs[r].refs = [i \in UserPages |-> NoRef]
    BY <1>a DEF FreeSlots, TableInv, RefsCounted, ReleasedTo
  <2> QED BY <2>1, <2>2, <2>3, <2>4 DEF RefsCounted
<1> QED BY <1>5, <1>6, <1>7 DEF TableInv

\* The slot of a zombie is given back with its pages released.
LEMMA ReapedPreserves ==
  ASSUME NEW t, TableInv(t), NEW s \in Slots, t.procs[s].state # "UNUSED", NEW u, u = Reaped(t, s)
  PROVE  TableInv(u)
<1> DEFINE v == Released(t, s)
<1>1. TableInv(v) /\ ReleasedTo(t, s, v)
  BY ReleasedPreserves, ReleasedFields
<1>2. u = StateSet(v, s, "DEAD")
  BY DEF Reaped, StateSet
<1> HIDE DEF v
<1>3. StateSetTo(v, s, "DEAD", u)
  BY <1>1, <1>2, SetStateFields
<1>4. u.pages = v.pages /\ u.nextPid = v.nextPid /\ u.nextPage = v.nextPage
  BY <1>3 DEF StateSetTo
<1>5. TableTypes(u)
  <2>1. v.procs \in [Slots -> Process]
    BY <1>1 DEF TableInv, TableTypes
  <2>2. [v.procs[s] EXCEPT !.state = "DEAD"] \in Process
    BY <2>1 DEF Process, States
  <2>3. u.procs \in [Slots -> Process]
    BY <1>3, <2>1, <2>2 DEF StateSetTo
  <2>4. u = [procs |-> u.procs, pages |-> u.pages, nextPid |-> u.nextPid, nextPage |-> u.nextPage]
    BY <1>3, <1>4 DEF StateSetTo
  <2> QED BY <1>1, <1>4, <2>3, <2>4 DEF TableInv, TableTypes
<1>6. PidsNameSlots(u)
  <2>1. v.procs[s].state # "UNUSED"
    BY <1>1 DEF ReleasedTo
  <2> QED BY <1>1, <1>3, <1>4, <2>1 DEF TableInv, PidsNameSlots, StateSetTo
<1>7. RefsCounted(u)
  <2>1. \A r \in Positions : RefAt(u, r) = RefAt(v, r)
    BY <1>3 DEF RefAt, Positions, StateSetTo
  <2>2. \A k : RefsTo(u, k) = RefsTo(v, k)
    BY <2>1 DEF RefsTo, RefAt, Positions
  <2>3. FreeSlots(u) \subseteq FreeSlots(v) \cup {s}
    BY <1>3 DEF FreeSlots, StateSetTo
  <2>4. \A r \in FreeSlots(u) : u.procs[r].refs = v.procs[r].refs
    BY <1>3 DEF FreeSlots, StateSetTo
  <2>5. v.procs[s].refs = [i \in UserPages |-> NoRef]
    BY <1>1 DEF ReleasedTo
  <2> QED BY <1>1, <1>4, <2>1, <2>2, <2>3, <2>4, <2>5 DEF TableInv, RefsCounted
<1> QED BY <1>5, <1>6, <1>7 DEF TableInv

\* What a new process finds in its slot.
SpawnedTo(t, ppid, child, u) ==
  /\ u = [procs |-> u.procs, pages |-> t.pages, nextPid |-> t.nextPid + 1, nextPage |-> t.nextPage]
  /\ u.procs \in [Slots -> Process]
  /\ \A r \in Slots \ {child} : u.procs[r] = t.procs[r]
  /\ u.procs[child].pid = t.nextPid
  /\ u.procs[child].ppid = ppid
  /\ u.procs[child].state = "READY"
  /\ u.procs[child].refs = [i \in UserPages |-> NoRef]

LEMMA SpawnedFields ==
  ASSUME NEW t, TableInv(t), CanSpawn(t), NEW ppid \in 0 .. MaxPid, NEW u, u = Spawned(t, ppid)
  PROVE  SpawnedTo(t, ppid, SpawnSlot(t), u)
<1> DEFINE child == SpawnSlot(t)
<1>1. t = [procs |-> t.procs, pages |-> t.pages, nextPid |-> t.nextPid, nextPage |-> t.nextPage]
  BY DEF TableInv, TableTypes
<1>2. t.procs \in [Slots -> Process] /\ child \in Slots /\ t.nextPid \in 1 .. MaxPid
  BY SpawnSlotFacts DEF TableInv, TableTypes, CanSpawn, Pids
<1> DEFINE none == [i \in UserPages |-> NoRef]
<1>n. none \in [UserPages -> Ref]
  BY DEF NoRef, Ref
<1>c. Cleared = [pid |-> 0, ppid |-> 0, state |-> "UNUSED", refs |-> none]
  BY DEF Cleared
<1> HIDE DEF none
<1>b. PICK born : born = [Cleared EXCEPT !.pid = t.nextPid, !.ppid = ppid, !.state = "READY"]
  OBVIOUS
<1>3. born = [pid |-> t.nextPid, ppid |-> ppid, state |-> "READY", refs |-> none]
  BY <1>b, <1>c
<1>4. born \in Process
  BY <1>2, <1>3, <1>n DEF Process, States
<1>5. u = [t EXCEPT !.procs[child] = born, !.nextPid = t.nextPid + 1]
  BY <1>b DEF Spawned
<1> HIDE DEF child
<1>6. u = [procs |-> [t.procs EXCEPT ![child] = born], pages |-> t.pages,
           nextPid |-> t.nextPid + 1, nextPage |-> t.nextPage]
  BY <1>1, <1>5
<1>7. u.procs = [r \in Slots |-> IF r = child THEN born ELSE t.procs[r]]
  BY <1>2, <1>6
<1>8. u = [procs |-> u.procs, pages |-> t.pages, nextPid |-> t.nextPid + 1, nextPage |-> t.nextPage]
  BY <1>6
<1> QED BY <1>2, <1>3, <1>4, <1>7, <1>8 DEF child, none, SpawnedTo

\* A new process takes a slot that held nothing, and a pid nobody had.
LEMMA SpawnedPreserves ==
  ASSUME NEW t, TableInv(t), CanSpawn(t), NEW ppid \in 0 .. MaxPid, NEW u, u = Spawned(t, ppid)
  PROVE  TableInv(u)
<1> DEFINE child == SpawnSlot(t)
<1>0. SpawnedTo(t, ppid, child, u)
  BY SpawnedFields
<1>1. /\ u = [procs |-> u.procs, pages |-> t.pages, nextPid |-> t.nextPid + 1, nextPage |-> t.nextPage]
      /\ u.procs \in [Slots -> Process]
      /\ \A r \in Slots \ {child} : u.procs[r] = t.procs[r]
      /\ u.procs[child].pid = t.nextPid
      /\ u.procs[child].state = "READY"
      /\ u.procs[child].refs = [i \in UserPages |-> NoRef]
  BY <1>0 DEF SpawnedTo
<1>2. u.pages = t.pages /\ u.nextPid = t.nextPid + 1 /\ u.nextPage = t.nextPage
  BY <1>1
<1>3. child \in FreeSlots(t) /\ child \in Slots /\ t.nextPid \in 1 .. MaxPid
  BY SpawnSlotFacts DEF CanSpawn, Pids
<1> HIDE DEF child
<1>4. TableTypes(u)
  BY <1>1, <1>2, <1>3 DEF TableInv, TableTypes
<1>5. PidsNameSlots(u)
  <2>1. t.procs \in [Slots -> Process]
    BY DEF TableInv, TableTypes
  <2>2. \A r \in Slots : t.procs[r].pid \in 0 .. MaxPid /\ t.procs[r].pid < t.nextPid
    BY <2>1 DEF TableInv, PidsNameSlots, Process
  <2> QED BY <1>1, <1>2, <1>3, <2>2 DEF TableInv, PidsNameSlots
<1>6. RefsCounted(u)
  <2>1. t.procs[child].refs = [i \in UserPages |-> NoRef]
    BY <1>3 DEF TableInv, RefsCounted
  <2>2. \A r \in Slots : u.procs[r].refs = t.procs[r].refs
    BY <1>1, <2>1
  <2>3. \A r \in Positions : RefAt(u, r) = RefAt(t, r)
    BY <2>2 DEF RefAt, Positions
  <2>4. \A k : RefsTo(u, k) = RefsTo(t, k)
    BY <2>3 DEF RefsTo, RefAt, Positions
  <2>5. FreeSlots(u) \subseteq FreeSlots(t)
    BY <1>1 DEF FreeSlots
  <2>6. \A r \in FreeSlots(u) : u.procs[r].refs = t.procs[r].refs
    BY <2>2 DEF FreeSlots
  <2> QED BY <1>2, <2>3, <2>4, <2>5, <2>6 DEF TableInv, RefsCounted
<1> QED BY <1>4, <1>5, <1>6 DEF TableInv

\* What both processes hold after a fork.
SharedRefs(t, s) ==
  [i \in UserPages |-> IF t.procs[s].refs[i].id # 0
                       THEN [t.procs[s].refs[i] EXCEPT !.writable = FALSE, !.cow = TRUE]
                       ELSE t.procs[s].refs[i]]

LEMMA SharedRef ==
  ASSUME NEW o \in Ref
  PROVE  [o EXCEPT !.writable = FALSE, !.cow = TRUE] = [id |-> o.id, writable |-> FALSE, cow |-> TRUE]
<1>1. o = [id |-> o.id, writable |-> o.writable, cow |-> o.cow]
  BY DEF Ref
<1>2. PICK n : n = [o EXCEPT !.writable = FALSE]
  OBVIOUS
<1>3. n = [id |-> o.id, writable |-> FALSE, cow |-> o.cow]
  BY <1>1, <1>2
<1>4. PICK m : m = [n EXCEPT !.cow = TRUE]
  OBVIOUS
<1>5. m = [id |-> o.id, writable |-> FALSE, cow |-> TRUE]
  BY <1>3, <1>4
<1> QED BY <1>2, <1>4, <1>5

LEMMA SharedRefsFacts ==
  ASSUME NEW t, TableInv(t), NEW s \in Slots
  PROVE  /\ SharedRefs(t, s) \in [UserPages -> Ref]
         /\ \A i \in UserPages : /\ SharedRefs(t, s)[i].id = t.procs[s].refs[i].id
                                 /\ ~SharedRefs(t, s)[i].writable
<1>1. t.procs[s].refs \in [UserPages -> Ref]
  BY DEF TableInv, TableTypes, Process
<1> DEFINE old(i) == t.procs[s].refs[i]
           new(i) == [old(i) EXCEPT !.writable = FALSE, !.cow = TRUE]
<1>2. \A i \in UserPages : old(i) \in Ref
  BY <1>1
<1>3. \A i \in UserPages : old(i).id \in 0 .. MaxPageId /\ old(i).writable \in BOOLEAN
  BY <1>2 DEF Ref
<1>4. \A i \in UserPages : new(i) = [id |-> old(i).id, writable |-> FALSE, cow |-> TRUE]
  BY <1>2, SharedRef
<1>5. \A i \in UserPages : old(i).writable => old(i).id # 0
  <2> TAKE i \in UserPages
  <2>1. <<s, i>> \in Positions /\ RefAt(t, <<s, i>>) = old(i)
    BY DEF Positions, RefAt
  <2> QED BY <2>1 DEF TableInv, RefsCounted
<1>6. \A i \in UserPages : SharedRefs(t, s)[i] = IF old(i).id # 0 THEN new(i) ELSE old(i)
  BY DEF SharedRefs
<1> HIDE DEF old, new
<1>7. \A i \in UserPages : /\ SharedRefs(t, s)[i] \in Ref
                           /\ SharedRefs(t, s)[i].id = old(i).id
                           /\ ~SharedRefs(t, s)[i].writable
  <2> TAKE i \in UserPages
  <2>1. CASE old(i).id # 0
    <3>1. SharedRefs(t, s)[i] = [id |-> old(i).id, writable |-> FALSE, cow |-> TRUE]
      BY <2>1, <1>4, <1>6
    <3> QED BY <3>1, <1>3 DEF Ref
  <2>2. CASE old(i).id = 0
    BY <2>2, <1>2, <1>5, <1>6
  <2> QED BY <2>1, <2>2
<1>8. SharedRefs(t, s) \in [UserPages -> Ref]
  BY <1>7 DEF SharedRefs
<1> QED BY <1>7, <1>8 DEF old

\* What a fork leaves: s is the parent's slot.
ForkedTo(t, s, child, u) ==
  /\ u = [procs |-> u.procs, pages |-> u.pages, nextPid |-> t.nextPid + 1, nextPage |-> t.nextPage]
  /\ u.procs \in [Slots -> Process]
  /\ \A r \in Slots \ {child} : /\ u.procs[r].pid = t.procs[r].pid
                                /\ u.procs[r].ppid = t.procs[r].ppid
                                /\ u.procs[r].state = t.procs[r].state
  /\ \A r \in Slots \ {child, s} : u.procs[r].refs = t.procs[r].refs
  /\ u.procs[child].pid = t.nextPid /\ u.procs[child].state = "READY"
  /\ u.procs[child].refs = SharedRefs(t, s) /\ u.procs[s].refs = SharedRefs(t, s)
  /\ u.pages = [k \in DOMAIN t.pages |->
       [t.pages[k] EXCEPT !.refcount = t.pages[k].refcount + Cardinality(Row(t, s, k))]]

LEMMA ForkedFields ==
  ASSUME NEW t, TableInv(t), NEW pid \in Pids, IsLive(t, pid), CanSpawn(t),
         NEW u, u = Forked(t, pid)
  PROVE  ForkedTo(t, SlotOf(t, pid), SpawnSlot(t), u)
<1> DEFINE s == SlotOf(t, pid)
           child == SpawnSlot(t)
           lost == {i \in UserPages : Mapped(t, s, i) /\ t.procs[s].refs[i].id \notin DOMAIN t.pages}
           shared == {i \in UserPages : Mapped(t, s, i) /\ \A j \in lost : i < j}
           refs == [i \in UserPages |->
                     IF i \in shared THEN [t.procs[s].refs[i] EXCEPT !.writable = FALSE, !.cow = TRUE]
                     ELSE t.procs[s].refs[i]]
           pages == [k \in DOMAIN t.pages |->
                      [t.pages[k] EXCEPT !.refcount =
                         @ + Cardinality({i \in shared : t.procs[s].refs[i].id = k})]]
           counted == [k \in DOMAIN t.pages |->
             [t.pages[k] EXCEPT !.refcount = t.pages[k].refcount + Cardinality(Row(t, s, k))]]
           born == Spawned(t, pid)
<1>1. s \in Slots /\ child \in Slots /\ s # child
  BY LiveSlot, SpawnSlotFacts DEF CanSpawn
<1>2. lost = {}
  <2> SUFFICES ASSUME NEW i \in UserPages, Mapped(t, s, i)
               PROVE  t.procs[s].refs[i].id \in DOMAIN t.pages
    OBVIOUS
  <2>1. <<s, i>> \in Positions /\ RefAt(t, <<s, i>>) = t.procs[s].refs[i]
    BY <1>1 DEF Positions, RefAt
  <2> QED BY <2>1 DEF Mapped, TableInv, RefsCounted
<1>3. shared = {i \in UserPages : Mapped(t, s, i)}
  BY <1>2
<1>4. refs = SharedRefs(t, s)
  BY <1>3 DEF SharedRefs, Mapped
<1>5. \A k \in DOMAIN t.pages : {i \in shared : t.procs[s].refs[i].id = k} = Row(t, s, k)
  <2> TAKE k \in DOMAIN t.pages
  <2>1. k # 0
    BY DEF TableInv, TableTypes
  <2> QED BY <2>1, <1>3 DEF Row, Mapped
<1>6. pages = counted
  BY <1>5
<1>7. pid \in 0 .. MaxPid
  BY DEF Pids
<1>g. SpawnedTo(t, pid, child, born)
  BY <1>7, SpawnedFields
<1>8. /\ born = [procs |-> born.procs, pages |-> t.pages, nextPid |-> t.nextPid + 1, nextPage |-> t.nextPage]
      /\ born.procs \in [Slots -> Process]
      /\ \A r \in Slots \ {child} : born.procs[r] = t.procs[r]
      /\ born.procs[child].pid = t.nextPid
      /\ born.procs[child].ppid = pid
      /\ born.procs[child].state = "READY"
  BY <1>g DEF SpawnedTo
<1>9. u = [born EXCEPT !.pages = pages, !.procs[s].refs = refs,
                       !.procs[child] = IF lost = {} THEN [@ EXCEPT !.refs = refs] ELSE Cleared]
  BY DEF Forked
<1> HIDE DEF born, lost, shared, s, child
<1> HIDE DEF refs, pages
<1>a. PICK b : b = [born EXCEPT !.pages = pages]
  OBVIOUS
<1>b. b = [procs |-> born.procs, pages |-> pages, nextPid |-> t.nextPid + 1, nextPage |-> t.nextPage]
  BY <1>8, <1>a
<1>c. PICK c : c = [b EXCEPT !.procs[s].refs = refs]
  OBVIOUS
<1>d. c = [procs |-> [born.procs EXCEPT ![s].refs = refs], pages |-> pages,
           nextPid |-> t.nextPid + 1, nextPage |-> t.nextPage]
  BY <1>b, <1>c
<1>e. PICK kid : kid = [born.procs[child] EXCEPT !.refs = refs]
  OBVIOUS
<1>10. u = [c EXCEPT !.procs[child] = kid]
  BY <1>2, <1>9, <1>a, <1>c, <1>e
<1>11. u = [procs |-> [c.procs EXCEPT ![child] = kid], pages |-> pages,
            nextPid |-> t.nextPid + 1, nextPage |-> t.nextPage]
  BY <1>d, <1>10
<1>f. u.procs = [c.procs EXCEPT ![child] = kid] /\ c.procs = [born.procs EXCEPT ![s].refs = refs]
  BY <1>d, <1>11
<1>12. \A r \in Slots : u.procs[r] = IF r = s \/ r = child THEN [born.procs[r] EXCEPT !.refs = refs]
                                      ELSE born.procs[r]
  BY <1>1, <1>8, <1>e, <1>f
<1>13. DOMAIN u.procs = Slots /\ u.procs = [r \in Slots |-> u.procs[r]]
  BY <1>8, <1>f
<1>14. refs \in [UserPages -> Ref]
  BY <1>1, <1>4, SharedRefsFacts
<1>15. \A r \in Slots : /\ u.procs[r] \in Process
                        /\ u.procs[r].pid = born.procs[r].pid
                        /\ u.procs[r].ppid = born.procs[r].ppid
                        /\ u.procs[r].state = born.procs[r].state
                        /\ u.procs[r].refs = IF r = s \/ r = child THEN refs ELSE born.procs[r].refs
  <2> TAKE r \in Slots
  <2>1. born.procs[r] \in Process
    BY <1>8
  <2> QED BY <2>1, <1>12, <1>14 DEF Process
<1>16. u.procs \in [Slots -> Process]
  BY <1>13, <1>15
<1>17. u = [procs |-> u.procs, pages |-> u.pages, nextPid |-> t.nextPid + 1, nextPage |-> t.nextPage]
       /\ u.pages = counted
  BY <1>6, <1>11
<1>18. ForkedTo(t, s, child, u)
  BY <1>1, <1>4, <1>8, <1>15, <1>16, <1>17 DEF ForkedTo
<1> QED BY <1>18 DEF s, child

\* The child adds its row of entries to those that name a page.
LEMMA ForkedCount ==
  ASSUME NEW t, NEW u, NEW s \in Slots, NEW child \in Slots, NEW k, k # 0,
         \A r \in Positions : RefAt(u, r).id = IF r[1] = child THEN RefAt(t, <<s, r[2]>>).id
                                               ELSE RefAt(t, r).id,
         \A i \in UserPages : RefAt(t, <<child, i>>).id = 0
  PROVE  /\ Cardinality(RefsTo(u, k)) = Cardinality(RefsTo(t, k)) + Cardinality(Row(t, s, k))
         /\ Cardinality(RefsTo(t, k)) \in Nat /\ Cardinality(Row(t, s, k)) \in Nat
<1> DEFINE row == {r \in Positions : r[1] = child /\ r[2] \in Row(t, s, k)}
<1>1. Row(t, s, k) \in SUBSET UserPages
  BY DEF Row
<1>2. IsFiniteSet(row) /\ Cardinality(row) = Cardinality(Row(t, s, k)) /\ Cardinality(Row(t, s, k)) \in Nat
  BY <1>1, RowCardinality
<1>3. \A r \in Positions : r \in RefsTo(u, k) <=> RefAt(u, r).id = k
  BY DEF RefsTo, RefAt, Positions
<1>4. \A r \in Positions : r \in RefsTo(t, k) <=> RefAt(t, r).id = k
  BY DEF RefsTo, RefAt, Positions
<1>5. \A r \in Positions : r \in row <=> r[1] = child /\ RefAt(t, <<s, r[2]>>).id = k
  BY DEF Row, RefAt, Positions
<1>6. \A r \in Positions : r[1] = child => RefAt(t, r).id = 0
  BY DEF Positions
<1>7. row \subseteq Positions
  OBVIOUS
<1> HIDE DEF row
<1>8. RefsTo(u, k) = RefsTo(t, k) \cup row
  BY <1>3, <1>4, <1>5, <1>6, <1>7, RefsFinite
<1>9. RefsTo(t, k) \cap row = {}
  BY <1>4, <1>5, <1>6, <1>7
<1>10. IsFiniteSet(RefsTo(t, k)) /\ Cardinality(RefsTo(t, k)) \in Nat
  BY RefsFinite, FS_CardinalityType
<1>11. Cardinality(RefsTo(u, k)) = Cardinality(RefsTo(t, k)) + Cardinality(row) - Cardinality({})
  BY <1>2, <1>8, <1>9, <1>10, FS_Union
<1>12. Cardinality({}) = 0
  BY FS_EmptySet
<1> QED BY <1>2, <1>10, <1>11, <1>12

LEMMA ForkedPreserves ==
  ASSUME NEW t, TableInv(t), NEW pid \in Pids, IsLive(t, pid), CanSpawn(t),
         NEW u, u = Forked(t, pid)
  PROVE  TableInv(u)
<1> DEFINE s == SlotOf(t, pid)
           child == SpawnSlot(t)
<1>1. s \in Slots /\ child \in FreeSlots(t) /\ child \in Slots /\ s # child
      /\ t.procs[s].state \in Live
  BY LiveSlot, SpawnSlotFacts DEF CanSpawn
<1>2. ForkedTo(t, s, child, u)
  BY ForkedFields
<1>3. SharedRefs(t, s) \in [UserPages -> Ref]
      /\ \A i \in UserPages : /\ SharedRefs(t, s)[i].id = t.procs[s].refs[i].id
                              /\ ~SharedRefs(t, s)[i].writable
  BY <1>1, SharedRefsFacts
<1>4. t.nextPid \in 1 .. MaxPid
  BY DEF CanSpawn, Pids
<1> HIDE DEF s, child
<1>5. u.nextPid = t.nextPid + 1 /\ u.nextPage = t.nextPage /\ DOMAIN u.pages = DOMAIN t.pages
  BY <1>2 DEF ForkedTo
<1>6. t.procs[child].refs = [i \in UserPages |-> NoRef]
  BY <1>1 DEF TableInv, RefsCounted
<1>7. \A i \in UserPages : RefAt(t, <<child, i>>).id = 0
  BY <1>6 DEF RefAt, NoRef
<1>8. \A r \in Positions :
        /\ r[1] \in {s, child} => RefAt(u, r).id = RefAt(t, <<s, r[2]>>).id /\ ~RefAt(u, r).writable
        /\ r[1] \notin {s, child} => RefAt(u, r) = RefAt(t, r)
  BY <1>1, <1>2, <1>3 DEF ForkedTo, RefAt, Positions
<1>9. \A r \in Positions : r[1] = s => r = <<s, r[2]>>
  BY DEF Positions
<1>10. \A r \in Positions : RefAt(u, r).id = IF r[1] = child THEN RefAt(t, <<s, r[2]>>).id
                                             ELSE RefAt(t, r).id
  BY <1>8, <1>9
<1>11. \A k \in DOMAIN t.pages :
         /\ Cardinality(RefsTo(u, k)) = t.pages[k].refcount + Cardinality(Row(t, s, k))
         /\ Cardinality(Row(t, s, k)) \in Nat
  <2> TAKE k \in DOMAIN t.pages
  <2>1. k # 0
    BY DEF TableInv, TableTypes
  <2>2. /\ Cardinality(RefsTo(u, k)) = Cardinality(RefsTo(t, k)) + Cardinality(Row(t, s, k))
        /\ Cardinality(Row(t, s, k)) \in Nat
    BY <1>1, <1>7, <1>10, <2>1, ForkedCount
  <2> QED BY <2>2 DEF TableInv, RefsCounted
<1>12. \A k \in DOMAIN t.pages :
         u.pages[k] \in Page /\ u.pages[k].refcount = t.pages[k].refcount + Cardinality(Row(t, s, k))
  <2> TAKE k \in DOMAIN t.pages
  <2>1. t.pages[k] \in Page
    BY DEF TableInv, TableTypes
  <2>2. u.pages[k] = [t.pages[k] EXCEPT !.refcount = t.pages[k].refcount + Cardinality(Row(t, s, k))]
    BY <1>2 DEF ForkedTo
  <2>3. t.pages[k].refcount + Cardinality(Row(t, s, k)) \in Nat \ {0}
    BY <2>1, <1>11 DEF Page
  <2> QED BY <2>1, <2>2, <2>3 DEF Page
<1>13. TableTypes(u)
  <2>1. u.pages \in [DOMAIN u.pages -> Page]
    BY <1>2, <1>5, <1>12 DEF ForkedTo
  <2>2. u = [procs |-> u.procs, pages |-> u.pages, nextPid |-> u.nextPid, nextPage |-> u.nextPage]
        /\ u.procs \in [Slots -> Process]
    BY <1>2, <1>5 DEF ForkedTo
  <2> QED BY <1>4, <1>5, <2>1, <2>2 DEF TableInv, TableTypes
<1>14. PidsNameSlots(u)
  <2>1. t.procs \in [Slots -> Process]
    BY DEF TableInv, TableTypes
  <2>2. \A r \in Slots : t.procs[r].pid \in 0 .. MaxPid /\ t.procs[r].pid < t.nextPid
    BY <2>1 DEF TableInv, PidsNameSlots, Process
  <2> QED BY <1>1, <1>2, <1>4, <1>5, <2>2 DEF TableInv, PidsNameSlots, ForkedTo
<1>15. RefsCounted(u)
  <2>1. ASSUME NEW r \in Positions, RefAt(u, r).id # 0
        PROVE  RefAt(u, r).id \in DOMAIN u.pages
    <3>1. <<s, r[2]>> \in Positions
      BY <1>1 DEF Positions
    <3> QED BY <1>5, <1>10, <2>1, <3>1 DEF TableInv, RefsCounted
  <2>2. ASSUME NEW r \in Positions, RefAt(u, r).writable
        PROVE  /\ RefAt(u, r).id # 0 /\ ~RefAt(u, r).cow
               /\ \A q \in Positions : RefAt(u, q).id = RefAt(u, r).id => q = r
    <3>1. r[1] \notin {s, child} /\ RefAt(u, r) = RefAt(t, r)
      BY <1>8, <2>2
    <3>2. /\ RefAt(t, r).id # 0 /\ ~RefAt(t, r).cow
          /\ \A q \in Positions : RefAt(t, q).id = RefAt(t, r).id => q = r
      BY <2>2, <3>1 DEF TableInv, RefsCounted
    <3>3. ASSUME NEW q \in Positions, RefAt(u, q).id = RefAt(u, r).id
          PROVE  q = r
      <4>1. CASE q[1] = child
        <5>1. <<s, q[2]>> \in Positions /\ RefAt(t, <<s, q[2]>>).id = RefAt(t, r).id
          BY <1>1, <1>10, <3>1, <3>3, <4>1 DEF Positions
        <5>2. <<s, q[2]>> = r
          BY <3>2, <5>1
        <5>3. r[1] = s
          BY <5>2
        <5> QED BY <3>1, <5>3
      <4>2. CASE q[1] # child
        BY <1>10, <3>1, <3>2, <3>3, <4>2
      <4> QED BY <4>1, <4>2
    <3> QED BY <3>1, <3>2, <3>3
  <2>3. \A r \in FreeSlots(u) : u.procs[r].refs = [i \in UserPages |-> NoRef]
    <3>1. child \notin FreeSlots(u) /\ s \notin FreeSlots(u)
      BY <1>1, <1>2 DEF ForkedTo, FreeSlots, Live
    <3>2. FreeSlots(u) \subseteq FreeSlots(t)
      BY <1>2, <3>1 DEF ForkedTo, FreeSlots
    <3>3. \A r \in FreeSlots(u) : u.procs[r].refs = t.procs[r].refs
      BY <1>2, <3>1 DEF ForkedTo, FreeSlots
    <3> QED BY <3>2, <3>3 DEF TableInv, RefsCounted
  <2>4. \A k \in DOMAIN u.pages : u.pages[k].refcount = Cardinality(RefsTo(u, k))
    BY <1>5, <1>11, <1>12
  <2> QED BY <2>1, <2>2, <2>3, <2>4 DEF RefsCounted
<1> QED BY <1>13, <1>14, <1>15 DEF TableInv

Owned(id) == [id |-> id, writable |-> TRUE, cow |-> FALSE]

\* One entry of one slot is written.
EntrySet(t, s, i, ref, procs) ==
  /\ procs \in [Slots -> Process]
  /\ \A r \in Slots : /\ procs[r].pid = t.procs[r].pid
                      /\ procs[r].ppid = t.procs[r].ppid
                      /\ procs[r].state = t.procs[r].state
                      /\ r # s => procs[r] = t.procs[r]
  /\ \A r \in Positions : procs[r[1]].refs[r[2]] = IF r = <<s, i>> THEN ref ELSE RefAt(t, r)

LEMMA EntrySetFields ==
  ASSUME NEW t, TableInv(t), NEW s \in Slots, NEW i \in UserPages, NEW ref \in Ref,
         NEW procs, procs = [t.procs EXCEPT ![s].refs[i] = ref]
  PROVE  EntrySet(t, s, i, ref, procs)
<1>1. t.procs \in [Slots -> Process]
  BY DEF TableInv, TableTypes
<1>2. \A r \in Slots : t.procs[r] \in Process
  BY <1>1
<1> DEFINE p == t.procs[s]
           refs == [p.refs EXCEPT ![i] = ref]
           q == [p EXCEPT !.refs = refs]
<1>3. p.refs \in [UserPages -> Ref] /\ p \in Process
  BY <1>2 DEF Process
<1>4. refs \in [UserPages -> Ref]
  BY <1>3
<1>5. \A j \in UserPages : refs[j] = IF j = i THEN ref ELSE p.refs[j]
  BY <1>3
<1>6. procs = [r \in Slots |-> IF r = s THEN q ELSE t.procs[r]]
  BY <1>1
<1> HIDE DEF p, refs
<1>7. q = [pid |-> p.pid, ppid |-> p.ppid, state |-> p.state, refs |-> refs] /\ q \in Process
  BY <1>3, <1>4 DEF Process
<1> HIDE DEF q
<1>8. procs \in [Slots -> Process]
  BY <1>2, <1>6, <1>7
<1>9. \A r \in Slots : /\ procs[r].pid = t.procs[r].pid
                       /\ procs[r].ppid = t.procs[r].ppid
                       /\ procs[r].state = t.procs[r].state
                       /\ r # s => procs[r] = t.procs[r]
  BY <1>6, <1>7 DEF p
<1>10. \A r \in Slots, j \in UserPages :
         procs[r].refs[j] = IF <<r, j>> = <<s, i>> THEN ref ELSE t.procs[r].refs[j]
  <2> TAKE r \in Slots, j \in UserPages
  <2>1. CASE r = s
    <3>0. procs[r] = q /\ q.refs = refs
      BY <2>1, <1>6, <1>7
    <3>1. procs[r].refs[j] = refs[j]
      BY <3>0
    <3> QED BY <2>1, <3>1, <1>5 DEF p
  <2>2. CASE r # s
    BY <2>2, <1>6
  <2> QED BY <2>1, <2>2
<1>11. \A r \in Positions : r[1] \in Slots /\ r[2] \in UserPages /\ r = <<r[1], r[2]>>
  BY DEF Positions
<1>12. \A r \in Positions : procs[r[1]].refs[r[2]] = IF r = <<s, i>> THEN ref ELSE RefAt(t, r)
  BY <1>10, <1>11 DEF RefAt
<1> QED BY <1>8, <1>9, <1>12 DEF EntrySet

\* A page of its own for one entry, whose old page, if any, loses a reference.
OwnedTo(t, s, i, v, u) ==
  /\ u = [procs |-> u.procs, pages |-> u.pages, nextPid |-> t.nextPid, nextPage |-> t.nextPage + 1]
  /\ EntrySet(t, s, i, Owned(t.nextPage), u.procs)
  /\ DOMAIN u.pages = DOMAIN t.pages \cup {t.nextPage}
  /\ u.pages = [k \in DOMAIN u.pages |-> u.pages[k]]
  /\ u.pages[t.nextPage] = [refcount |-> 1, data |-> v]
  /\ \A k \in DOMAIN t.pages :
       u.pages[k] = IF k = RefAt(t, <<s, i>>).id
                    THEN [t.pages[k] EXCEPT !.refcount = t.pages[k].refcount - 1]
                    ELSE t.pages[k]

LEMMA PageIdFresh ==
  ASSUME NEW t, TableInv(t)
  PROVE  /\ t.nextPage \in Nat \ {0} /\ t.nextPage \notin DOMAIN t.pages /\ 0 \notin DOMAIN t.pages
         /\ \A r \in Positions : RefAt(t, r).id # t.nextPage
<1>1. t.nextPage \in Nat \ {0} /\ t.nextPage \notin DOMAIN t.pages /\ 0 \notin DOMAIN t.pages
  BY DEF TableInv, TableTypes
<1> QED BY <1>1 DEF TableInv, RefsCounted

LEMMA OwnedPreserves ==
  ASSUME NEW t, TableInv(t), CanAllocPage(t),
         NEW s \in Slots, s \notin FreeSlots(t), NEW i \in UserPages, NEW v \in Values,
         \A k \in DOMAIN t.pages : k = RefAt(t, <<s, i>>).id => t.pages[k].refcount # 1,
         NEW u, OwnedTo(t, s, i, v, u)
  PROVE  TableInv(u)
<1> DEFINE new == t.nextPage
           at == <<s, i>>
           old == RefAt(t, at).id
<1>1. new \in 1 .. MaxPageId
  BY DEF CanAllocPage, PageIds
<1>2. /\ u.nextPid = t.nextPid /\ u.nextPage = new + 1 /\ DOMAIN u.pages = DOMAIN t.pages \cup {new}
      /\ u = [procs |-> u.procs, pages |-> u.pages, nextPid |-> u.nextPid, nextPage |-> u.nextPage]
  BY DEF OwnedTo
<1>3. EntrySet(t, s, i, Owned(new), u.procs)
  BY DEF OwnedTo
<1>4. new \notin DOMAIN t.pages /\ 0 \notin DOMAIN t.pages /\ \A r \in Positions : RefAt(t, r).id # new
  BY PageIdFresh
<1>5. at \in Positions
  BY DEF Positions
<1>6. \A r \in Positions : RefAt(u, r) = IF r = at THEN Owned(new) ELSE RefAt(t, r)
  BY <1>3 DEF EntrySet, RefAt
<1>7. \A k \in DOMAIN t.pages : t.pages[k] \in Page
  BY DEF TableInv, TableTypes
<1>8. \A k \in DOMAIN t.pages :
        u.pages[k] \in Page
        /\ u.pages[k].refcount = IF k = old THEN t.pages[k].refcount - 1 ELSE t.pages[k].refcount
  <2> TAKE k \in DOMAIN t.pages
  <2>1. CASE k = old
    <3>1. u.pages[k] = [t.pages[k] EXCEPT !.refcount = t.pages[k].refcount - 1]
      BY <2>1 DEF OwnedTo
    <3>2. t.pages[k].refcount - 1 \in Nat \ {0}
      BY <2>1, <1>7 DEF Page
    <3> QED BY <2>1, <3>1, <3>2, <1>7 DEF Page
  <2>2. CASE k # old
    BY <2>2, <1>7 DEF OwnedTo
  <2> QED BY <2>1, <2>2
<1>9. u.pages[new] = [refcount |-> 1, data |-> v]
  BY DEF OwnedTo
<1>10. \A k : \A r \in Positions : r \in RefsTo(t, k) <=> RefAt(t, r).id = k
  BY DEF RefsTo, RefAt, Positions
<1>11. \A k : \A r \in Positions : r \in RefsTo(u, k) <=> RefAt(u, r).id = k
  BY DEF RefsTo, RefAt, Positions
<1>12. Owned(new).id = new /\ Owned(new).writable /\ ~Owned(new).cow
  BY DEF Owned
<1>13. u.pages = [k \in DOMAIN u.pages |-> u.pages[k]]
  BY DEF OwnedTo
<1> HIDE DEF new, at, old
<1>14. TableTypes(u)
  <2>1. u.pages[new] \in Page
    BY <1>9 DEF Page
  <2>2. u.pages \in [DOMAIN u.pages -> Page]
    BY <2>1, <1>2, <1>8, <1>13
  <2>3. DOMAIN t.pages \subseteq 1 .. new - 1
    BY DEF TableInv, TableTypes, new
  <2>4. DOMAIN u.pages \subseteq 1 .. u.nextPage - 1
    BY <2>3, <1>1, <1>2
  <2>5. Cardinality(DOMAIN u.pages) = Cardinality(DOMAIN t.pages) + 1
    BY <1>2, <1>4, PagesFinite, FS_AddElement
  <2>6. Cardinality(DOMAIN u.pages) <= MaxCowPages
    BY <2>5, PagesFinite DEF CanAllocPage
  <2>7. u.procs \in [Slots -> Process]
    BY <1>3 DEF EntrySet
  <2>8. u.nextPage \in 1 .. MaxPageId + 1
    BY <1>1, <1>2
  <2> QED BY <2>2, <2>4, <2>6, <2>7, <2>8, <1>2 DEF TableInv, TableTypes
<1>15. PidsNameSlots(u)
  BY <1>2, <1>3 DEF TableInv, PidsNameSlots, EntrySet
<1>16. RefsCounted(u)
  <2>1. ASSUME NEW r \in Positions, RefAt(u, r).id # 0
        PROVE  RefAt(u, r).id \in DOMAIN u.pages
    BY <2>1, <1>2, <1>6, <1>12 DEF TableInv, RefsCounted
  <2>2. ASSUME NEW k \in DOMAIN u.pages
        PROVE  u.pages[k].refcount = Cardinality(RefsTo(u, k))
    <3>1. CASE k = new
      <4>1. RefsTo(u, k) = {at}
        BY <3>1, <1>4, <1>5, <1>6, <1>11, <1>12, RefsFinite
      <4>2. Cardinality({at}) = 1
        BY FS_Singleton
      <4> QED BY <3>1, <4>1, <4>2, <1>9
    <3>2. CASE k \in DOMAIN t.pages /\ k # old
      <4>0. RefAt(t, at).id # k /\ k # new
        BY <3>2, <1>4 DEF old
      <4>a. \A r \in Positions : r \in RefsTo(u, k) <=> r \in RefsTo(t, k)
        BY <4>0, <1>6, <1>10, <1>11, <1>12
      <4>1. RefsTo(u, k) = RefsTo(t, k)
        BY <4>a, RefsFinite
      <4> QED BY <3>2, <4>1, <1>8 DEF TableInv, RefsCounted
    <3>3. CASE k \in DOMAIN t.pages /\ k = old
      <4>1. at \in RefsTo(t, k)
        BY <3>3, <1>5, <1>10 DEF old
      <4>2. RefsTo(u, k) = RefsTo(t, k) \ {at}
        BY <3>3, <1>4, <1>5, <1>6, <1>10, <1>11, <1>12, RefsFinite
      <4>b. IsFiniteSet(RefsTo(t, k))
        BY RefsFinite
      <4>3. Cardinality(RefsTo(t, k) \ {at}) = Cardinality(RefsTo(t, k)) - 1
        BY <4>1, <4>b, FS_RemoveElement
      <4> QED BY <3>3, <4>2, <4>3, <1>8 DEF TableInv, RefsCounted
    <3> QED BY <3>1, <3>2, <3>3, <1>2
  <2>3. ASSUME NEW r \in Positions, RefAt(u, r).writable
        PROVE  /\ RefAt(u, r).id # 0 /\ ~RefAt(u, r).cow
               /\ \A q \in Positions : RefAt(u, q).id = RefAt(u, r).id => q = r
    <3>1. CASE r = at
      BY <3>1, <1>1, <1>4, <1>6, <1>12
    <3>2. CASE r # at
      <4>1. /\ RefAt(t, r).id # 0 /\ ~RefAt(t, r).cow
            /\ \A q \in Positions : RefAt(t, q).id = RefAt(t, r).id => q = r
        BY <2>3, <3>2, <1>6 DEF TableInv, RefsCounted
      <4> QED BY <3>2, <4>1, <1>4, <1>6, <1>12
    <3> QED BY <3>1, <3>2
  <2>4. \A r \in FreeSlots(u) : u.procs[r].refs = [j \in UserPages |-> NoRef]
    <3>1. FreeSlots(u) = FreeSlots(t)
      BY <1>3 DEF EntrySet, FreeSlots
    <3>2. \A r \in FreeSlots(t) : u.procs[r] = t.procs[r]
      BY <1>3 DEF EntrySet, FreeSlots
    <3> QED BY <3>1, <3>2 DEF TableInv, RefsCounted
  <2> QED BY <2>1, <2>2, <2>3, <2>4 DEF RefsCounted
<1> QED BY <1>14, <1>15, <1>16 DEF TableInv

NewPageTo(t, v, w) ==
  /\ w = [procs |-> t.procs, pages |-> w.pages, nextPid |-> t.nextPid, nextPage |-> t.nextPage + 1]
  /\ w.pages = [k \in DOMAIN t.pages \cup {t.nextPage} |->
                 IF k = t.nextPage THEN [refcount |-> 1, data |-> v] ELSE t.pages[k]]

LEMMA WithNewPageFields ==
  ASSUME NEW t, TableInv(t), NEW v, NEW w, w = WithNewPage(t, v)
  PROVE  NewPageTo(t, v, w)
<1>1. t = [procs |-> t.procs, pages |-> t.pages, nextPid |-> t.nextPid, nextPage |-> t.nextPage]
  BY DEF TableInv, TableTypes
<1> DEFINE pages == [k \in DOMAIN t.pages \cup {t.nextPage} |->
                       IF k = t.nextPage THEN [refcount |-> 1, data |-> v] ELSE t.pages[k]]
<1>2. w = [t EXCEPT !.pages = pages, !.nextPage = t.nextPage + 1]
  BY DEF WithNewPage
<1> HIDE DEF pages
<1>3. w = [procs |-> t.procs, pages |-> pages, nextPid |-> t.nextPid, nextPage |-> t.nextPage + 1]
  BY <1>1, <1>2
<1>4. w.pages = pages /\ w = [procs |-> t.procs, pages |-> w.pages, nextPid |-> t.nextPid,
                              nextPage |-> t.nextPage + 1]
  BY <1>3
<1> QED BY <1>4 DEF pages, NewPageTo

LEMMA OwnedIsRef ==
  ASSUME NEW id \in 0 .. MaxPageId
  PROVE  Owned(id) \in Ref
BY DEF Owned, Ref

WithPageAt(t, s, i, v) == [WithNewPage(t, v) EXCEPT !.procs[s].refs[i] = Owned(t.nextPage)]

\* A page index that held nothing gets a page.
LEMMA MappedFields ==
  ASSUME NEW t, TableInv(t), CanAllocPage(t), NEW s \in Slots, NEW i \in UserPages,
         ~Mapped(t, s, i), NEW v,
         NEW u, u = WithPageAt(t, s, i, v)
  PROVE  OwnedTo(t, s, i, v, u)
<1>1. t.nextPage \in 0 .. MaxPageId /\ Owned(t.nextPage) \in Ref
  BY OwnedIsRef DEF CanAllocPage, PageIds
<1>2. RefAt(t, <<s, i>>).id = 0 /\ 0 \notin DOMAIN t.pages /\ t.nextPage \notin DOMAIN t.pages
  BY PageIdFresh DEF Mapped, RefAt
<1>3. PICK w : w = WithNewPage(t, v)
  OBVIOUS
<1>3a. NewPageTo(t, v, w)
  BY <1>3, WithNewPageFields
<1>4. /\ w = [procs |-> t.procs, pages |-> w.pages, nextPid |-> t.nextPid, nextPage |-> t.nextPage + 1]
      /\ w.pages = [k \in DOMAIN t.pages \cup {t.nextPage} |->
                      IF k = t.nextPage THEN [refcount |-> 1, data |-> v] ELSE t.pages[k]]
  BY <1>3a DEF NewPageTo
<1>5. u = [w EXCEPT !.procs[s].refs[i] = Owned(t.nextPage)]
  BY <1>3 DEF WithPageAt
<1> DEFINE procs == [t.procs EXCEPT ![s].refs[i] = Owned(t.nextPage)]
<1>6. EntrySet(t, s, i, Owned(t.nextPage), procs)
  BY <1>1, EntrySetFields
<1>7. u = [procs |-> procs, pages |-> w.pages, nextPid |-> t.nextPid, nextPage |-> t.nextPage + 1]
  BY <1>4, <1>5
<1> HIDE DEF procs
<1>8. u.procs = procs /\ u.pages = w.pages
      /\ u = [procs |-> u.procs, pages |-> u.pages, nextPid |-> t.nextPid, nextPage |-> t.nextPage + 1]
  BY <1>7
<1> QED BY <1>2, <1>4, <1>6, <1>8 DEF OwnedTo

\* The entry takes its page over.
TakenTo(t, s, i, u) ==
  /\ u = [procs |-> u.procs, pages |-> t.pages, nextPid |-> t.nextPid, nextPage |-> t.nextPage]
  /\ EntrySet(t, s, i, Owned(RefAt(t, <<s, i>>).id), u.procs)

LEMMA DuplicatedFields ==
  ASSUME NEW t, TableInv(t), NEW s \in Slots, NEW i \in UserPages, CanDuplicate(t, s, i),
         NEW u, u = Duplicated(t, s, i)
  PROVE  \/ /\ MustCopy(t, s, i) /\ CanAllocPage(t)
            /\ OwnedTo(t, s, i, t.pages[RefAt(t, <<s, i>>).id].data, u)
         \/ ~MustCopy(t, s, i) /\ TakenTo(t, s, i, u)
<1> DEFINE old == RefAt(t, <<s, i>>).id
<1>1. old = t.procs[s].refs[i].id
  BY DEF RefAt
<1>2. old \in DOMAIN t.pages
  BY <1>1 DEF CanDuplicate
<1>3. CASE MustCopy(t, s, i)
  <2>1. CanAllocPage(t) /\ t.nextPage \in 0 .. MaxPageId
    BY <1>3 DEF CanDuplicate, CanAllocPage, PageIds
  <2>2. Owned(t.nextPage) \in Ref
    BY <2>1, OwnedIsRef
  <2>3. PICK w : w = WithNewPage(t, t.pages[old].data)
    OBVIOUS
  <2>3a. NewPageTo(t, t.pages[old].data, w)
    BY <2>3, WithNewPageFields
  <2>4. /\ w = [procs |-> t.procs, pages |-> w.pages, nextPid |-> t.nextPid, nextPage |-> t.nextPage + 1]
        /\ w.pages = [k \in DOMAIN t.pages \cup {t.nextPage} |->
                        IF k = t.nextPage THEN [refcount |-> 1, data |-> t.pages[old].data]
                        ELSE t.pages[k]]
    BY <2>3a DEF NewPageTo
  <2>5. u = [w EXCEPT !.pages[old].refcount = @ - 1, !.procs[s].refs[i] = Owned(t.nextPage)]
    BY <1>1, <1>3, <2>3 DEF Duplicated, Owned
  <2> DEFINE procs == [t.procs EXCEPT ![s].refs[i] = Owned(t.nextPage)]
             pages == [w.pages EXCEPT ![old].refcount = @ - 1]
  <2>6. EntrySet(t, s, i, Owned(t.nextPage), procs)
    BY <2>2, EntrySetFields
  <2> HIDE DEF old
  <2>a. PICK x : x = [w EXCEPT !.pages[old].refcount = @ - 1]
    OBVIOUS
  <2>d. x = [w EXCEPT !.pages = pages]
    BY <2>a
  <2>e. w = [procs |-> t.procs, pages |-> w.pages, nextPid |-> t.nextPid, nextPage |-> t.nextPage + 1]
    BY <2>4
  <2> HIDE DEF pages
  <2>b. x = [procs |-> t.procs, pages |-> pages, nextPid |-> t.nextPid, nextPage |-> t.nextPage + 1]
    BY <2>d, <2>e
  <2>c. u = [x EXCEPT !.procs[s].refs[i] = Owned(t.nextPage)]
    BY <2>5, <2>a
  <2>7. u = [procs |-> procs, pages |-> pages, nextPid |-> t.nextPid, nextPage |-> t.nextPage + 1]
    BY <2>b, <2>c
  <2>8. old # t.nextPage
    BY <1>2, PageIdFresh
  <2>9. /\ DOMAIN pages = DOMAIN t.pages \cup {t.nextPage}
        /\ pages = [k \in DOMAIN pages |-> pages[k]]
        /\ pages[t.nextPage] = [refcount |-> 1, data |-> t.pages[old].data]
        /\ \A k \in DOMAIN t.pages \ {old} : pages[k] = t.pages[k]
    BY <1>2, <2>4, <2>8, PageIdFresh DEF pages
  <2>10. pages[old] = [t.pages[old] EXCEPT !.refcount = t.pages[old].refcount - 1]
    BY <1>2, <2>4, <2>8 DEF pages
  <2> HIDE DEF procs, pages
  <2>11. /\ u.procs = procs /\ u.pages = pages
         /\ u = [procs |-> u.procs, pages |-> u.pages, nextPid |-> t.nextPid, nextPage |-> t.nextPage + 1]
    BY <2>7
  <2>12. OwnedTo(t, s, i, t.pages[old].data, u)
    BY <2>6, <2>9, <2>10, <2>11 DEF OwnedTo, old
  <2> QED BY <1>3, <2>1, <2>12 DEF old
<1>4. CASE ~MustCopy(t, s, i)
  <2>1. Owned(old) \in Ref
    <3>1. t.procs[s].refs \in [UserPages -> Ref]
      BY DEF TableInv, TableTypes, Process
    <3>2. old \in 0 .. MaxPageId
      BY <1>1, <3>1 DEF Ref
    <3> QED BY <3>2, OwnedIsRef
  <2>2. u = [t EXCEPT !.procs[s].refs[i] = Owned(old)]
    BY <1>1, <1>4 DEF Duplicated, Owned
  <2>3. t = [procs |-> t.procs, pages |-> t.pages, nextPid |-> t.nextPid, nextPage |-> t.nextPage]
    BY DEF TableInv, TableTypes
  <2> DEFINE procs == [t.procs EXCEPT ![s].refs[i] = Owned(old)]
  <2> HIDE DEF old
  <2>4. EntrySet(t, s, i, Owned(old), procs)
    BY <2>1, EntrySetFields
  <2>5. u = [procs |-> procs, pages |-> t.pages, nextPid |-> t.nextPid, nextPage |-> t.nextPage]
    BY <2>2, <2>3
  <2> HIDE DEF procs
  <2>6. u.procs = procs /\ u = [procs |-> u.procs, pages |-> t.pages, nextPid |-> t.nextPid,
                                nextPage |-> t.nextPage]
    BY <2>5
  <2> QED BY <1>4, <2>4, <2>6 DEF old, TakenTo
<1> QED BY <1>3, <1>4

\* A page that need not be copied has no other user.
LEMMA SoleUser ==
  ASSUME NEW t, TableInv(t), NEW s \in Slots, NEW i \in UserPages, CanDuplicate(t, s, i),
         ~MustCopy(t, s, i), NEW q \in Positions, RefAt(t, q).id = RefAt(t, <<s, i>>).id
  PROVE  q = <<s, i>>
<1> DEFINE at == <<s, i>>
           k == RefAt(t, at).id
<1>1. at \in Positions /\ RefAt(t, at) = t.procs[s].refs[i]
  BY DEF Positions, RefAt
<1>2. k \in DOMAIN t.pages
  BY <1>1 DEF CanDuplicate
<1>3. CASE RefAt(t, at).writable
  BY <1>1, <1>3 DEF TableInv, RefsCounted
<1>4. CASE t.pages[k].refcount = 1
  <2>1. Cardinality(RefsTo(t, k)) = 1
    BY <1>2, <1>4 DEF TableInv, RefsCounted
  <2>2. PICK x : RefsTo(t, k) = {x}
    BY <2>1, RefsFinite, FS_Singleton
  <2>3. at \in RefsTo(t, k) /\ q \in RefsTo(t, k)
    BY <1>1 DEF RefsTo, RefAt, Positions
  <2> QED BY <2>2, <2>3
<1>5. RefAt(t, at).writable \/ t.pages[k].refcount = 1
  BY <1>1 DEF MustCopy
<1> QED BY <1>3, <1>4, <1>5

LEMMA DuplicatedPreserves ==
  ASSUME NEW t, TableInv(t), NEW s \in Slots, s \notin FreeSlots(t), NEW i \in UserPages,
         CanDuplicate(t, s, i), NEW u, u = Duplicated(t, s, i)
  PROVE  TableInv(u)
<1> DEFINE at == <<s, i>>
           old == RefAt(t, at).id
<1>1. at \in Positions /\ RefAt(t, at) = t.procs[s].refs[i]
  BY DEF Positions, RefAt
<1>2. old \in DOMAIN t.pages /\ old # 0
  BY <1>1 DEF CanDuplicate, Mapped
<1>3. CASE MustCopy(t, s, i)
  <2>1. OwnedTo(t, s, i, t.pages[old].data, u) /\ CanAllocPage(t)
    BY <1>3, DuplicatedFields
  <2>2. t.pages[old].data \in Values
    BY <1>2 DEF TableInv, TableTypes, Page
  <2>3. t.pages[old].refcount # 1
    BY <1>1, <1>3 DEF MustCopy
  <2> QED BY <2>1, <2>2, <2>3, OwnedPreserves
<1>4. CASE ~MustCopy(t, s, i)
  <2>1. /\ u = [procs |-> u.procs, pages |-> t.pages, nextPid |-> t.nextPid, nextPage |-> t.nextPage]
        /\ EntrySet(t, s, i, Owned(old), u.procs)
    BY <1>4, DuplicatedFields DEF TakenTo
  <2>2. u.pages = t.pages /\ u.nextPid = t.nextPid /\ u.nextPage = t.nextPage
    BY <2>1
  <2>3. \A q \in Positions : RefAt(t, q).id = old => q = at
    BY <1>4, SoleUser
  <2>4. \A r \in Positions : RefAt(u, r) = IF r = at THEN Owned(old) ELSE RefAt(t, r)
    BY <2>1 DEF EntrySet, RefAt
  <2>5. Owned(old).id = old /\ ~Owned(old).cow
    BY DEF Owned
  <2>6. TableTypes(u)
    BY <2>1, <2>2 DEF TableInv, TableTypes, EntrySet
  <2>7. PidsNameSlots(u)
    BY <2>1, <2>2 DEF TableInv, PidsNameSlots, EntrySet
  <2> HIDE DEF at, old
  <2>8. \A r \in Positions : RefAt(u, r).id = RefAt(t, r).id
    BY <2>4, <2>5 DEF old
  <2>9. \A k : RefsTo(u, k) = RefsTo(t, k)
    BY <2>8 DEF RefsTo, RefAt, Positions
  <2>10. FreeSlots(u) = FreeSlots(t) /\ \A r \in FreeSlots(t) : u.procs[r] = t.procs[r]
    BY <2>1 DEF EntrySet, FreeSlots
  <2>11. \A r \in Positions : RefAt(u, r).writable =>
           /\ RefAt(u, r).id # 0 /\ ~RefAt(u, r).cow
           /\ \A q \in Positions : RefAt(u, q).id = RefAt(u, r).id => q = r
    BY <1>2, <2>3, <2>4, <2>5, <2>8 DEF TableInv, RefsCounted
  <2>12. RefsCounted(u)
    BY <2>2, <2>8, <2>9, <2>10, <2>11 DEF TableInv, RefsCounted
  <2> QED BY <2>6, <2>7, <2>12 DEF TableInv
<1> QED BY <1>3, <1>4

\* A page is stored to.
Stored(t, k, v) == [t EXCEPT !.pages[k].data = v]

StoredTo(t, k, v, u) ==
  /\ u = [procs |-> t.procs, pages |-> u.pages, nextPid |-> t.nextPid, nextPage |-> t.nextPage]
  /\ u.pages \in [DOMAIN t.pages -> Page]
  /\ \A j \in DOMAIN t.pages : /\ u.pages[j].refcount = t.pages[j].refcount
                               /\ u.pages[j].data = IF j = k THEN v ELSE t.pages[j].data

LEMMA StoredFields ==
  ASSUME NEW t, TableInv(t), NEW k \in DOMAIN t.pages, NEW v \in Values,
         NEW u, u = Stored(t, k, v)
  PROVE  StoredTo(t, k, v, u)
<1>1. t = [procs |-> t.procs, pages |-> t.pages, nextPid |-> t.nextPid, nextPage |-> t.nextPage]
      /\ t.pages \in [DOMAIN t.pages -> Page]
  BY DEF TableInv, TableTypes
<1> DEFINE pages == [t.pages EXCEPT ![k].data = v]
<1>2. u = [procs |-> t.procs, pages |-> pages, nextPid |-> t.nextPid, nextPage |-> t.nextPage]
  BY <1>1 DEF Stored
<1>3. \A j \in DOMAIN t.pages : pages[j] = IF j = k THEN [t.pages[k] EXCEPT !.data = v] ELSE t.pages[j]
  BY <1>1
<1>4. DOMAIN pages = DOMAIN t.pages /\ pages = [j \in DOMAIN t.pages |-> pages[j]]
  BY <1>1
<1> HIDE DEF pages
<1>5. \A j \in DOMAIN t.pages : /\ pages[j] \in Page
                                /\ pages[j].refcount = t.pages[j].refcount
                                /\ pages[j].data = IF j = k THEN v ELSE t.pages[j].data
  <2> TAKE j \in DOMAIN t.pages
  <2>1. t.pages[j] \in Page
    BY <1>1
  <2> QED BY <2>1, <1>3 DEF Page
<1>6. u.pages = pages
      /\ u = [procs |-> t.procs, pages |-> u.pages, nextPid |-> t.nextPid, nextPage |-> t.nextPage]
  BY <1>2
<1>7. pages \in [DOMAIN t.pages -> Page]
  BY <1>4, <1>5
<1> QED BY <1>5, <1>6, <1>7 DEF StoredTo

LEMMA StoredPreserves ==
  ASSUME NEW t, TableInv(t), NEW k \in DOMAIN t.pages, NEW v \in Values,
         NEW u, u = Stored(t, k, v)
  PROVE  TableInv(u)
<1>0. StoredTo(t, k, v, u)
  BY StoredFields
<1>1. /\ u = [procs |-> t.procs, pages |-> u.pages, nextPid |-> t.nextPid, nextPage |-> t.nextPage]
      /\ u.pages \in [DOMAIN t.pages -> Page]
      /\ \A j \in DOMAIN t.pages : u.pages[j].refcount = t.pages[j].refcount
  BY <1>0 DEF StoredTo
<1>2. u.procs = t.procs /\ u.nextPid = t.nextPid /\ u.nextPage = t.nextPage
      /\ DOMAIN u.pages = DOMAIN t.pages
  BY <1>1
<1>3. TableTypes(u)
  BY <1>1, <1>2 DEF TableInv, TableTypes
<1>4. PidsNameSlots(u)
  BY <1>2 DEF TableInv, PidsNameSlots
<1>5. RefsCounted(u)
  <2>1. (\A r : RefAt(u, r) = RefAt(t, r)) /\ (\A j : RefsTo(u, j) = RefsTo(t, j))
        /\ FreeSlots(u) = FreeSlots(t)
    BY <1>2 DEF RefAt, RefsTo, FreeSlots
  <2> QED BY <1>1, <1>2, <2>1 DEF TableInv, RefsCounted
<1> QED BY <1>3, <1>4, <1>5 DEF TableInv

\* Who is found where depends on pids and on which slots are used.
LEMMA SameSlot ==
  ASSUME NEW t, NEW u, NEW pid,
         \A r \in Slots : /\ u.procs[r].pid = t.procs[r].pid
                          /\ u.procs[r].state = "UNUSED" <=> t.procs[r].state = "UNUSED"
  PROVE  SlotOf(u, pid) = SlotOf(t, pid)
<1> DEFINE found(x) == {s \in Slots : x.procs[s].state # "UNUSED" /\ x.procs[s].pid = pid}
           first(F) == IF pid = 0 \/ F = {} THEN 0 ELSE CHOOSE s \in F : \A r \in F : s <= r
<1>1. found(u) = found(t)
  OBVIOUS
<1>2. SlotOf(t, pid) = first(found(t)) /\ SlotOf(u, pid) = first(found(u))
  BY DEF SlotOf
<1> HIDE DEF found, first
<1> QED BY <1>1, <1>2

-----------------------------------------------------------------------------
(* The specification *)

TableOK == TableInv(table)

LEMMA InitTable == Init => TableOK
<1> SUFFICES ASSUME Init PROVE TableInv(table)
  BY DEF TableOK
<1> DEFINE none == [i \in UserPages |-> NoRef]
           procs == [s \in Slots |->
                      IF s = 1 THEN [Cleared EXCEPT !.pid = 1, !.state = "READY"] ELSE Cleared]
           pages == [k \in {} |-> [refcount |-> 0, data |-> 0]]
<1>1. table = [procs |-> procs, pages |-> pages, nextPid |-> 2, nextPage |-> 1]
  BY DEF Init
<1>2. Cleared = [pid |-> 0, ppid |-> 0, state |-> "UNUSED", refs |-> none]
  BY DEF Cleared
<1>3. none \in [UserPages -> Ref] /\ \A i \in UserPages : none[i] = NoRef
  BY DEF NoRef, Ref
<1>4. \A s \in Slots : procs[s] = [pid |-> IF s = 1 THEN 1 ELSE 0, ppid |-> 0,
                                   state |-> IF s = 1 THEN "READY" ELSE "UNUSED", refs |-> none]
  BY <1>2
<1>5. DOMAIN procs = Slots /\ procs = [s \in Slots |-> procs[s]]
  OBVIOUS
<1> HIDE DEF none, procs
<1>6. \A s \in Slots : procs[s] \in Process
  <2> TAKE s \in Slots
  <2>1. PICK n \in {0, 1}, state \in {"READY", "UNUSED"} :
          procs[s] = [pid |-> n, ppid |-> 0, state |-> state, refs |-> none]
    BY <1>4
  <2>2. n \in 0 .. MaxPid /\ 0 \in 0 .. MaxPid /\ state \in States
    BY DEF States
  <2> QED BY <1>3, <2>1, <2>2 DEF Process
<1>7. procs \in [Slots -> Process]
  BY <1>5, <1>6
<1>8. DOMAIN pages = {} /\ pages \in [{} -> Page]
  OBVIOUS
<1> HIDE DEF pages
<1>9. table.procs = procs /\ table.pages = pages /\ table.nextPid = 2 /\ table.nextPage = 1
  BY <1>1
<1>10. Cardinality(DOMAIN table.pages) = 0
  BY <1>8, <1>9, FS_EmptySet
<1>11. TableTypes(table)
  BY <1>1, <1>7, <1>8, <1>9, <1>10 DEF TableTypes
<1>a. \A s \in Slots : /\ table.procs[s].pid = (IF s = 1 THEN 1 ELSE 0)
                        /\ table.procs[s].state = (IF s = 1 THEN "READY" ELSE "UNUSED")
                        /\ table.procs[s].refs = none
  <2> TAKE s \in Slots
  <2>1. CASE s = 1
    <3>1. table.procs[s] = [pid |-> 1, ppid |-> 0, state |-> "READY", refs |-> none]
      BY <1>4, <1>9, <2>1
    <3> QED BY <2>1, <3>1
  <2>2. CASE s # 1
    <3>1. table.procs[s] = [pid |-> 0, ppid |-> 0, state |-> "UNUSED", refs |-> none]
      BY <1>4, <1>9, <2>2
    <3> QED BY <2>2, <3>1
  <2> QED BY <2>1, <2>2
<1>12. PidsNameSlots(table)
  BY <1>9, <1>a DEF PidsNameSlots
<1>13. \A r \in Positions : RefAt(table, r) = NoRef
  BY <1>3, <1>a DEF RefAt, Positions
<1>14. RefsCounted(table)
  <2>1. \A r \in Positions : RefAt(table, r).id = 0 /\ ~RefAt(table, r).writable
    BY <1>13 DEF NoRef
  <2>2. \A s \in FreeSlots(table) : table.procs[s].refs = [i \in UserPages |-> NoRef]
    BY <1>a DEF FreeSlots, none
  <2> QED BY <1>8, <1>9, <2>1, <2>2 DEF RefsCounted
<1> QED BY <1>11, <1>12, <1>14 DEF TableInv

\* The operations on a table that the actions are made of keep it in order.
LEMMA ExecPreserves ==
  ASSUME TableInv(table), NEW p \in Pids, Exec(p)
  PROVE  TableInv(table')
<1> DEFINE s == SlotOf(table, p)
           v == Released(table, s)
<1>1. s \in Slots /\ table.procs[s].state \in Live /\ IsLive(table, p)
  BY LiveSlot DEF Exec
<1>2. TableInv(v) /\ ReleasedTo(table, s, v)
  BY <1>1, ReleasedPreserves, ReleasedFields
<1> HIDE DEF v
<1>3. SlotOf(v, p) = s
  BY <1>2, SameSlot DEF ReleasedTo
<1>4. table' = StateSet(v, s, "READY")
  BY <1>3 DEF Exec, SetState, StateSet, v
<1>5. v.procs[s].state # "UNUSED"
  BY <1>1, <1>2 DEF ReleasedTo, Live
<1> QED BY <1>1, <1>2, <1>4, <1>5, SetStatePreserves

LEMMA SetStateOfPreserves ==
  ASSUME NEW t, TableInv(t), NEW p \in Pids, SlotOf(t, p) # 0,
         NEW state \in {"READY", "RUNNING", "BLOCKED", "ZOMBIE"}, NEW u, u = SetState(t, p, state)
  PROVE  TableInv(u)
<1>1. u = StateSet(t, SlotOf(t, p), state)
  BY DEF SetState, StateSet
<1> QED BY <1>1, SlotFacts, SetStatePreserves

LEMMA EndPreserves ==
  ASSUME TableInv(table), NEW p \in Pids, NEW q \in Pids, Exit(p) \/ Kill(q, p)
  PROVE  TableInv(table')
<1>1. SlotOf(table, p) # 0 /\ table' = SetState(table, p, "ZOMBIE")
  BY DEF Exit, Kill, IsLive, StateOf, Live
<1> QED BY <1>1, SetStateOfPreserves

LEMMA WaitPreserves ==
  ASSUME TableInv(table), NEW p \in Pids, NEW q \in Pids, Wait(p) \/ Waitpid(p, q)
  PROVE  TableInv(table')
<1>1. CASE Wait(p)
  <2>1. PICK s \in Slots : table.procs[s].state = "ZOMBIE" /\ table' = Reaped(table, s)
    BY <1>1 DEF Wait
  <2> QED BY <2>1, ReapedPreserves
<1>2. CASE Waitpid(p, q)
  <2>1. SlotOf(table, q) \in Slots
    BY <1>2, SlotFacts DEF Waitpid
  <2> QED BY <1>2, <2>1, ReapedPreserves DEF Waitpid
<1> QED BY <1>1, <1>2

LEMMA MapPreserves ==
  ASSUME TableInv(table), NEW p \in Pids, NEW i \in UserPages, NEW v \in Values,
         MapUserPage(p, i, v)
  PROVE  TableInv(table')
<1> DEFINE s == SlotOf(table, p)
<1>1. s \in Slots /\ s \notin FreeSlots(table)
  BY LiveSlot DEF MapUserPage
<1>2. ~Mapped(table, s, i) /\ CanAllocPage(table)
      /\ table' = WithPageAt(table, s, i, v)
  BY DEF MapUserPage, Owned, WithPageAt
<1> HIDE DEF s
<1>3. OwnedTo(table, s, i, v, table')
  BY <1>1, <1>2, MappedFields
<1>4. \A k \in DOMAIN table.pages : k # RefAt(table, <<s, i>>).id
  BY <1>2, PageIdFresh DEF Mapped, RefAt
<1> QED BY <1>1, <1>2, <1>3, <1>4, OwnedPreserves

\* The entry a store goes through names a page of its own.
LEMMA DuplicatedEntry ==
  ASSUME NEW t, TableInv(t), NEW s \in Slots, s \notin FreeSlots(t), NEW i \in UserPages,
         CanDuplicate(t, s, i), NEW u, u = Duplicated(t, s, i)
  PROVE  /\ RefAt(u, <<s, i>>) = u.procs[s].refs[i] /\ <<s, i>> \in Positions
         /\ RefAt(u, <<s, i>>).id \in DOMAIN u.pages
         /\ RefAt(u, <<s, i>>).writable
<1>1. <<s, i>> \in Positions /\ RefAt(u, <<s, i>>) = u.procs[s].refs[i]
  BY DEF Positions, RefAt
<1>2. TableInv(u)
  BY DuplicatedPreserves
<1>3. PICK id : EntrySet(t, s, i, Owned(id), u.procs)
  BY DuplicatedFields DEF OwnedTo, TakenTo
<1>4. RefAt(u, <<s, i>>) = Owned(id)
  BY <1>1, <1>3 DEF EntrySet, RefAt
<1>5. RefAt(u, <<s, i>>).writable
  BY <1>4 DEF Owned
<1> QED BY <1>1, <1>2, <1>5 DEF TableInv, RefsCounted

LEMMA StorePreserves ==
  ASSUME TableInv(table), NEW p \in Pids, NEW i \in UserPages, NEW v \in Values,
         CowStoreFault(p, i) \/ WriteUserByte(p, i, v)
  PROVE  TableInv(table')
<1> DEFINE s == SlotOf(table, p)
           own == Duplicated(table, s, i)
<1>1. s \in Slots /\ s \notin FreeSlots(table) /\ CanDuplicate(table, s, i)
  BY LiveSlot DEF CowStoreFault, WriteUserByte
<1>2. TableInv(own) /\ own.procs[s].refs[i].id \in DOMAIN own.pages
  <2>1. TableInv(own)
    BY <1>1, DuplicatedPreserves
  <2>2. RefAt(own, <<s, i>>) = own.procs[s].refs[i] /\ RefAt(own, <<s, i>>).id \in DOMAIN own.pages
    BY <1>1, DuplicatedEntry
  <2> QED BY <2>1, <2>2
<1>3. table' = own \/ table' = Stored(own, own.procs[s].refs[i].id, v)
  BY DEF CowStoreFault, WriteUserByte, Stored
<1> HIDE DEF own, s
<1> QED BY <1>2, <1>3, StoredPreserves

LEMMA NextTable == TableOK /\ [Next]_table => TableOK'
<1> SUFFICES ASSUME TableInv(table), [Next]_table PROVE TableInv(table')
  BY DEF TableOK
<1>0. CASE UNCHANGED table
  BY <1>0
<1>1. CASE Spawn
  <2>1. 0 \in 0 .. MaxPid
    OBVIOUS
  <2> QED BY <1>1, <2>1, SpawnedPreserves DEF Spawn
<1>2. ASSUME NEW p \in Pids, Fork(p)
      PROVE  TableInv(table')
  BY <1>2, ForkedPreserves DEF Fork
<1>3. CASE \E p \in Pids : Exec(p)
  BY <1>3, ExecPreserves
<1>4. CASE \E p \in Pids : Exit(p)
  BY <1>4, EndPreserves
<1>5. CASE \E p, q \in Pids : Kill(p, q)
  BY <1>5, EndPreserves
<1>6. CASE \E p \in Pids : Wait(p)
  BY <1>6, WaitPreserves
<1>7. CASE \E p, q \in Pids : Waitpid(p, q)
  BY <1>7, WaitPreserves
<1>8. ASSUME NEW p \in Pids, NEW i \in UserPages, NEW v \in Values, MapUserPage(p, i, v)
      PROVE  TableInv(table')
  BY <1>8, MapPreserves
<1>9. ASSUME NEW p \in Pids, NEW i \in UserPages, NEW v \in Values, WriteUserByte(p, i, v)
      PROVE  TableInv(table')
  BY <1>9, StorePreserves
<1>10. ASSUME NEW p \in Pids, NEW i \in UserPages, CowStoreFault(p, i)
       PROVE  TableInv(table')
  <2> DEFINE s == SlotOf(table, p)
  <2>1. s \in Slots /\ s \notin FreeSlots(table) /\ CanDuplicate(table, s, i)
    BY <1>10, LiveSlot DEF CowStoreFault
  <2>2. table' = Duplicated(table, s, i)
    BY <1>10 DEF CowStoreFault
  <2> QED BY <2>1, <2>2, DuplicatedPreserves
<1> QED BY <1>0, <1>1, <1>2, <1>3, <1>4, <1>5, <1>6, <1>7, <1>8, <1>9, <1>10 DEF Next

LEMMA TableInvariant == Spec => []TableOK
BY InitTable, NextTable, PTL DEF Spec

LEMMA TableInvAccounts == TableOK => PagesAccounted
<1> SUFFICES ASSUME TableInv(table) PROVE PagesAccounted
  BY DEF TableOK
<1>1. \A s \in Slots, i \in UserPages :
        <<s, i>> \in Positions /\ RefAt(table, <<s, i>>) = table.procs[s].refs[i]
  BY DEF Positions, RefAt
<1>2. TypeOK
  <2>1. \A k \in DOMAIN table.pages :
          k \in PageIds /\ table.pages[k] \in [refcount : Nat \ {0}, data : Values]
    BY DEF TableInv, TableTypes, Page, PageIds
  <2> QED BY <2>1 DEF TypeOK, TableInv, TableTypes, PidsNameSlots
<1>3. RefcountsExact
  <2>1. \A s \in Slots, i \in UserPages :
          Mapped(table, s, i) => table.procs[s].refs[i].id \in DOMAIN table.pages
    <3> TAKE s \in Slots, i \in UserPages
    <3>1. <<s, i>> \in Positions /\ RefAt(table, <<s, i>>) = table.procs[s].refs[i]
      BY <1>1
    <3> QED BY <3>1 DEF TableInv, RefsCounted, Mapped
  <2> QED BY <2>1 DEF RefcountsExact, TableInv, RefsCounted
<1>4. WritableIsSole
  <2> SUFFICES ASSUME NEW s \in Slots, NEW i \in UserPages, table.procs[s].refs[i].writable
               PROVE  RefsTo(table, table.procs[s].refs[i].id) = {<<s, i>>}
    BY DEF WritableIsSole
  <2> DEFINE id == table.procs[s].refs[i].id
  <2>a. <<s, i>> \in Positions /\ RefAt(table, <<s, i>>) = table.procs[s].refs[i]
    BY <1>1
  <2>1. \A q \in Positions : RefAt(table, q).id = id => q = <<s, i>>
    BY <2>a DEF TableInv, RefsCounted
  <2>2. \A q \in Positions : q \in RefsTo(table, id) <=> RefAt(table, q).id = id
    BY DEF RefsTo, RefAt, Positions
  <2>3. RefsTo(table, id) \subseteq Positions /\ <<s, i>> \in RefsTo(table, id)
    BY <1>1, <2>2, RefsFinite
  <2> QED BY <2>1, <2>2, <2>3
<1> QED BY <1>2, <1>3, <1>4 DEF PagesAccounted

\* No sequence of spawns, forks, stores, execs, exits, kills and waits breaks the accounts of
\* the copy-on-write pages (course_process.c): every page-table entry names a page that
\* exists, a page's count is the number of entries that name it, and a page that may be
\* stored to without a fault has one user.
THEOREM AccountsKept == Spec => []PagesAccounted
BY TableInvariant, TableInvAccounts, PTL

-----------------------------------------------------------------------------
(* Processes are kept until they are reaped *)

\* What the steps of KeptUntilReaped do.
Keeps(t, u) ==
  \A s \in Slots :
    t.procs[s].state \notin {"UNUSED", "DEAD"} =>
      /\ u.procs[s].pid = t.procs[s].pid
      /\ u.procs[s].ppid = t.procs[s].ppid
      /\ u.procs[s].state = "DEAD" => t.procs[s].state = "ZOMBIE"

LEMMA SetStateKeeps ==
  ASSUME NEW t, TableInv(t), NEW p \in Pids, SlotOf(t, p) # 0,
         NEW state \in {"READY", "RUNNING", "BLOCKED", "ZOMBIE"}, NEW u, u = SetState(t, p, state)
  PROVE  Keeps(t, u)
<1>1. u = StateSet(t, SlotOf(t, p), state) /\ SlotOf(t, p) \in Slots
  BY SlotFacts DEF SetState, StateSet
<1>2. \A r \in Slots : u.procs[r].pid = t.procs[r].pid /\ u.procs[r].ppid = t.procs[r].ppid
                       /\ u.procs[r].state = IF r = SlotOf(t, p) THEN state ELSE t.procs[r].state
  <2>1. StateSetTo(t, SlotOf(t, p), state, u)
    BY <1>1, SetStateFields
  <2> QED BY <2>1 DEF StateSetTo
<1> QED BY <1>2 DEF Keeps

LEMMA ExecKeeps ==
  ASSUME TableInv(table), NEW p \in Pids, Exec(p)
  PROVE  Keeps(table, table')
<1> DEFINE s == SlotOf(table, p)
           v == Released(table, s)
<1>1. s \in Slots /\ s # 0
  BY LiveSlot DEF Exec
<1>2. TableInv(v) /\ ReleasedTo(table, s, v)
  BY <1>1, ReleasedPreserves, ReleasedFields
<1>3. table' = SetState(v, p, "READY")
  BY DEF Exec
<1> HIDE DEF v
<1>4. SlotOf(v, p) = s
  BY <1>2, SameSlot DEF ReleasedTo
<1>5. Keeps(v, table')
  BY <1>1, <1>2, <1>3, <1>4, SetStateKeeps
<1> QED BY <1>2, <1>5 DEF Keeps, ReleasedTo

LEMMA ReapedKeeps ==
  ASSUME NEW t, TableInv(t), NEW s \in Slots, t.procs[s].state = "ZOMBIE", NEW u, u = Reaped(t, s)
  PROVE  Keeps(t, u)
<1> DEFINE v == Released(t, s)
<1>1. TableInv(v) /\ ReleasedTo(t, s, v)
  BY ReleasedPreserves, ReleasedFields
<1>2. u = StateSet(v, s, "DEAD")
  BY DEF Reaped, StateSet
<1> HIDE DEF v
<1>3. \A r \in Slots : u.procs[r].pid = v.procs[r].pid /\ u.procs[r].ppid = v.procs[r].ppid
                       /\ u.procs[r].state = IF r = s THEN "DEAD" ELSE v.procs[r].state
  <2>1. StateSetTo(v, s, "DEAD", u)
    BY <1>1, <1>2, SetStateFields
  <2> QED BY <2>1 DEF StateSetTo
<1> QED BY <1>1, <1>3 DEF Keeps, ReleasedTo

LEMMA BirthKeeps ==
  ASSUME TableInv(table), NEW p \in Pids, Spawn \/ Fork(p)
  PROVE  Keeps(table, table')
<1> DEFINE child == SpawnSlot(table)
<1>1. child \in FreeSlots(table)
  BY SpawnSlotFacts DEF Spawn, Fork, CanSpawn
<1>2. \A r \in Slots \ {child} : /\ table'.procs[r].pid = table.procs[r].pid
                                 /\ table'.procs[r].ppid = table.procs[r].ppid
                                 /\ table'.procs[r].state = table.procs[r].state
  <2>1. CASE Spawn
    <3>1. 0 \in 0 .. MaxPid
      OBVIOUS
    <3>2. SpawnedTo(table, 0, child, table')
      BY <2>1, <3>1, SpawnedFields DEF Spawn
    <3> HIDE DEF child
    <3> QED BY <3>2 DEF SpawnedTo
  <2>2. CASE Fork(p)
    <3>1. ForkedTo(table, SlotOf(table, p), child, table')
      BY <2>2, ForkedFields DEF Fork
    <3> HIDE DEF child
    <3> QED BY <3>1 DEF ForkedTo
  <2> QED BY <2>1, <2>2
<1> QED BY <1>1, <1>2 DEF Keeps, FreeSlots

LEMMA PageKeeps ==
  ASSUME TableInv(table), NEW p \in Pids, NEW i \in UserPages,
         CowStoreFault(p, i) \/ \E v \in Values : MapUserPage(p, i, v) \/ WriteUserByte(p, i, v)
  PROVE  \A r \in Slots : /\ table'.procs[r].pid = table.procs[r].pid
                          /\ table'.procs[r].ppid = table.procs[r].ppid
                          /\ table'.procs[r].state = table.procs[r].state
<1> DEFINE s == SlotOf(table, p)
           own == Duplicated(table, s, i)
<1>0. s \in Slots /\ s \notin FreeSlots(table)
  BY LiveSlot DEF CowStoreFault, MapUserPage, WriteUserByte
<1>1. ASSUME CanDuplicate(table, s, i)
      PROVE  \A r \in Slots : /\ own.procs[r].pid = table.procs[r].pid
                              /\ own.procs[r].ppid = table.procs[r].ppid
                              /\ own.procs[r].state = table.procs[r].state
  <2>1. \/ OwnedTo(table, s, i, table.pages[RefAt(table, <<s, i>>).id].data, own)
        \/ TakenTo(table, s, i, own)
    BY <1>0, <1>1, DuplicatedFields
  <2>2. \E ref : EntrySet(table, s, i, ref, own.procs)
    BY <2>1 DEF OwnedTo, TakenTo
  <2> HIDE DEF own, s
  <2> QED BY <2>2 DEF EntrySet
<1>2. CASE CowStoreFault(p, i)
  BY <1>1, <1>2 DEF CowStoreFault
<1>3. ASSUME NEW v \in Values, WriteUserByte(p, i, v)
      PROVE  table'.procs = own.procs /\ CanDuplicate(table, s, i)
  <2>1. CanDuplicate(table, s, i)
    BY <1>3 DEF WriteUserByte
  <2>2. TableInv(own) /\ own.procs[s].refs[i].id \in DOMAIN own.pages
    <3>1. TableInv(own)
      BY <1>0, <2>1, DuplicatedPreserves
    <3>2. RefAt(own, <<s, i>>) = own.procs[s].refs[i] /\ RefAt(own, <<s, i>>).id \in DOMAIN own.pages
      BY <1>0, <2>1, DuplicatedEntry
    <3> QED BY <3>1, <3>2
  <2>3. table' = Stored(own, own.procs[s].refs[i].id, v)
    BY <1>3 DEF WriteUserByte, Stored
  <2> HIDE DEF own, s
  <2>4. table'.procs = own.procs
    BY <2>2, <2>3, StoredFields DEF StoredTo
  <2> QED BY <2>1, <2>4
<1>4. ASSUME NEW v \in Values, MapUserPage(p, i, v)
      PROVE  OwnedTo(table, s, i, v, table')
  BY <1>0, <1>4, MappedFields DEF MapUserPage, Owned, WithPageAt
<1> HIDE DEF own, s
<1>5. CASE \E v \in Values : WriteUserByte(p, i, v)
  BY <1>1, <1>3, <1>5
<1>6. CASE \E v \in Values : MapUserPage(p, i, v)
  BY <1>4, <1>6 DEF OwnedTo, EntrySet
<1> QED BY <1>2, <1>5, <1>6

LEMMA NextKeeps == TableOK /\ [Next]_table => Keeps(table, table')
<1> SUFFICES ASSUME TableInv(table), [Next]_table PROVE Keeps(table, table')
  BY DEF TableOK
<1>0. CASE UNCHANGED table
  BY <1>0 DEF Keeps
<1>1. CASE Spawn \/ \E p \in Pids : Fork(p)
  <2>1. 1 \in Pids
    BY DEF Pids
  <2> QED BY <1>1, <2>1, BirthKeeps
<1>2. CASE \E p \in Pids : Exec(p)
  BY <1>2, ExecKeeps
<1>3. CASE \E p, q \in Pids : Exit(p) \/ Kill(p, q)
  <2>1. PICK p \in Pids : SlotOf(table, p) # 0 /\ table' = SetState(table, p, "ZOMBIE")
    BY <1>3 DEF Exit, Kill, IsLive, StateOf, Live
  <2> QED BY <2>1, SetStateKeeps
<1>4. CASE \E p, q \in Pids : Wait(p) \/ Waitpid(p, q)
  <2>1. PICK s \in Slots : table.procs[s].state = "ZOMBIE" /\ table' = Reaped(table, s)
    BY <1>4, SlotFacts DEF Wait, Waitpid
  <2> QED BY <2>1, ReapedKeeps
<1>5. CASE \E p \in Pids, i \in UserPages :
             CowStoreFault(p, i) \/ \E v \in Values : MapUserPage(p, i, v) \/ WriteUserByte(p, i, v)
  BY <1>5, PageKeeps DEF Keeps
<1> QED BY <1>0, <1>1, <1>2, <1>3, <1>4, <1>5 DEF Next

\* A process keeps its slot, its pid and its parent until it is a zombie that its parent
\* waits for, whatever other processes come, go and are killed (alloc_process takes only
\* unused and reaped slots).
THEOREM KeptWhileWaitedFor == Spec => KeptUntilReaped
<1>1. TableOK /\ [Next]_table =>
        [\A s \in Slots :
           table.procs[s].state \notin {"UNUSED", "DEAD"} =>
             /\ table'.procs[s].pid = table.procs[s].pid
             /\ table'.procs[s].ppid = table.procs[s].ppid
             /\ table'.procs[s].state = "DEAD" => table.procs[s].state = "ZOMBIE"]_table
  BY NextKeeps DEF Keeps
<1> QED BY <1>1, TableInvariant, PTL DEF Spec, KeptUntilReaped

-----------------------------------------------------------------------------
(* Every process sees pages of its own *)

\* What an entry shows of the memory.
Cell(t, r) == IF RefAt(t, r).id = 0 THEN "unmapped" ELSE t.pages[RefAt(t, r).id].data

\* MemoryOf, of any table.
View(t, pid) ==
  LET s == SlotOf(t, pid)
  IN  [i \in UserPages |-> IF s = 0 \/ ~Mapped(t, s, i) THEN "unmapped"
                           ELSE t.pages[t.procs[s].refs[i].id].data]

Nothing == [i \in UserPages |-> "unmapped"]

LEMMA ViewCells ==
  ASSUME NEW t, NEW pid
  PROVE  View(t, pid) = [i \in UserPages |-> IF SlotOf(t, pid) = 0 THEN "unmapped"
                                             ELSE Cell(t, <<SlotOf(t, pid), i>>)]
BY DEF View, Cell, RefAt, Mapped

\* The same processes in the same slots.
SameNames(t, u) ==
  \A r \in Slots : /\ u.procs[r].pid = t.procs[r].pid
                   /\ u.procs[r].state = "UNUSED" <=> t.procs[r].state = "UNUSED"

LEMMA SameView ==
  ASSUME NEW t, TableInv(t), NEW u, SameNames(t, u), NEW pid \in Pids,
         \A i \in UserPages : SlotOf(t, pid) # 0 =>
           Cell(u, <<SlotOf(t, pid), i>>) = Cell(t, <<SlotOf(t, pid), i>>)
  PROVE  View(u, pid) = View(t, pid)
<1>1. SlotOf(u, pid) = SlotOf(t, pid)
  BY SameSlot DEF SameNames
<1> QED BY <1>1, ViewCells

\* What changes in one slot shows in one process.
LEMMA OtherViews ==
  ASSUME NEW t, TableInv(t), NEW u, SameNames(t, u), NEW p \in Pids,
         \A r \in Positions : r[1] # SlotOf(t, p) => Cell(u, r) = Cell(t, r),
         NEW q \in Pids, q # p
  PROVE  View(u, q) = View(t, q)
<1>1. CASE SlotOf(t, q) = 0
  BY <1>1, SameView
<1>2. CASE SlotOf(t, q) # 0
  <2>1. SlotOf(t, q) \in Slots /\ t.procs[SlotOf(t, q)].pid = q
    BY <1>2, SlotFacts
  <2>2. SlotOf(t, p) # SlotOf(t, q)
    <3>1. CASE SlotOf(t, p) = 0
      BY <1>2, <3>1
    <3>2. CASE SlotOf(t, p) # 0
      <4>1. t.procs[SlotOf(t, p)].pid = p
        BY <3>2, SlotFacts
      <4> QED BY <2>1, <4>1
    <3> QED BY <3>1, <3>2
  <2>3. \A i \in UserPages : <<SlotOf(t, q), i>> \in Positions
    BY <2>1 DEF Positions
  <2>4. \A i \in UserPages : Cell(u, <<SlotOf(t, q), i>>) = Cell(t, <<SlotOf(t, q), i>>)
    BY <2>2, <2>3
  <2> QED BY <2>4, SameView
<1> QED BY <1>1, <1>2

LEMMA SetStateViews ==
  ASSUME NEW t, TableInv(t), NEW s \in Slots, t.procs[s].state # "UNUSED",
         NEW state \in States \ {"UNUSED"}, NEW u, u = StateSet(t, s, state)
  PROVE  SameNames(t, u) /\ \A r \in Positions : Cell(u, r) = Cell(t, r)
<1>1. StateSetTo(t, s, state, u)
  BY SetStateFields
<1>2. u.pages = t.pages
  BY <1>1 DEF StateSetTo
<1>3. \A r \in Positions : RefAt(u, r) = RefAt(t, r)
  BY <1>1 DEF RefAt, Positions, StateSetTo
<1> QED BY <1>1, <1>2, <1>3 DEF SameNames, Cell, StateSetTo

\* The pages of a slot go; those of the others stay where they are named.
LEMMA ReleasedViews ==
  ASSUME NEW t, TableInv(t), NEW s \in Slots, NEW u, u = Released(t, s)
  PROVE  /\ SameNames(t, u)
         /\ \A r \in Positions : Cell(u, r) = IF r[1] = s THEN "unmapped" ELSE Cell(t, r)
<1>1. ReleasedTo(t, s, u) /\ TableInv(u)
  BY ReleasedFields, ReleasedPreserves
<1>2. \A r \in Positions : RefAt(u, r) = IF r[1] = s THEN NoRef ELSE RefAt(t, r)
  BY <1>1 DEF RefAt, Positions, ReleasedTo
<1>3. \A k \in DOMAIN u.pages : u.pages[k].data = t.pages[k].data
  <2> TAKE k \in DOMAIN u.pages
  <2>1. t.pages[k] \in Page
    BY <1>1 DEF ReleasedTo, TableInv, TableTypes
  <2>2. u.pages[k] = [t.pages[k] EXCEPT !.refcount = t.pages[k].refcount - Cardinality(Row(t, s, k))]
    BY <1>1 DEF ReleasedTo
  <2> QED BY <2>1, <2>2 DEF Page
<1>4. \A r \in Positions : RefAt(u, r).id # 0 => RefAt(u, r).id \in DOMAIN u.pages
  BY <1>1 DEF TableInv, RefsCounted
<1>5. SameNames(t, u)
  BY <1>1 DEF ReleasedTo, SameNames
<1>6. ASSUME NEW r \in Positions
      PROVE  Cell(u, r) = IF r[1] = s THEN "unmapped" ELSE Cell(t, r)
  <2>1. CASE r[1] = s
    BY <1>2, <2>1 DEF Cell, NoRef
  <2>2. CASE r[1] # s
    BY <1>2, <1>3, <1>4, <2>2 DEF Cell
  <2> QED BY <2>1, <2>2
<1> QED BY <1>5, <1>6

\* A slot's own page holds what it was given; nobody else notices.
LEMMA OwnedViews ==
  ASSUME NEW t, TableInv(t), NEW s \in Slots, NEW i \in UserPages, NEW v,
         NEW u, OwnedTo(t, s, i, v, u)
  PROVE  /\ SameNames(t, u)
         /\ \A r \in Positions : Cell(u, r) = IF r = <<s, i>> THEN v ELSE Cell(t, r)
<1>1. EntrySet(t, s, i, Owned(t.nextPage), u.procs)
  BY DEF OwnedTo
<1>2. \A r \in Positions : RefAt(u, r) = IF r = <<s, i>> THEN Owned(t.nextPage) ELSE RefAt(t, r)
  BY <1>1 DEF EntrySet, RefAt
<1>3. u.pages[t.nextPage] = [refcount |-> 1, data |-> v] /\ t.nextPage # 0
  BY PageIdFresh DEF OwnedTo
<1>4. Owned(t.nextPage).id = t.nextPage
  BY DEF Owned
<1>5. \A k \in DOMAIN t.pages : u.pages[k].data = t.pages[k].data
  <2> TAKE k \in DOMAIN t.pages
  <2>1. t.pages[k] \in Page
    BY DEF TableInv, TableTypes
  <2>2. u.pages[k] = t.pages[k]
        \/ u.pages[k] = [t.pages[k] EXCEPT !.refcount = t.pages[k].refcount - 1]
    BY DEF OwnedTo
  <2> QED BY <2>1, <2>2 DEF Page
<1>6. \A r \in Positions : RefAt(t, r).id # 0 => RefAt(t, r).id \in DOMAIN t.pages
  BY DEF TableInv, RefsCounted
<1>7. SameNames(t, u)
  BY <1>1 DEF EntrySet, SameNames
<1>8. ASSUME NEW r \in Positions
      PROVE  Cell(u, r) = IF r = <<s, i>> THEN v ELSE Cell(t, r)
  <2>1. CASE r = <<s, i>>
    <3>1. RefAt(u, r).id = t.nextPage
      BY <1>2, <1>4, <2>1
    <3> QED BY <1>3, <2>1, <3>1 DEF Cell
  <2>2. CASE r # <<s, i>>
    BY <1>2, <1>5, <1>6, <2>2 DEF Cell
  <2> QED BY <2>1, <2>2
<1> QED BY <1>7, <1>8

\* Making a page one's own shows nowhere.
LEMMA DuplicatedViews ==
  ASSUME NEW t, TableInv(t), NEW s \in Slots, NEW i \in UserPages, CanDuplicate(t, s, i),
         NEW u, u = Duplicated(t, s, i)
  PROVE  SameNames(t, u) /\ \A r \in Positions : Cell(u, r) = Cell(t, r)
<1> DEFINE at == <<s, i>>
           old == RefAt(t, at).id
<1>1. old # 0
  BY DEF CanDuplicate, Mapped, RefAt
<1>2. Cell(t, at) = t.pages[old].data
  BY <1>1 DEF Cell
<1>3. CASE MustCopy(t, s, i)
  <2>1. OwnedTo(t, s, i, t.pages[old].data, u)
    BY <1>3, DuplicatedFields
  <2> HIDE DEF old
  <2>2. /\ SameNames(t, u)
        /\ \A r \in Positions : Cell(u, r) = IF r = <<s, i>> THEN t.pages[old].data ELSE Cell(t, r)
    BY <2>1, OwnedViews
  <2> QED BY <1>2, <2>2
<1>4. CASE ~MustCopy(t, s, i)
  <2>1. /\ u = [procs |-> u.procs, pages |-> t.pages, nextPid |-> t.nextPid, nextPage |-> t.nextPage]
        /\ EntrySet(t, s, i, Owned(old), u.procs)
    BY <1>4, DuplicatedFields DEF TakenTo
  <2>2. u.pages = t.pages
    BY <2>1
  <2>3. \A r \in Positions : RefAt(u, r) = IF r = at THEN Owned(old) ELSE RefAt(t, r)
    BY <2>1 DEF EntrySet, RefAt
  <2>4. Owned(old).id = old
    BY DEF Owned
  <2>5. \A r \in Positions : RefAt(u, r).id = RefAt(t, r).id
    BY <2>3, <2>4
  <2>6. \A r \in Positions : Cell(u, r) = Cell(t, r)
    BY <2>2, <2>5 DEF Cell
  <2>7. SameNames(t, u)
    BY <2>1 DEF EntrySet, SameNames
  <2> QED BY <2>6, <2>7
<1> QED BY <1>3, <1>4

\* A store reaches one entry when nothing else names its page.
LEMMA StoredViews ==
  ASSUME NEW t, TableInv(t), NEW at \in Positions, RefAt(t, at).writable,
         RefAt(t, at).id \in DOMAIN t.pages,
         NEW v \in Values, NEW u, u = Stored(t, RefAt(t, at).id, v)
  PROVE  SameNames(t, u) /\ \A r \in Positions : Cell(u, r) = IF r = at THEN v ELSE Cell(t, r)
<1> DEFINE k == RefAt(t, at).id
<1>1. k # 0 /\ \A q \in Positions : RefAt(t, q).id = k => q = at
  BY DEF TableInv, RefsCounted
<1> HIDE DEF k
<1>2. u = Stored(t, k, v) /\ k \in DOMAIN t.pages
  BY DEF k
<1>3. /\ u = [procs |-> t.procs, pages |-> u.pages, nextPid |-> t.nextPid, nextPage |-> t.nextPage]
      /\ \A j \in DOMAIN t.pages : u.pages[j].data = IF j = k THEN v ELSE t.pages[j].data
  BY <1>2, StoredFields DEF StoredTo
<1>4. u.procs = t.procs
  BY <1>3
<1>5. \A r \in Positions : RefAt(u, r) = RefAt(t, r)
  BY <1>4 DEF RefAt
<1>6. SameNames(t, u)
  BY <1>4 DEF SameNames
<1>7. \A r \in Positions : RefAt(t, r).id # 0 => RefAt(t, r).id \in DOMAIN t.pages
  BY DEF TableInv, RefsCounted
<1>8. RefAt(t, at).id = k
  BY DEF k
<1>9. ASSUME NEW r \in Positions
      PROVE  Cell(u, r) = IF r = at THEN v ELSE Cell(t, r)
  BY <1>1, <1>2, <1>3, <1>5, <1>7, <1>8 DEF Cell
<1> QED BY <1>6, <1>9

\* What PrivateMemory allows a step to do to what the processes see.
Allowed(t, u) ==
  \/ \A q \in Pids : View(u, q) = View(t, q)
  \/ \E p \in Pids :
       /\ \A q \in Pids \ {p} : View(u, q) = View(t, q)
       /\ \/ \E i \in UserPages, v \in Values : View(u, p) = [View(t, p) EXCEPT ![i] = v]
          \/ View(t, p) = Nothing /\ \E parent \in Pids \ {p} : View(u, p) = View(t, parent)
          \/ View(u, p) = Nothing

LEMMA SameCellsAllowed ==
  ASSUME NEW t, TableInv(t), NEW u, SameNames(t, u),
         \A r \in Positions : Cell(u, r) = Cell(t, r)
  PROVE  Allowed(t, u)
<1> SUFFICES ASSUME NEW q \in Pids PROVE View(u, q) = View(t, q)
  BY DEF Allowed
<1>1. \A i \in UserPages : SlotOf(t, q) # 0 => <<SlotOf(t, q), i>> \in Positions
  BY SlotFacts DEF Positions
<1> QED BY <1>1, SameView

LEMMA StoreAllowed ==
  ASSUME NEW t, TableInv(t), NEW u, SameNames(t, u), NEW p \in Pids, SlotOf(t, p) # 0,
         NEW i \in UserPages, NEW v \in Values,
         \A r \in Positions : Cell(u, r) = IF r = <<SlotOf(t, p), i>> THEN v ELSE Cell(t, r)
  PROVE  Allowed(t, u)
<1> DEFINE s == SlotOf(t, p)
<1>1. s \in Slots /\ s # 0
  BY SlotFacts
<1>2. \A j \in UserPages : <<s, j>> \in Positions
  BY <1>1 DEF Positions
<1>3. \A r \in Positions : r[1] # s => Cell(u, r) = Cell(t, r)
  OBVIOUS
<1>4. \A q \in Pids \ {p} : View(u, q) = View(t, q)
  BY <1>3, OtherViews
<1>5. SlotOf(u, p) = s
  BY SameSlot DEF SameNames
<1> HIDE DEF s
<1>6. View(t, p) = [j \in UserPages |-> Cell(t, <<s, j>>)]
  BY <1>1, ViewCells DEF s
<1>7. View(u, p) = [j \in UserPages |-> Cell(u, <<s, j>>)]
  BY <1>1, <1>5, ViewCells
<1>8. \A j \in UserPages : Cell(u, <<s, j>>) = IF j = i THEN v ELSE Cell(t, <<s, j>>)
  BY <1>2 DEF s
<1>9. View(u, p) = [View(t, p) EXCEPT ![i] = v]
  BY <1>6, <1>7, <1>8
<1> QED BY <1>4, <1>9 DEF Allowed

LEMMA DropAllowed ==
  ASSUME NEW t, TableInv(t), NEW u, SameNames(t, u), NEW p \in Pids, SlotOf(t, p) # 0,
         \A r \in Positions : Cell(u, r) = IF r[1] = SlotOf(t, p) THEN "unmapped" ELSE Cell(t, r)
  PROVE  Allowed(t, u)
<1> DEFINE s == SlotOf(t, p)
<1>1. s \in Slots /\ s # 0
  BY SlotFacts
<1>2. \A j \in UserPages : <<s, j>> \in Positions
  BY <1>1 DEF Positions
<1>3. \A q \in Pids \ {p} : View(u, q) = View(t, q)
  BY OtherViews
<1>4. SlotOf(u, p) = s
  BY SameSlot DEF SameNames
<1>5. View(u, p) = Nothing
  BY <1>1, <1>2, <1>4, ViewCells DEF Nothing
<1> QED BY <1>3, <1>5 DEF Allowed

\* A process nobody had a pid for owned nothing, and a slot that is given away held nothing.
LEMMA NewcomerViews ==
  ASSUME NEW t, TableInv(t), CanSpawn(t), NEW u, NEW child \in FreeSlots(t),
         u.procs[child].pid = t.nextPid, u.procs[child].state = "READY",
         \A r \in Slots \ {child} : /\ u.procs[r].pid = t.procs[r].pid
                                    /\ u.procs[r].state = t.procs[r].state,
         \A r \in Positions : r[1] # child => Cell(u, r) = Cell(t, r)
  PROVE  /\ t.nextPid \in Pids /\ View(t, t.nextPid) = Nothing
         /\ \A q \in Pids \ {t.nextPid} : View(u, q) = View(t, q)
<1> DEFINE new == t.nextPid
<1>1. new \in Pids /\ new \in Nat
  BY DEF CanSpawn, Pids
<1>2. child \in Slots /\ t.procs[child].refs = [i \in UserPages |-> NoRef]
  BY DEF FreeSlots, TableInv, RefsCounted
<1>3. \A r \in Slots : t.procs[r].pid \in Nat /\ t.procs[r].pid < new
  <2>1. t.procs \in [Slots -> Process]
    BY DEF TableInv, TableTypes
  <2> QED BY <2>1 DEF TableInv, PidsNameSlots, Process
<1>4. View(t, new) = Nothing
  <2>1. \A r \in Slots : t.procs[r].pid # new
    BY <1>1, <1>3
  <2>2. SlotOf(t, new) = 0
    BY <1>1, <2>1, NoSlot
  <2> QED BY <2>2, ViewCells DEF Nothing
<1> HIDE DEF new
<1>5. u.procs[child].pid = new
  BY DEF new
<1>6. ASSUME NEW q \in Pids, q # new
      PROVE  View(u, q) = View(t, q)
  <2>1. \A i \in UserPages : Cell(t, <<child, i>>) = "unmapped"
    <3> SUFFICES ASSUME NEW i \in UserPages PROVE Cell(t, <<child, i>>) = "unmapped"
      OBVIOUS
    <3>1. RefAt(t, <<child, i>>) = NoRef
      BY <1>2 DEF RefAt
    <3>2. RefAt(t, <<child, i>>).id = 0
      BY <3>1 DEF NoRef
    <3> QED BY <3>2 DEF Cell
  <2>2. CASE SlotOf(t, q) \in {0, child}
    <3>1. View(t, q) = Nothing
      BY <2>1, <2>2, ViewCells DEF Nothing
    <3>2. \A r \in Slots \ {child} : t.procs[r].pid = q => t.procs[r].state = "UNUSED"
      <4>1. CASE SlotOf(t, q) = 0
        BY <4>1, NoSlot
      <4>2. CASE SlotOf(t, q) # 0
        BY <2>2, <4>2, SlotFacts
      <4> QED BY <4>1, <4>2
    <3>3. \A r \in Slots : u.procs[r].pid = q => u.procs[r].state = "UNUSED"
      BY <1>5, <1>6, <3>2
    <3>4. SlotOf(u, q) = 0
      BY <3>3, NoSlot
    <3> QED BY <3>1, <3>4, ViewCells DEF Nothing
  <2>3. CASE SlotOf(t, q) \notin {0, child}
    <3> DEFINE s == SlotOf(t, q)
    <3>1. s \in Slots /\ s # child /\ t.procs[s].pid = q /\ t.procs[s].state # "UNUSED"
          /\ \A r \in Slots : t.procs[r].pid = q => r = s
      BY <2>3, SlotFacts
    <3> HIDE DEF s
    <3>2. {r \in Slots : u.procs[r].state # "UNUSED" /\ u.procs[r].pid = q} = {s}
      BY <1>5, <1>6, <3>1
    <3>3. {r \in Slots : t.procs[r].state # "UNUSED" /\ t.procs[r].pid = q} = {s}
      BY <3>1
    <3>a. \A r \in Slots : u.procs[r].pid = q /\ u.procs[r].state # "UNUSED" <=> r = s
      BY <3>2
    <3>b. SlotOf(u, q) # 0
      BY <3>1, <3>a, NoSlot
    <3>4. SlotOf(u, q) = SlotOf(t, q)
      <4> DEFINE found == {r \in Slots : u.procs[r].state # "UNUSED" /\ u.procs[r].pid = q}
      <4>1. found = {s} /\ SlotOf(u, q) = CHOOSE x \in found : \A y \in found : x <= y
        BY <3>2, <3>b DEF SlotOf
      <4>2. SlotOf(u, q) \in found
        BY <3>1, <4>1, LeastSlot
      <4> QED BY <4>1, <4>2 DEF s
    <3>5. \A i \in UserPages : <<s, i>> \in Positions /\ <<s, i>>[1] # child
      BY <3>1 DEF Positions
    <3>6. \A i \in UserPages : Cell(u, <<s, i>>) = Cell(t, <<s, i>>)
      BY <3>5
    <3> QED BY <3>4, <3>6, ViewCells DEF s
  <2> QED BY <2>2, <2>3
<1> QED BY <1>1, <1>4, <1>6 DEF new

LEMMA SpawnAllowed ==
  ASSUME TableInv(table), Spawn
  PROVE  Allowed(table, table')
<1> DEFINE child == SpawnSlot(table)
<1>1. CanSpawn(table) /\ 0 \in 0 .. MaxPid /\ table' = Spawned(table, 0)
  BY DEF Spawn
<1>2. child \in FreeSlots(table) /\ child \in Slots
  BY <1>1, SpawnSlotFacts DEF CanSpawn
<1>3. /\ table' = [procs |-> table'.procs, pages |-> table.pages, nextPid |-> table.nextPid + 1,
                   nextPage |-> table.nextPage]
      /\ \A r \in Slots \ {child} : table'.procs[r] = table.procs[r]
      /\ table'.procs[child].pid = table.nextPid
      /\ table'.procs[child].state = "READY"
      /\ table'.procs[child].refs = [i \in UserPages |-> NoRef]
  BY <1>1, SpawnedFields DEF SpawnedTo
<1>4. table'.pages = table.pages
  BY <1>3
<1>5. \A r \in Positions : r[1] # child => Cell(table', r) = Cell(table, r)
  BY <1>3, <1>4 DEF Cell, RefAt, Positions
<1> HIDE DEF child
<1>6. /\ table.nextPid \in Pids /\ View(table, table.nextPid) = Nothing
      /\ \A q \in Pids \ {table.nextPid} : View(table', q) = View(table, q)
  BY <1>1, <1>2, <1>3, <1>5, NewcomerViews
<1>7. View(table', table.nextPid) = Nothing
  <2>1. \A i \in UserPages : Cell(table', <<child, i>>) = "unmapped"
    BY <1>3 DEF Cell, RefAt, NoRef
  <2>2. TableInv(table')
    BY <1>1, SpawnedPreserves
  <2>3. SlotOf(table', table.nextPid) = child
    BY <1>2, <1>3, <1>6, <2>2, SlotOfPid
  <2> QED BY <2>1, <2>3, ViewCells DEF Nothing
<1> QED BY <1>6, <1>7 DEF Allowed

LEMMA ForkAllowed ==
  ASSUME TableInv(table), NEW p \in Pids, Fork(p)
  PROVE  Allowed(table, table')
<1> DEFINE s == SlotOf(table, p)
           child == SpawnSlot(table)
           new == table.nextPid
<1>1. CanSpawn(table) /\ IsLive(table, p) /\ table' = Forked(table, p)
  BY DEF Fork
<1>2. child \in FreeSlots(table) /\ child \in Slots
  BY <1>1, SpawnSlotFacts DEF CanSpawn
<1>3. s \in Slots /\ s # 0 /\ table.procs[s].pid = p /\ s # child
  BY <1>1, <1>2, LiveSlot
<1>4. ForkedTo(table, s, child, table') /\ TableInv(table')
  BY <1>1, ForkedFields, ForkedPreserves
<1>5. \A i \in UserPages : SharedRefs(table, s)[i].id = table.procs[s].refs[i].id
  BY <1>3, SharedRefsFacts
<1> HIDE DEF s, child
<1>6. \A k \in DOMAIN table.pages : table'.pages[k].data = table.pages[k].data
  <2> TAKE k \in DOMAIN table.pages
  <2>1. table.pages[k] \in Page
    BY DEF TableInv, TableTypes
  <2>2. table'.pages[k] =
          [table.pages[k] EXCEPT !.refcount = table.pages[k].refcount + Cardinality(Row(table, s, k))]
    BY <1>4 DEF ForkedTo
  <2> QED BY <2>1, <2>2 DEF Page
<1>7. \A r \in Positions : RefAt(table, r).id # 0 => RefAt(table, r).id \in DOMAIN table.pages
  BY DEF TableInv, RefsCounted
<1>8. \A r \in Positions : r[1] # child => RefAt(table', r).id = RefAt(table, r).id
  BY <1>4, <1>5 DEF ForkedTo, RefAt, Positions
<1>9. \A r \in Positions : r[1] # child => Cell(table', r) = Cell(table, r)
  BY <1>6, <1>7, <1>8 DEF Cell
<1>10. \A i \in UserPages : Cell(table', <<child, i>>) = Cell(table, <<s, i>>)
  <2> TAKE i \in UserPages
  <2>1. <<s, i>> \in Positions /\ RefAt(table', <<child, i>>).id = RefAt(table, <<s, i>>).id
    BY <1>3, <1>4, <1>5 DEF ForkedTo, RefAt, Positions
  <2> QED BY <2>1, <1>6, <1>7 DEF Cell
<1>11. /\ table'.procs[child].pid = new /\ table'.procs[child].state = "READY"
       /\ \A r \in Slots \ {child} : /\ table'.procs[r].pid = table.procs[r].pid
                                     /\ table'.procs[r].state = table.procs[r].state
  BY <1>4 DEF ForkedTo
<1>12. /\ new \in Pids /\ View(table, new) = Nothing
       /\ \A q \in Pids \ {new} : View(table', q) = View(table, q)
  BY <1>1, <1>2, <1>9, <1>11, NewcomerViews
<1>13. SlotOf(table', new) = child /\ child # 0
  BY <1>2, <1>4, <1>11, <1>12, SlotOfPid DEF Slots
<1>14. View(table', new) = View(table, p)
  BY <1>3, <1>10, <1>13, ViewCells DEF s
<1>15. p # new
  <2>1. table.procs[s].pid < new /\ new \in Nat
    BY <1>3, <1>12 DEF TableInv, PidsNameSlots, Pids
  <2> QED BY <1>3, <2>1
<1> QED BY <1>12, <1>14, <1>15 DEF Allowed

LEMMA ExecAllowed ==
  ASSUME TableInv(table), NEW p \in Pids, Exec(p)
  PROVE  Allowed(table, table')
<1> DEFINE s == SlotOf(table, p)
           v == Released(table, s)
<1>1. s \in Slots /\ s # 0 /\ table.procs[s].state \in Live
  BY LiveSlot DEF Exec
<1>2. TableInv(v) /\ ReleasedTo(table, s, v)
  BY <1>1, ReleasedPreserves, ReleasedFields
<1>3. /\ SameNames(table, v)
      /\ \A r \in Positions : Cell(v, r) = IF r[1] = s THEN "unmapped" ELSE Cell(table, r)
  BY <1>1, ReleasedViews
<1> HIDE DEF v
<1>4. SlotOf(v, p) = s
  BY <1>3, SameSlot DEF SameNames
<1>5. table' = StateSet(v, s, "READY")
  BY <1>4 DEF Exec, SetState, StateSet, v
<1>6. v.procs[s].state # "UNUSED" /\ "READY" \in States \ {"UNUSED"}
  BY <1>1, <1>2 DEF ReleasedTo, Live, States
<1>7. SameNames(v, table') /\ \A r \in Positions : Cell(table', r) = Cell(v, r)
  BY <1>1, <1>2, <1>5, <1>6, SetStateViews
<1>8. SameNames(table, table')
  BY <1>3, <1>7 DEF SameNames
<1> QED BY <1>1, <1>3, <1>7, <1>8, DropAllowed

LEMMA EndAllowed ==
  ASSUME NEW t, TableInv(t), NEW p \in Pids, SlotOf(t, p) # 0,
         NEW state \in {"READY", "RUNNING", "BLOCKED", "ZOMBIE"}, NEW u, u = SetState(t, p, state)
  PROVE  Allowed(t, u)
<1>1. u = StateSet(t, SlotOf(t, p), state) /\ state \in States \ {"UNUSED"}
  BY DEF SetState, StateSet, States
<1>2. SlotOf(t, p) \in Slots /\ t.procs[SlotOf(t, p)].state # "UNUSED"
  BY SlotFacts
<1>3. SameNames(t, u) /\ \A r \in Positions : Cell(u, r) = Cell(t, r)
  BY <1>1, <1>2, SetStateViews
<1> QED BY <1>3, SameCellsAllowed

LEMMA ReapedAllowed ==
  ASSUME NEW t, TableInv(t), NEW s \in Slots, t.procs[s].state = "ZOMBIE",
         t.procs[s].pid \in Pids, NEW u, u = Reaped(t, s)
  PROVE  Allowed(t, u)
<1> DEFINE v == Released(t, s)
<1>1. TableInv(v) /\ ReleasedTo(t, s, v)
  BY ReleasedPreserves, ReleasedFields
<1>2. /\ SameNames(t, v)
      /\ \A r \in Positions : Cell(v, r) = IF r[1] = s THEN "unmapped" ELSE Cell(t, r)
  BY ReleasedViews
<1>3. u = StateSet(v, s, "DEAD")
  BY DEF Reaped, StateSet
<1> HIDE DEF v
<1>4. v.procs[s].state # "UNUSED" /\ "DEAD" \in States \ {"UNUSED"}
  BY <1>1 DEF ReleasedTo, States
<1>5. SameNames(v, u) /\ \A r \in Positions : Cell(u, r) = Cell(v, r)
  BY <1>1, <1>3, <1>4, SetStateViews
<1>6. SameNames(t, u)
  BY <1>2, <1>5 DEF SameNames
<1>7. SlotOf(t, t.procs[s].pid) = s /\ s # 0
  BY SlotOfPid DEF Slots
<1> QED BY <1>2, <1>5, <1>6, <1>7, DropAllowed

LEMMA WaitAllowed ==
  ASSUME TableInv(table), NEW p \in Pids, NEW q \in Pids, Wait(p) \/ Waitpid(p, q)
  PROVE  Allowed(table, table')
<1>1. PICK s \in Slots : table.procs[s].state = "ZOMBIE" /\ table' = Reaped(table, s)
  BY SlotFacts DEF Wait, Waitpid
<1>2. table.procs[s].pid \in Pids
  <2>1. table.procs \in [Slots -> Process]
    BY DEF TableInv, TableTypes
  <2>2. table.procs[s].pid \in 0 .. MaxPid
    BY <2>1 DEF Process
  <2> QED BY <1>1, <2>2 DEF TableInv, PidsNameSlots, Pids
<1> QED BY <1>1, <1>2, ReapedAllowed

LEMMA MapAllowed ==
  ASSUME TableInv(table), NEW p \in Pids, NEW i \in UserPages, NEW v \in Values,
         MapUserPage(p, i, v)
  PROVE  Allowed(table, table')
<1> DEFINE s == SlotOf(table, p)
<1>1. s \in Slots /\ s # 0
  BY LiveSlot DEF MapUserPage
<1>2. OwnedTo(table, s, i, v, table')
  BY <1>1, MappedFields DEF MapUserPage, Owned, WithPageAt
<1>3. /\ SameNames(table, table')
      /\ \A r \in Positions : Cell(table', r) = IF r = <<s, i>> THEN v ELSE Cell(table, r)
  BY <1>1, <1>2, OwnedViews
<1> QED BY <1>1, <1>3, StoreAllowed

LEMMA CowAllowed ==
  ASSUME TableInv(table), NEW p \in Pids, NEW i \in UserPages, CowStoreFault(p, i)
  PROVE  Allowed(table, table')
<1>1. SlotOf(table, p) \in Slots /\ CanDuplicate(table, SlotOf(table, p), i)
      /\ table' = Duplicated(table, SlotOf(table, p), i)
  BY LiveSlot DEF CowStoreFault
<1> QED BY <1>1, DuplicatedViews, SameCellsAllowed

LEMMA WriteAllowed ==
  ASSUME TableInv(table), NEW p \in Pids, NEW i \in UserPages, NEW v \in Values,
         WriteUserByte(p, i, v)
  PROVE  Allowed(table, table')
<1> DEFINE s == SlotOf(table, p)
           own == Duplicated(table, s, i)
           at == <<s, i>>
<1>1. s \in Slots /\ s # 0 /\ s \notin FreeSlots(table) /\ CanDuplicate(table, s, i)
  BY LiveSlot DEF WriteUserByte
<1>2. /\ TableInv(own) /\ at \in Positions /\ RefAt(own, at) = own.procs[s].refs[i]
      /\ RefAt(own, at).writable /\ RefAt(own, at).id \in DOMAIN own.pages
  BY <1>1, DuplicatedPreserves, DuplicatedEntry
<1>3. SameNames(table, own) /\ \A r \in Positions : Cell(own, r) = Cell(table, r)
  BY <1>1, DuplicatedViews
<1>4. table' = Stored(own, own.procs[s].refs[i].id, v)
  BY DEF WriteUserByte, Stored
<1> HIDE DEF own, at
<1>5. table' = Stored(own, RefAt(own, at).id, v)
  BY <1>2, <1>4
<1>6. /\ SameNames(own, table')
      /\ \A r \in Positions : Cell(table', r) = IF r = at THEN v ELSE Cell(own, r)
  BY <1>2, <1>5, StoredViews
<1>7. SameNames(table, table')
  BY <1>3, <1>6 DEF SameNames
<1>8. \A r \in Positions : Cell(table', r) = IF r = <<s, i>> THEN v ELSE Cell(table, r)
  BY <1>3, <1>6 DEF at
<1> QED BY <1>1, <1>7, <1>8, StoreAllowed

LEMMA NextAllowed == TableOK /\ [Next]_table => Allowed(table, table')
<1> SUFFICES ASSUME TableInv(table), [Next]_table PROVE Allowed(table, table')
  BY DEF TableOK
<1>0. CASE UNCHANGED table
  BY <1>0 DEF Allowed
<1>1. CASE Spawn
  BY <1>1, SpawnAllowed
<1>2. CASE \E p \in Pids : Fork(p)
  BY <1>2, ForkAllowed
<1>3. CASE \E p \in Pids : Exec(p)
  BY <1>3, ExecAllowed
<1>4. CASE \E p, q \in Pids : Exit(p) \/ Kill(p, q)
  <2>1. PICK p \in Pids : SlotOf(table, p) # 0 /\ table' = SetState(table, p, "ZOMBIE")
    BY <1>4 DEF Exit, Kill, IsLive, StateOf, Live
  <2> QED BY <2>1, EndAllowed
<1>5. CASE \E p, q \in Pids : Wait(p) \/ Waitpid(p, q)
  BY <1>5, WaitAllowed
<1>6. CASE \E p \in Pids, i \in UserPages, v \in Values : MapUserPage(p, i, v)
  BY <1>6, MapAllowed
<1>7. CASE \E p \in Pids, i \in UserPages, v \in Values : WriteUserByte(p, i, v)
  BY <1>7, WriteAllowed
<1>8. CASE \E p \in Pids, i \in UserPages : CowStoreFault(p, i)
  BY <1>8, CowAllowed
<1> QED BY <1>0, <1>1, <1>2, <1>3, <1>4, <1>5, <1>6, <1>7, <1>8 DEF Next

LEMMA InitPrivateMemory == Init => Abstract!Init
<1> SUFFICES ASSUME Init PROVE Abstract!Init
  OBVIOUS
<1>1. TableInv(table)
  BY InitTable DEF TableOK
<1>2. ASSUME NEW p \in Pids
      PROVE  MemoryOf(p) = Nothing
  <2>1. CASE SlotOf(table, p) = 0
    BY <2>1 DEF MemoryOf, Nothing
  <2>2. CASE SlotOf(table, p) # 0
    <3>1. SlotOf(table, p) \in Slots
      BY <1>1, <2>2, SlotFacts
    <3>2. table.procs[SlotOf(table, p)].refs = [i \in UserPages |-> NoRef]
      BY <3>1 DEF Init, Cleared
    <3> QED BY <3>2 DEF MemoryOf, Nothing, Mapped, NoRef
  <2> QED BY <2>1, <2>2
<1>3. [p \in Pids |-> MemoryOf(p)] = [p \in Pids |-> Nothing]
  BY <1>2
<1> QED BY <1>3 DEF Abstract!Init, Abstract!Empty, Nothing

\* A step that is allowed is a step of PrivateMemory or leaves what it shows alone.
LEMMA AllowedImplements ==
  ASSUME Allowed(table, table')
  PROVE  [Abstract!Next]_[p \in Pids |-> MemoryOf(p)]
<1> DEFINE old == [p \in Pids |-> MemoryOf(p)]
           new == [p \in Pids |-> MemoryOf(p)']
<1>1. \A p : MemoryOf(p) = View(table, p) /\ MemoryOf(p)' = View(table', p)
  BY DEF MemoryOf, View, Mapped
<1>2. \A p \in Pids : old[p] = View(table, p) /\ new[p] = View(table', p)
  BY <1>1
<1>3. CASE \A q \in Pids : View(table', q) = View(table, q)
  <2>1. new = old
    BY <1>1, <1>3
  <2> QED BY <2>1
<1>4. ASSUME NEW p \in Pids, \A q \in Pids \ {p} : View(table', q) = View(table, q),
             \/ \E i \in UserPages, v \in Values : View(table', p) = [View(table, p) EXCEPT ![i] = v]
             \/ View(table, p) = Nothing
                /\ \E parent \in Pids \ {p} : View(table', p) = View(table, parent)
             \/ View(table', p) = Nothing
      PROVE  Abstract!Next
  <2>1. {q \in Pids : new[q] # old[q]} \subseteq {p}
    BY <1>2, <1>4
  <2>2. CASE \E i \in UserPages, v \in Values : View(table', p) = [View(table, p) EXCEPT ![i] = v]
    <3>1. \E i \in UserPages, v \in Values : new[p] = [old[p] EXCEPT ![i] = v]
      BY <1>2, <2>2
    <3> QED BY <2>1, <3>1 DEF Abstract!Next, Abstract!Write
  <2>3. CASE View(table, p) = Nothing
             /\ \E parent \in Pids \ {p} : View(table', p) = View(table, parent)
    <3>1. old[p] = Nothing /\ \E parent \in Pids \ {p} : new[p] = old[parent]
      BY <1>2, <2>3
    <3> QED BY <2>1, <3>1 DEF Abstract!Next, Abstract!Clone, Abstract!Empty, Nothing
  <2>4. CASE View(table', p) = Nothing
    <3>1. new[p] = Nothing
      BY <1>2, <2>4
    <3> QED BY <2>1, <3>1 DEF Abstract!Next, Abstract!Drop, Abstract!Empty, Nothing
  <2> QED BY <1>4, <2>2, <2>3, <2>4
<1> QED BY <1>3, <1>4 DEF Allowed

\* Copy-on-write is invisible to programs: through forks, stores, faults, execs, exits, kills
\* and waits, in any order and with any number of sharers, every process sees pages of its
\* own (course_process_fork, duplicate_cow_page and release_process_user_pages together).
THEOREM SharingIsInvisible == Spec => ImplementsPrivateMemory
<1>1. Init => Abstract!Init
  BY InitPrivateMemory
<1>2. TableOK /\ [Next]_table => [Abstract!Next]_[p \in Pids |-> MemoryOf(p)]
  BY NextAllowed, AllowedImplements
<1> QED BY <1>1, <1>2, TableInvariant, PTL DEF Spec, ImplementsPrivateMemory, Abstract!Spec
=============================================================================
