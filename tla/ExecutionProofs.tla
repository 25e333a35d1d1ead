-------------------------- MODULE ExecutionProofs --------------------------
(***************************************************************************)
(* Proofs about LoadStoreQueue, for every size of the queue and of the     *)
(* frame, about DbtRuntime, for every memory and every translation cache,  *)
(* and about RenameMap, for every number of registers and of instructions  *)
(* in flight.  What is known of a load/store queue is split into parts     *)
(* that speak of one thing each: the order of the entries, what memory     *)
(* holds, which stores are known, and what the loads have read.  A         *)
(* translated block that is trusted knows the physical cells it was made   *)
(* from.  For the rename map, FreeListsAgree ties the two free lists       *)
(* together and FreshInOrder makes the register a commit installs either a *)
(* recycled one or exactly the next one, so that the partition of the      *)
(* committed registers survives a commit and rollback can recompute the    *)
(* high-water mark from it.                                                *)
(***************************************************************************)
EXTENDS LoadStoreQueue, DbtRuntime, RenameMap, QueueLemmas

LEMMA GreatestIs ==
  ASSUME NEW n \in Nat, NEW S \in SUBSET (0 .. n), S # {}
  PROVE  Max(S) \in S /\ \A y \in S : Max(S) >= y
<1>1. \E x \in S : \A y \in S : x >= y
  BY GreatestOf
<1> QED BY <1>1 DEF Max

Flags == [kind : {"load", "store"}, seq : Nat, bytes : SUBSET Bytes, page : 0 .. 2,
          addressReady : BOOLEAN, dataReady : BOOLEAN, orderReady : BOOLEAN, replay : BOOLEAN,
          value : UNION {[read -> Nat] : read \in SUBSET Bytes}]

Record == [seq : Nat, bytes : SUBSET Bytes]

\* Every entry has both halves before it is ordered, and nothing is known of an address
\* that is not ready; the entries are in order.
EntriesOK(q, last) ==
  /\ q \in Seq(Flags)
  /\ \A i \in 1 .. Len(q) :
       /\ q[i].seq \in 1 .. last
       /\ q[i].orderReady => q[i].addressReady /\ q[i].dataReady
       /\ \A j \in 1 .. Len(q) : i < j => q[i].seq < q[j].seq

\* The records are those of the stores of the queue that have an address and of older ones.
Retired(q, w) == \A i \in 1 .. Len(q) : w.seq < q[i].seq

RecordsOK(q, last, known) ==
  /\ known \subseteq Record
  /\ \A w \in known :
       /\ w.seq \in 1 .. last
       /\ \/ Retired(q, w)
          \/ \E i \in 1 .. Len(q) : /\ q[i].kind = "store" /\ q[i].addressReady
                                    /\ q[i].seq = w.seq /\ q[i].bytes = w.bytes
  /\ \A i \in 1 .. Len(q) :
       q[i].kind = "store" /\ q[i].addressReady => [seq |-> q[i].seq, bytes |-> q[i].bytes] \in known

\* The greatest of a set of sequence ids, 0 if there is none.
Top(v, S) == v \in S \cup {0} /\ \A s \in S : s <= v

\* Memory holds what the youngest store that left the queue wrote.
FrameOK(q, known, f) ==
  /\ f \in [Bytes -> Nat]
  /\ \A b \in Bytes : Top(f[b], {w.seq : w \in {s \in known : Retired(q, s) /\ b \in s.bytes}})

\* A load that has read and is not marked has each byte from the youngest older store known.
Writers(known, n, b) == {w.seq : w \in {s \in known : s.seq < n /\ b \in s.bytes}}

ReadsOK(e, known) == \A b \in e.bytes : Top(e.value[b], Writers(known, e.seq, b))

LoadsOK(q, known) ==
  \A i \in 1 .. Len(q) :
    q[i].kind = "load" /\ q[i].orderReady /\ ~q[i].replay => ReadsOK(q[i], known)

\* An eager caller's addresses are all of one page; a patient one reads only when every
\* older store has its address, so that none is ever marked.
CallerOK(q, eager) ==
  /\ eager => \A i \in 1 .. Len(q) : q[i].addressReady => q[i].page = 1
  /\ ~eager => \A i \in 1 .. Len(q) :
       /\ ~q[i].replay
       /\ q[i].kind = "load" /\ q[i].orderReady =>
            \A j \in 1 .. i - 1 : q[j].kind = "store" => q[j].addressReady

LsqInv ==
  /\ lsqCaller \in [lastSeq : Nat, eager : BOOLEAN, resolved : SUBSET Record, wrong : {FALSE}]
  /\ EntriesOK(lsqEntries, lsqCaller.lastSeq)
  /\ RecordsOK(lsqEntries, lsqCaller.lastSeq, lsqCaller.resolved)
  /\ FrameOK(lsqEntries, lsqCaller.resolved, frame)
  /\ LoadsOK(lsqEntries, lsqCaller.resolved)
  /\ CallerOK(lsqEntries, lsqCaller.eager)

-----------------------------------------------------------------------------
\* What the history calls right, the invariant says without choosing a maximum.
LEMMA RightIsReads ==
  ASSUME LsqInv, NEW e \in Flags
  PROVE  Right(e) <=> ReadsOK(e, lsqCaller.resolved)
<1> DEFINE known == lsqCaller.resolved
           last == lsqCaller.lastSeq
<1>1. ASSUME NEW b \in e.bytes
      PROVE  e.value[b] = OrderedValue(e, b) <=> Top(e.value[b], Writers(known, e.seq, b))
  <2> DEFINE S == Writers(known, e.seq, b)
  <2>1. OrderedValue(e, b) = IF S = {} THEN 0 ELSE Max(S)
    BY DEF OrderedValue, Writers
  <2>2. last \in Nat /\ S \subseteq 1 .. last
    BY DEF Writers, LsqInv, RecordsOK
  <2> HIDE DEF S, last
  <2> DEFINE v0 == e.value[b]
             ordered == OrderedValue(e, b)
  <2> HIDE DEF v0, ordered
  <2> SUFFICES v0 = ordered <=> Top(v0, S)
    BY DEF v0, ordered, S
  <2>a. ordered = IF S = {} THEN 0 ELSE Max(S)
    BY <2>1 DEF ordered
  <2>b. \A y \in S : y \in Nat /\ y >= 1
    <3>1. \A y \in S : y \in 1 .. last
      BY <2>2
    <3> QED BY ONLY <2>2, <3>1
  <2>3. CASE S = {}
    BY <2>a, <2>3 DEF Top
  <2>4. CASE S # {}
    <3>1. Max(S) \in S /\ \A y \in S : Max(S) >= y
      <4>1. S \in SUBSET (0 .. last)
        BY <2>2
      <4> QED BY <2>2, <2>4, <4>1, GreatestIs
    <3>2. ASSUME NEW v, Top(v, S) PROVE v = Max(S)
      <4>1. \A y \in S : y <= v
        BY <3>2 DEF Top
      <4>2. v \in S \cup {0}
        BY <3>2 DEF Top
      <4>3. v # 0
        BY <2>b, <2>4, <4>1
      <4>4. v \in Nat /\ Max(S) \in Nat /\ v <= Max(S) /\ Max(S) <= v
        BY <2>b, <3>1, <4>1, <4>2, <4>3
      <4> QED BY <4>4
    <3>3. Top(Max(S), S)
      BY <2>b, <3>1 DEF Top
    <3> QED BY <2>a, <2>4, <3>2, <3>3
  <2> QED BY <2>3, <2>4
<1> QED BY <1>1 DEF Right, ReadsOK

LEMMA InvImpliesLoads == LsqInv => LoadsInOrder
<1> SUFFICES ASSUME LsqInv PROVE LoadsInOrder
  OBVIOUS
<1>1. DOMAIN lsqEntries = 1 .. Len(lsqEntries) /\ \A i \in DOMAIN lsqEntries : lsqEntries[i] \in Flags
  BY DEF LsqInv, EntriesOK
<1>2. \A i \in DOMAIN lsqEntries : LET e == lsqEntries[i] IN
        e.kind = "load" /\ e.orderReady /\ ~e.replay => Right(e)
  BY <1>1, RightIsReads DEF LsqInv, LoadsOK
<1>3. ReplayActive => lsqCaller.eager
  BY <1>1 DEF ReplayActive, LsqInv, CallerOK
<1>4. ~lsqCaller.wrong
  BY DEF LsqInv
<1> QED BY <1>2, <1>3, <1>4 DEF LoadsInOrder

LEMMA InitLsqInv == LsqInit => LsqInv
<1> SUFFICES ASSUME LsqInit PROVE LsqInv
  OBVIOUS
<1>0. <<>> \in Seq(Flags) /\ Len(<<>>) = 0
  BY EmptySeq
<1>1. /\ lsqEntries = <<>> /\ Len(lsqEntries) = 0 /\ lsqEntries \in Seq(Flags)
      /\ frame = [b \in Bytes |-> 0]
      /\ lsqCaller.resolved = {} /\ lsqCaller.lastSeq = 0 /\ lsqCaller.wrong = FALSE
      /\ lsqCaller \in [lastSeq : Nat, eager : BOOLEAN, resolved : SUBSET Record, wrong : {FALSE}]
  <2>1. lsqEntries = <<>> /\ frame = [b \in Bytes |-> 0]
    BY DEF LsqInit
  <2>2. PICK e \in BOOLEAN : lsqCaller = [lastSeq |-> 0, eager |-> e, resolved |-> {}, wrong |-> FALSE]
    BY DEF LsqInit
  <2> QED BY <1>0, <2>1, <2>2
<1>2. FrameOK(lsqEntries, lsqCaller.resolved, frame)
  BY <1>1 DEF FrameOK, Top
<1>3. \A i \in 1 .. Len(lsqEntries) : FALSE
  BY <1>1
<1>4. EntriesOK(lsqEntries, 0) /\ LoadsOK(lsqEntries, {}) /\ CallerOK(lsqEntries, lsqCaller.eager)
  BY <1>1, <1>3 DEF EntriesOK, LoadsOK, CallerOK
<1>5. RecordsOK(lsqEntries, 0, {})
  BY <1>3 DEF RecordsOK
<1> QED BY <1>1, <1>2, <1>4, <1>5 DEF LsqInv

-----------------------------------------------------------------------------
(* Steps that change one entry *)

\* Marking a store ready changes nothing that the parts speak of.
FlaggedTo(r) ==
  LET q == lsqEntries IN
  /\ r \in Seq(Flags) /\ Len(r) = Len(q)
  /\ \A j \in 1 .. Len(q) :
       /\ r[j].kind = q[j].kind /\ r[j].seq = q[j].seq /\ r[j].bytes = q[j].bytes
       /\ r[j].page = q[j].page /\ r[j].addressReady = q[j].addressReady
       /\ r[j].replay = q[j].replay /\ r[j].value = q[j].value
       /\ r[j].orderReady => r[j].addressReady /\ r[j].dataReady
       /\ r[j].kind = "load" => r[j].orderReady = q[j].orderReady

LEMMA FlaggedKeeps ==
  ASSUME LsqInv, FlaggedTo(lsqEntries'), UNCHANGED <<frame, lsqCaller>>
  PROVE  LsqInv'
<1>1. EntriesOK(lsqEntries, lsqCaller.lastSeq)'
  BY DEF LsqInv, EntriesOK, FlaggedTo
<1>2. \A w : Retired(lsqEntries', w) <=> Retired(lsqEntries, w)
  BY DEF FlaggedTo, Retired
<1>3. RecordsOK(lsqEntries, lsqCaller.lastSeq, lsqCaller.resolved)'
  BY <1>2 DEF LsqInv, RecordsOK, FlaggedTo
<1>4. FrameOK(lsqEntries, lsqCaller.resolved, frame)'
  BY <1>2 DEF LsqInv, FrameOK
<1>5. LoadsOK(lsqEntries, lsqCaller.resolved)'
  BY DEF LsqInv, LoadsOK, FlaggedTo, ReadsOK
<1>6. CallerOK(lsqEntries, lsqCaller.eager)'
  BY DEF LsqInv, CallerOK, FlaggedTo
<1> QED BY <1>1, <1>3, <1>4, <1>5, <1>6 DEF LsqInv

LEMMA FlagKept ==
  ASSUME LsqInv, NEW i \in DOMAIN lsqEntries, DataReady(i) \/ OrderReady(i)
  PROVE  LsqInv'
<1>1. lsqEntries \in Seq(Flags) /\ i \in 1 .. Len(lsqEntries) /\ lsqEntries[i] \in Flags
      /\ lsqEntries[i].kind = "store"
  BY DEF LsqInv, EntriesOK, DataReady, OrderReady
<1>2. UNCHANGED <<frame, lsqCaller>>
  BY DEF DataReady, OrderReady
<1>3. CASE DataReady(i)
  <2>1. PICK e : e = [lsqEntries[i] EXCEPT !.dataReady = TRUE]
    OBVIOUS
  <2>2. lsqEntries' = [lsqEntries EXCEPT ![i] = e]
    BY <1>3, <2>1 DEF DataReady
  <2>3. e \in Flags
    BY <1>1, <2>1 DEF Flags
  <2>4. /\ lsqEntries' \in Seq(Flags) /\ Len(lsqEntries') = Len(lsqEntries)
        /\ \A j \in 1 .. Len(lsqEntries) : lsqEntries'[j] = IF j = i THEN e ELSE lsqEntries[j]
    BY <1>1, <2>2, <2>3, ExceptSeq
  <2>5. /\ e.kind = lsqEntries[i].kind /\ e.seq = lsqEntries[i].seq /\ e.bytes = lsqEntries[i].bytes
        /\ e.page = lsqEntries[i].page /\ e.replay = lsqEntries[i].replay /\ e.value = lsqEntries[i].value
        /\ e.addressReady = lsqEntries[i].addressReady /\ e.orderReady = lsqEntries[i].orderReady
        /\ e.dataReady
    BY <1>1, <2>1 DEF Flags
  <2>6. FlaggedTo(lsqEntries')
    BY <1>1, <2>4, <2>5 DEF FlaggedTo, LsqInv, EntriesOK
  <2> QED BY <1>2, <2>6, FlaggedKeeps
<1>4. CASE OrderReady(i)
  <2>1. PICK e : e = [lsqEntries[i] EXCEPT !.orderReady = TRUE]
    OBVIOUS
  <2>2. lsqEntries' = [lsqEntries EXCEPT ![i] = e]
    BY <1>4, <2>1 DEF OrderReady
  <2>3. e \in Flags
    BY <1>1, <2>1 DEF Flags
  <2>4. /\ lsqEntries' \in Seq(Flags) /\ Len(lsqEntries') = Len(lsqEntries)
        /\ \A j \in 1 .. Len(lsqEntries) : lsqEntries'[j] = IF j = i THEN e ELSE lsqEntries[j]
    BY <1>1, <2>2, <2>3, ExceptSeq
  <2>5. /\ e.kind = lsqEntries[i].kind /\ e.seq = lsqEntries[i].seq /\ e.bytes = lsqEntries[i].bytes
        /\ e.page = lsqEntries[i].page /\ e.replay = lsqEntries[i].replay /\ e.value = lsqEntries[i].value
        /\ e.addressReady = lsqEntries[i].addressReady /\ e.addressReady /\ e.dataReady
    BY <1>1, <1>4, <2>1 DEF OrderReady, Flags
  <2>6. FlaggedTo(lsqEntries')
    BY <1>1, <2>4, <2>5 DEF FlaggedTo, LsqInv, EntriesOK
  <2> QED BY <1>2, <2>6, FlaggedKeeps
<1> QED BY <1>3, <1>4

\* A load reads: the value it gets is the one of the youngest older store known.
ReadTo(i, v) ==
  LET q == lsqEntries
      r == lsqEntries'
  IN
  /\ v \in [q[i].bytes -> Nat] /\ ReadsOK([q[i] EXCEPT !.value = v], lsqCaller.resolved)
  /\ r \in Seq(Flags) /\ Len(r) = Len(q)
  /\ \A j \in 1 .. Len(q) :
       r[j] = IF j = i THEN [q[i] EXCEPT !.value = v, !.dataReady = TRUE, !.orderReady = TRUE] ELSE q[j]

LEMMA ReadFacts ==
  ASSUME LsqInv, NEW i \in DOMAIN lsqEntries, lsqEntries[i].kind = "load", lsqEntries[i].addressReady,
         NEW v \in [lsqEntries[i].bytes -> Nat],
         lsqEntries' = [lsqEntries EXCEPT ![i].value = v, ![i].dataReady = TRUE, ![i].orderReady = TRUE],
         \A b \in lsqEntries[i].bytes :
           Top(v[b], Writers(lsqCaller.resolved, lsqEntries[i].seq, b))
  PROVE  ReadTo(i, v)
<1>1. lsqEntries \in Seq(Flags) /\ i \in 1 .. Len(lsqEntries) /\ lsqEntries[i] \in Flags
  BY DEF LsqInv, EntriesOK
<1>2. PICK e : e = [lsqEntries[i] EXCEPT !.value = v, !.dataReady = TRUE, !.orderReady = TRUE]
  OBVIOUS
<1>3. lsqEntries' = [lsqEntries EXCEPT ![i] = e]
  BY <1>1, <1>2
<1>4. e \in Flags
  <2>1. v \in UNION {[read -> Nat] : read \in SUBSET Bytes}
    BY <1>1 DEF Flags
  <2>2. e = [kind |-> lsqEntries[i].kind, seq |-> lsqEntries[i].seq, bytes |-> lsqEntries[i].bytes,
             page |-> lsqEntries[i].page, addressReady |-> lsqEntries[i].addressReady,
             dataReady |-> TRUE, orderReady |-> TRUE, replay |-> lsqEntries[i].replay, value |-> v]
    BY <1>1, <1>2 DEF Flags
  <2> QED BY <1>1, <2>1, <2>2 DEF Flags
<1>5. /\ lsqEntries' \in Seq(Flags) /\ Len(lsqEntries') = Len(lsqEntries)
      /\ \A j \in 1 .. Len(lsqEntries) : lsqEntries'[j] = IF j = i THEN e ELSE lsqEntries[j]
  BY <1>1, <1>3, <1>4, ExceptSeq
<1>6. PICK d : d = [lsqEntries[i] EXCEPT !.value = v]
  OBVIOUS
<1>7. d.value = v /\ d.bytes = lsqEntries[i].bytes /\ d.seq = lsqEntries[i].seq
  BY <1>1, <1>6 DEF Flags
<1>8. ReadsOK(d, lsqCaller.resolved)
  BY <1>7 DEF ReadsOK
<1> QED BY <1>2, <1>5, <1>6, <1>8 DEF ReadTo

LEMMA ReadKeeps ==
  ASSUME LsqInv, NEW i \in DOMAIN lsqEntries, lsqEntries[i].kind = "load", lsqEntries[i].addressReady,
         NEW v, ReadTo(i, v), UNCHANGED <<frame, lsqCaller>>,
         lsqCaller.eager \/ \A j \in 1 .. i - 1 : lsqEntries[j].kind = "store" => lsqEntries[j].addressReady
  PROVE  LsqInv'
<1> DEFINE q == lsqEntries
           r == lsqEntries'
           e == r[i]
<1>1. q \in Seq(Flags) /\ i \in 1 .. Len(q) /\ q[i] \in Flags /\ Len(q) \in Nat
  BY DEF LsqInv, EntriesOK
<1>2. /\ r \in Seq(Flags) /\ Len(r) = Len(q) /\ \A j \in 1 .. Len(q) : j # i => r[j] = q[j]
      /\ e = [q[i] EXCEPT !.value = v, !.dataReady = TRUE, !.orderReady = TRUE]
  BY <1>1 DEF ReadTo
<1>3. /\ e.kind = q[i].kind /\ e.seq = q[i].seq /\ e.bytes = q[i].bytes /\ e.page = q[i].page
      /\ e.addressReady = q[i].addressReady /\ e.replay = q[i].replay /\ e.value = v
      /\ e.addressReady /\ e.dataReady /\ e.orderReady
  BY <1>1, <1>2 DEF Flags
<1>4. PICK d : d = [q[i] EXCEPT !.value = v]
  OBVIOUS
<1>5. d.value = v /\ d.bytes = q[i].bytes /\ d.seq = q[i].seq
  BY <1>1, <1>4 DEF Flags
<1>6. ReadsOK(e, lsqCaller.resolved)
  BY <1>3, <1>4, <1>5 DEF ReadTo, ReadsOK
<1> HIDE DEF e
<1>7. \A j \in 1 .. Len(q) :
        /\ r[j].kind = q[j].kind /\ r[j].seq = q[j].seq /\ r[j].bytes = q[j].bytes /\ r[j].page = q[j].page
        /\ r[j].addressReady = q[j].addressReady /\ r[j].replay = q[j].replay
        /\ (r[j].orderReady => r[j].addressReady /\ r[j].dataReady)
        /\ (j = i \/ r[j] = q[j])
  <2>1. \A j \in 1 .. Len(q) : q[j].orderReady => q[j].addressReady /\ q[j].dataReady
    BY DEF LsqInv, EntriesOK
  <2> TAKE j \in 1 .. Len(q)
  <2>2. CASE j = i
    BY <1>3, <2>2 DEF e
  <2>3. CASE j # i
    BY <1>2, <2>1, <2>3
  <2> QED BY <2>2, <2>3
<1>8. EntriesOK(lsqEntries, lsqCaller.lastSeq)'
  BY <1>2, <1>7 DEF LsqInv, EntriesOK
<1>9. \A w : Retired(lsqEntries', w) <=> Retired(lsqEntries, w)
  BY <1>2, <1>7 DEF Retired
<1>10. RecordsOK(lsqEntries, lsqCaller.lastSeq, lsqCaller.resolved)'
  BY <1>2, <1>7, <1>9 DEF LsqInv, RecordsOK
<1>11. FrameOK(lsqEntries, lsqCaller.resolved, frame)'
  BY <1>9 DEF LsqInv, FrameOK
<1>12. LoadsOK(lsqEntries, lsqCaller.resolved)'
  BY <1>2, <1>6, <1>7 DEF LsqInv, LoadsOK, e
<1>13. CallerOK(lsqEntries, lsqCaller.eager)'
  <2>1. CASE lsqCaller.eager
    BY <1>2, <1>7, <2>1 DEF LsqInv, CallerOK
  <2>2. CASE ~lsqCaller.eager
    BY <1>1, <1>2, <1>7, <2>2 DEF LsqInv, CallerOK
  <2> QED BY <2>1, <2>2
<1> QED BY <1>8, <1>10, <1>11, <1>12, <1>13 DEF LsqInv

LEMMA ReadKept ==
  ASSUME LsqInv, NEW i \in DOMAIN lsqEntries, ReadLoad(i)
  PROVE  LsqInv'
<1> DEFINE q == lsqEntries
           load == q[i]
           known == lsqCaller.resolved
<1>1. /\ q \in Seq(Flags) /\ i \in 1 .. Len(q) /\ load \in Flags /\ Len(q) \in Nat
      /\ DOMAIN q = 1 .. Len(q) /\ \A j \in 1 .. Len(q) : q[j] \in Flags
  BY DEF LsqInv, EntriesOK
<1>2. /\ load.kind = "load" /\ load.addressReady /\ (Unresolved(load) = {} \/ lsqCaller.eager)
      /\ UNCHANGED <<frame, lsqCaller>>
  BY DEF ReadLoad, MayIssue
<1>3. lsqCaller.eager \/ \A j \in 1 .. i - 1 : q[j].kind = "store" => q[j].addressReady
  <2> SUFFICES ASSUME Unresolved(load) = {}, NEW j \in 1 .. i - 1, q[j].kind = "store"
               PROVE  q[j].addressReady
    BY <1>2
  <2>1. j \in 1 .. Len(q) /\ j < i
    BY <1>1
  <2>2. q[j].seq < load.seq
    BY <1>1, <2>1 DEF LsqInv, EntriesOK
  <2> QED BY <1>1, <2>1, <2>2 DEF Unresolved, OlderStores
<1>4. ASSUME NEW b \in load.bytes, NEW w \in known, w.seq < load.seq, b \in w.bytes
      PROVE  \/ Retired(q, w)
             \/ \E j \in OlderStores(load) \ Unresolved(load) :
                  q[j].seq = w.seq /\ b \in q[j].bytes /\ PhysicalOverlap(q[j], load)
  <2>1. CASE \E j \in 1 .. Len(q) : /\ q[j].kind = "store" /\ q[j].addressReady
                                    /\ q[j].seq = w.seq /\ q[j].bytes = w.bytes
    <3>1. PICK j \in 1 .. Len(q) : /\ q[j].kind = "store" /\ q[j].addressReady
                                   /\ q[j].seq = w.seq /\ q[j].bytes = w.bytes
      BY <2>1
    <3>2. j \in OlderStores(load) \ Unresolved(load)
      BY <1>1, <1>4, <3>1 DEF OlderStores, Unresolved
    <3> QED BY <1>4, <3>1, <3>2 DEF PhysicalOverlap
  <2> QED BY <2>1 DEF LsqInv, RecordsOK
<1>5. ASSUME Forwards(load) # {}
      PROVE  LsqInv'
    <2>1. PICK s \in Forwards(load) :
            lsqEntries' = [lsqEntries EXCEPT ![i].value = [b \in load.bytes |-> s.seq],
                                             ![i].dataReady = TRUE, ![i].orderReady = TRUE]
      BY <1>5 DEF ReadLoad
    <2> DEFINE ends == SearchEnds(load)
               m == Max(ends)
               v == [b \in load.bytes |-> s.seq]
    <2>2. ends # {} /\ s = q[m] /\ AllReady(q[m]) /\ load.bytes \subseteq q[m].bytes
      BY <1>5 DEF Forwards
    <2>3. ends \in SUBSET (0 .. Len(q)) /\ ends \subseteq OlderStores(load)
      BY <1>1 DEF SearchEnds, OlderStores
    <2> HIDE DEF ends
    <2>4. m \in ends /\ \A y \in ends : m >= y
      BY <1>1, <2>2, <2>3, GreatestIs
    <2>5. /\ m \in 1 .. Len(q) /\ q[m].kind = "store" /\ q[m].seq < load.seq /\ q[m].addressReady
          /\ s.seq \in Nat
      BY <1>1, <2>2, <2>3, <2>4 DEF OlderStores, AllReady, Flags
    <2> HIDE DEF m
    <2>6. ASSUME NEW b \in load.bytes
          PROVE  Top(v[b], Writers(known, load.seq, b))
      <3>1. v[b] = s.seq
        OBVIOUS
      <3>2. s.seq \in Writers(known, load.seq, b)
        <4>1. [seq |-> q[m].seq, bytes |-> q[m].bytes] \in known
          BY <2>5 DEF LsqInv, RecordsOK
        <4> QED BY <2>2, <2>5, <2>6, <4>1 DEF Writers
      <3>3. ASSUME NEW w \in known, w.seq < load.seq, b \in w.bytes
            PROVE  w.seq <= s.seq
        <4>0. w.seq \in Nat
          BY DEF LsqInv, RecordsOK, Record
        <4>1. CASE Retired(q, w)
          BY <2>2, <2>5, <4>0, <4>1 DEF Retired
        <4>2. ASSUME NEW j \in OlderStores(load) \ Unresolved(load),
                     q[j].seq = w.seq, PhysicalOverlap(q[j], load)
              PROVE  w.seq <= s.seq
          <5>1. j \in ends /\ j \in 1 .. Len(q)
            BY <1>1, <4>2 DEF ends, SearchEnds, OlderStores
          <5>2. j <= m
            BY <2>4, <2>5, <5>1
          <5> QED BY <2>2, <2>5, <4>0, <4>2, <5>1, <5>2 DEF LsqInv, EntriesOK
        <4> QED BY <1>4, <3>3, <4>1, <4>2
      <3> QED BY <3>1, <3>2, <3>3 DEF Top, Writers
    <2>7. v \in [load.bytes -> Nat]
      BY <2>5
    <2> HIDE DEF v
    <2>8. ReadTo(i, v)
      BY <1>2, <2>1, <2>6, <2>7, ReadFacts DEF v
    <2> QED BY <1>2, <1>3, <2>8, ReadKeeps
<1>6. ASSUME Forwards(load) = {}
      PROVE  LsqInv'
    <2> DEFINE v == [b \in load.bytes |-> frame[b]]
    <2>1. /\ \A s \in OlderStores(load) \ Unresolved(load) : ~PhysicalOverlap(q[s], load)
          /\ lsqEntries' = [lsqEntries EXCEPT ![i].value = v, ![i].dataReady = TRUE, ![i].orderReady = TRUE]
      BY <1>6 DEF ReadLoad
    <2>2. load.bytes \subseteq Bytes
      BY <1>1 DEF Flags
    <2>3. ASSUME NEW b \in load.bytes
          PROVE  Top(v[b], Writers(known, load.seq, b))
      <3>1. Top(frame[b], {w.seq : w \in {s \in known : Retired(q, s) /\ b \in s.bytes}})
        BY <2>2 DEF LsqInv, FrameOK
      <3>2. \A w \in known : b \in w.bytes => (w.seq < load.seq <=> Retired(q, w))
        BY <1>1, <1>4, <2>1 DEF Retired
      <3>3. Writers(known, load.seq, b) = {w.seq : w \in {s \in known : Retired(q, s) /\ b \in s.bytes}}
        BY <3>2 DEF Writers
      <3> QED BY <3>1, <3>3
    <2>4. v \in [load.bytes -> Nat]
      BY <2>2 DEF LsqInv, FrameOK
    <2> HIDE DEF v
    <2>5. ReadTo(i, v)
      BY <1>2, <2>1, <2>3, <2>4, ReadFacts
    <2> QED BY <1>2, <1>3, <2>5, ReadKeeps
<1> QED BY <1>5, <1>6

-----------------------------------------------------------------------------
(* An address becomes known *)

\* The entry gets its address; loads that were too early are marked.
AddressedTo(i, bytes, page) ==
  LET q == lsqEntries
      r == lsqEntries'
  IN
  /\ r \in Seq(Flags) /\ Len(r) = Len(q)
  /\ r[i].bytes = bytes /\ r[i].page = page /\ r[i].addressReady
  /\ ~r[i].orderReady /\ r[i].replay = q[i].replay
  /\ \A j \in 1 .. Len(q) :
       /\ r[j].kind = q[j].kind /\ r[j].seq = q[j].seq /\ r[j].orderReady = q[j].orderReady
       /\ r[j].value = q[j].value /\ r[j].dataReady = q[j].dataReady
       /\ j # i => /\ r[j].bytes = q[j].bytes /\ r[j].page = q[j].page
                   /\ r[j].addressReady = q[j].addressReady
                   /\ r[j].replay = (q[j].replay \/ (/\ q[i].kind = "store" /\ q[j].kind = "load"
                                                     /\ q[j].seq > q[i].seq
                                                     /\ q[j].addressReady /\ q[j].orderReady
                                                     /\ q[j].page = page /\ q[j].bytes \cap bytes # {}))

LEMMA AddressedFacts ==
  ASSUME LsqInv, NEW i \in DOMAIN lsqEntries, NEW bytes \in SUBSET Bytes, NEW page \in 1 .. 2,
         AddressReady(i, bytes, page)
  PROVE  AddressedTo(i, bytes, page)
<1> DEFINE q == lsqEntries
           r == lsqEntries'
           rereads(j, e) == /\ e.kind = "store" /\ q[j].kind = "load" /\ q[j].seq > e.seq
                            /\ Rereads(q[j], e)
<1>1. /\ q \in Seq(Flags) /\ i \in 1 .. Len(q) /\ Len(q) \in Nat
      /\ DOMAIN q = 1 .. Len(q) /\ \A j \in 1 .. Len(q) : q[j] \in Flags
  BY DEF LsqInv, EntriesOK
<1>2. PICK e : e = [q[i] EXCEPT !.addressReady = TRUE, !.bytes = bytes, !.page = page]
  OBVIOUS
<1>3. /\ ~q[i].addressReady
      /\ r = [j \in DOMAIN q |-> IF j = i THEN e ELSE [q[j] EXCEPT !.replay = @ \/ rereads(j, e)]]
  BY <1>2 DEF AddressReady
<1>4. /\ e \in Flags /\ e.kind = q[i].kind /\ e.seq = q[i].seq /\ e.bytes = bytes /\ e.page = page
      /\ e.addressReady /\ e.dataReady = q[i].dataReady /\ e.orderReady = q[i].orderReady
      /\ e.replay = q[i].replay /\ e.value = q[i].value
  <2>1. e = [kind |-> q[i].kind, seq |-> q[i].seq, bytes |-> bytes, page |-> page, addressReady |-> TRUE,
             dataReady |-> q[i].dataReady, orderReady |-> q[i].orderReady, replay |-> q[i].replay,
             value |-> q[i].value]
    BY <1>1, <1>2 DEF Flags
  <2> QED BY <1>1, <2>1 DEF Flags
<1>5. ~q[i].orderReady
  BY <1>1, <1>3 DEF LsqInv, EntriesOK
<1>6. ASSUME NEW j \in 1 .. Len(q), j # i
      PROVE  /\ r[j] \in Flags
             /\ r[j].kind = q[j].kind /\ r[j].seq = q[j].seq /\ r[j].orderReady = q[j].orderReady
             /\ r[j].value = q[j].value /\ r[j].dataReady = q[j].dataReady
             /\ r[j].bytes = q[j].bytes /\ r[j].page = q[j].page /\ r[j].addressReady = q[j].addressReady
             /\ r[j].replay = (q[j].replay \/ rereads(j, e))
  <2>1. PICK mark \in BOOLEAN : mark = (q[j].replay \/ rereads(j, e))
    OBVIOUS
  <2>2. r[j] = [q[j] EXCEPT !.replay = mark]
    BY <1>1, <1>3, <1>6, <2>1
  <2> HIDE DEF rereads
  <2>3. q[j] \in Flags
    BY <1>1
  <2> QED BY <2>1, <2>2, <2>3 DEF Flags
<1>7. r[i] = e /\ DOMAIN r = 1 .. Len(q)
  BY <1>1, <1>3
<1>8. r \in Seq(Flags) /\ Len(r) = Len(q)
  <2>1. \A j \in 1 .. Len(q) : r[j] \in Flags
    BY <1>4, <1>6, <1>7
  <2>2. r \in [1 .. Len(q) -> Flags]
    BY <1>1, <1>3, <1>7, <2>1
  <2> HIDE DEF r
  <2> QED BY <1>1, <2>2
<1>9. \A j \in 1 .. Len(q) : rereads(j, e) <=>
        /\ q[i].kind = "store" /\ q[j].kind = "load" /\ q[j].seq > q[i].seq
        /\ q[j].addressReady /\ q[j].orderReady
        /\ q[j].page = page /\ q[j].bytes \cap bytes # {}
  BY <1>4 DEF Rereads, VirtualOverlap
<1>10. /\ r[i].kind = q[i].kind /\ r[i].seq = q[i].seq /\ r[i].bytes = bytes /\ r[i].page = page
       /\ r[i].addressReady /\ r[i].dataReady = q[i].dataReady /\ r[i].orderReady = q[i].orderReady
       /\ r[i].replay = q[i].replay /\ r[i].value = q[i].value /\ ~r[i].orderReady
  BY <1>4, <1>5, <1>7
<1> HIDE DEF r
<1>11. ASSUME NEW j \in 1 .. Len(q)
       PROVE  /\ r[j].kind = q[j].kind /\ r[j].seq = q[j].seq /\ r[j].orderReady = q[j].orderReady
              /\ r[j].value = q[j].value /\ r[j].dataReady = q[j].dataReady
              /\ j # i => /\ r[j].bytes = q[j].bytes /\ r[j].page = q[j].page
                          /\ r[j].addressReady = q[j].addressReady
                          /\ r[j].replay = (q[j].replay \/ rereads(j, e))
  BY <1>6, <1>10
<1> HIDE DEF rereads
<1> QED BY <1>8, <1>9, <1>10, <1>11 DEF AddressedTo, r

LEMMA AddressedKept ==
  ASSUME LsqInv, NEW i \in DOMAIN lsqEntries, NEW bytes \in SUBSET Bytes, NEW page \in 1 .. 2,
         lsqCaller.eager => page = 1, AddressReady(i, bytes, page)
  PROVE  LsqInv'
<1> DEFINE q == lsqEntries
           r == lsqEntries'
           known == lsqCaller.resolved
           new == [seq |-> q[i].seq, bytes |-> bytes]
<1>1. /\ q \in Seq(Flags) /\ i \in 1 .. Len(q) /\ Len(q) \in Nat /\ q[i] \in Flags
      /\ \A j \in 1 .. Len(q) : q[j].seq \in Nat
  BY DEF LsqInv, EntriesOK
<1>2. AddressedTo(i, bytes, page)
  BY AddressedFacts
<1>3. frame' = frame /\ ~q[i].addressReady
  BY DEF AddressReady
<1>4. /\ lsqCaller' \in [lastSeq : Nat, eager : BOOLEAN, resolved : SUBSET Record, wrong : {FALSE}]
      /\ lsqCaller'.lastSeq = lsqCaller.lastSeq /\ lsqCaller'.eager = lsqCaller.eager
      /\ known' = IF q[i].kind = "store" THEN known \cup {new} ELSE known
  <2>1. PICK now : now = IF q[i].kind = "store" THEN known \cup {new} ELSE known
    OBVIOUS
  <2>2. [q[i] EXCEPT !.addressReady = TRUE, !.bytes = bytes, !.page = page].kind = q[i].kind
        /\ [q[i] EXCEPT !.addressReady = TRUE, !.bytes = bytes, !.page = page].seq = q[i].seq
    BY <1>1 DEF Flags
  <2>3. lsqCaller' = [lsqCaller EXCEPT !.resolved = now]
    BY <2>1, <2>2 DEF AddressReady
  <2>4. now \in SUBSET Record
    BY <1>1, <2>1 DEF LsqInv, Record
  <2> QED BY <2>1, <2>3, <2>4 DEF LsqInv
<1>5. EntriesOK(r, lsqCaller'.lastSeq)
  <2>1. \A j \in 1 .. Len(q) : q[j].orderReady => q[j].addressReady /\ q[j].dataReady
    BY DEF LsqInv, EntriesOK
  <2>2. \A j \in 1 .. Len(q) : r[j].orderReady => r[j].addressReady /\ r[j].dataReady
    BY <1>1, <1>2, <2>1 DEF AddressedTo
  <2> QED BY <1>2, <1>4, <2>2 DEF LsqInv, EntriesOK, AddressedTo
<1>6. \A w : Retired(r, w) <=> Retired(q, w)
  BY <1>2 DEF Retired, AddressedTo
<1>7. ~Retired(q, new)
  BY <1>1 DEF Retired
<1>8. RecordsOK(r, lsqCaller'.lastSeq, known')
  <2>1. known' \subseteq Record
    BY <1>4
  <2>2. ASSUME NEW w \in known'
        PROVE  /\ w.seq \in 1 .. lsqCaller'.lastSeq
               /\ \/ Retired(r, w)
                  \/ \E j \in 1 .. Len(r) : /\ r[j].kind = "store" /\ r[j].addressReady
                                            /\ r[j].seq = w.seq /\ r[j].bytes = w.bytes
    <3>1. CASE w = new /\ q[i].kind = "store"
      BY <1>1, <1>2, <1>4, <3>1 DEF AddressedTo, LsqInv, EntriesOK
    <3>2. CASE w \in known
      <4>1. CASE Retired(q, w)
        BY <1>4, <1>6, <3>2, <4>1 DEF LsqInv, RecordsOK
      <4>2. CASE ~Retired(q, w)
        <5>1. PICK j \in 1 .. Len(q) : /\ q[j].kind = "store" /\ q[j].addressReady
                                       /\ q[j].seq = w.seq /\ q[j].bytes = w.bytes
          BY <3>2, <4>2 DEF LsqInv, RecordsOK
        <5>2. j # i
          BY <1>3, <5>1
        <5> QED BY <1>2, <1>4, <3>2, <5>1, <5>2 DEF AddressedTo, LsqInv, RecordsOK
      <4> QED BY <4>1, <4>2
    <3> QED BY <1>4, <2>2, <3>1, <3>2
  <2>3. ASSUME NEW j \in 1 .. Len(r), r[j].kind = "store", r[j].addressReady
        PROVE  [seq |-> r[j].seq, bytes |-> r[j].bytes] \in known'
    <3>1. CASE j = i
      BY <1>1, <1>2, <1>4, <2>3, <3>1 DEF AddressedTo
    <3>2. CASE j # i
      BY <1>1, <1>2, <1>4, <2>3, <3>2 DEF AddressedTo, LsqInv, RecordsOK
    <3> QED BY <3>1, <3>2
  <2> QED BY <2>1, <2>2, <2>3 DEF RecordsOK
<1>9. FrameOK(r, known', frame')
  <2>1. ASSUME NEW b \in Bytes
        PROVE  {s \in known' : Retired(r, s) /\ b \in s.bytes} = {s \in known : Retired(q, s) /\ b \in s.bytes}
    BY <1>4, <1>6, <1>7
  <2> QED BY <1>3, <2>1 DEF LsqInv, FrameOK
<1>10. LoadsOK(r, known')
  <2> SUFFICES ASSUME NEW j \in 1 .. Len(r), r[j].kind = "load", r[j].orderReady, ~r[j].replay
               PROVE  ReadsOK(r[j], known')
    BY DEF LoadsOK
  <2>1. j \in 1 .. Len(q) /\ j # i /\ r[j].bytes = q[j].bytes /\ r[j].value = q[j].value /\ r[j].seq = q[j].seq
        /\ q[j].kind = "load" /\ q[j].orderReady /\ ~q[j].replay /\ q[j].addressReady
    BY <1>1, <1>2 DEF AddressedTo, LsqInv, EntriesOK
  <2>2. ReadsOK(q[j], known)
    BY <2>1 DEF LsqInv, LoadsOK
  <2>3. ASSUME q[i].kind = "store", q[i].seq < q[j].seq
        PROVE  q[j].bytes \cap bytes = {}
    <3>1. CASE lsqCaller.eager
      <4>1. q[j].page = page
        BY <2>1, <3>1 DEF LsqInv, CallerOK
      <4> QED BY <1>1, <1>2, <2>1, <2>3, <4>1 DEF AddressedTo
    <3>2. CASE ~lsqCaller.eager
      <4>1. i < j
        BY <1>1, <2>1, <2>3 DEF LsqInv, EntriesOK
      <4>2. i \in 1 .. j - 1
        BY <1>1, <2>1, <4>1
      <4> QED BY <1>3, <2>1, <2>3, <3>2, <4>2 DEF LsqInv, CallerOK
    <3> QED BY <3>1, <3>2 DEF LsqInv
  <2>4. \A b \in q[j].bytes : Writers(known', q[j].seq, b) = Writers(known, q[j].seq, b)
    BY <1>4, <2>3 DEF Writers
  <2> QED BY <2>1, <2>2, <2>4 DEF ReadsOK
<1>11. CallerOK(r, lsqCaller'.eager)
  <2>1. CASE lsqCaller.eager
    BY <1>1, <1>2, <1>4, <2>1 DEF LsqInv, CallerOK, AddressedTo
  <2>2. CASE ~lsqCaller.eager
    <3>1. ASSUME NEW j \in 1 .. Len(q)
          PROVE  ~r[j].replay
      <4>1. ~q[j].replay /\ ~q[i].replay
        BY <1>1, <2>2 DEF LsqInv, CallerOK
      <4>2. ASSUME q[i].kind = "store", q[j].kind = "load", q[j].seq > q[i].seq, q[j].orderReady
            PROVE  FALSE
        <5>1. i < j
          BY <1>1, <4>2 DEF LsqInv, EntriesOK
        <5>2. i \in 1 .. j - 1
          BY <1>1, <5>1
        <5> QED BY <1>1, <1>3, <2>2, <4>2, <5>2 DEF LsqInv, CallerOK
      <4> QED BY <1>2, <4>1, <4>2 DEF AddressedTo
    <3>2. ASSUME NEW j \in 1 .. Len(q), r[j].kind = "load", r[j].orderReady,
                 NEW k \in 1 .. j - 1, r[k].kind = "store"
          PROVE  r[k].addressReady
      <4>1. k \in 1 .. Len(q)
        BY <1>1
      <4>2. q[k].addressReady
        BY <1>2, <2>2, <3>2, <4>1 DEF LsqInv, CallerOK, AddressedTo
      <4> QED BY <1>2, <4>1, <4>2 DEF AddressedTo
    <3> QED BY <1>2, <1>4, <2>2, <3>1, <3>2 DEF CallerOK, AddressedTo
  <2> QED BY <2>1, <2>2 DEF LsqInv
<1> QED BY <1>4, <1>5, <1>8, <1>9, <1>10, <1>11 DEF LsqInv

-----------------------------------------------------------------------------
(* Entries come and go *)

LEMMA EnqueueKept ==
  ASSUME LsqInv, NEW kind \in {"load", "store"}, Enqueue(kind)
  PROVE  LsqInv'
<1> DEFINE q == lsqEntries
           r == lsqEntries'
           last == lsqCaller.lastSeq
           e == [kind |-> kind, seq |-> last + 1, bytes |-> {}, page |-> 0,
                 addressReady |-> FALSE, dataReady |-> FALSE, orderReady |-> FALSE,
                 replay |-> FALSE, value |-> NotRead]
<1>1. q \in Seq(Flags) /\ Len(q) \in Nat /\ last \in Nat
  BY DEF LsqInv, EntriesOK
<1>2. r = Append(q, e) /\ frame' = frame
  BY DEF Enqueue
<1>3. /\ lsqCaller' \in [lastSeq : Nat, eager : BOOLEAN, resolved : SUBSET Record, wrong : {FALSE}]
      /\ lsqCaller'.lastSeq = last + 1 /\ lsqCaller'.eager = lsqCaller.eager
      /\ lsqCaller'.resolved = lsqCaller.resolved
  <2>1. PICK next \in Nat : next = last + 1
    BY <1>1
  <2>2. lsqCaller' = [lsqCaller EXCEPT !.lastSeq = next]
    BY <2>1 DEF Enqueue
  <2> QED BY <2>1, <2>2 DEF LsqInv
<1>4. e \in Flags
  <2>1. NotRead \in [{} -> Nat] /\ {} \in SUBSET Bytes
    BY DEF NotRead
  <2>2. NotRead \in UNION {[read -> Nat] : read \in SUBSET Bytes}
    BY <2>1
  <2>3. last + 1 \in Nat
    BY <1>1
  <2> HIDE DEF NotRead
  <2> QED BY <2>1, <2>2, <2>3 DEF Flags
<1>5. /\ e.kind = kind /\ e.seq = last + 1 /\ ~e.addressReady /\ ~e.orderReady /\ ~e.replay
  OBVIOUS
<1> HIDE DEF e
<1>6. /\ r \in Seq(Flags) /\ Len(r) = Len(q) + 1 /\ r[Len(q) + 1] = e
      /\ \A i \in 1 .. Len(q) : r[i] = q[i]
  BY <1>1, <1>2, <1>4, AppendProperties
<1>7. \A i \in 1 .. Len(r) : i \in 1 .. Len(q) \/ i = Len(q) + 1
  BY <1>1, <1>6
<1> HIDE DEF r
<1>8. EntriesOK(r, last + 1)
  <2>1. ASSUME NEW i \in 1 .. Len(r)
        PROVE  /\ r[i].seq \in 1 .. last + 1
               /\ r[i].orderReady => r[i].addressReady /\ r[i].dataReady
    BY <1>1, <1>5, <1>6, <1>7 DEF LsqInv, EntriesOK
  <2>2. ASSUME NEW i \in 1 .. Len(r), NEW j \in 1 .. Len(r), i < j
        PROVE  r[i].seq < r[j].seq
    <3>1. i \in 1 .. Len(q)
      BY <1>1, <1>7, <2>2, <1>6
    <3>2. q[i].seq \in 1 .. last
      BY <3>1 DEF LsqInv, EntriesOK
    <3>3. CASE j \in 1 .. Len(q)
      BY <1>6, <2>2, <3>1, <3>3 DEF LsqInv, EntriesOK
    <3>4. CASE j = Len(q) + 1
      BY <1>1, <1>5, <1>6, <3>1, <3>2, <3>4
    <3> QED BY <1>7, <3>3, <3>4
  <2> QED BY <1>6, <2>1, <2>2 DEF EntriesOK
<1>9. \A w \in lsqCaller.resolved : Retired(r, w) <=> Retired(q, w)
  <2> TAKE w \in lsqCaller.resolved
  <2>1. w.seq < e.seq
    BY <1>1, <1>5 DEF LsqInv, RecordsOK
  <2> QED BY <1>1, <1>6, <1>7, <2>1 DEF Retired
<1>10. RecordsOK(r, last + 1, lsqCaller.resolved)
  <2>1. \A w \in lsqCaller.resolved : w.seq \in 1 .. last + 1
    BY <1>1 DEF LsqInv, RecordsOK
  <2>2. ASSUME NEW w \in lsqCaller.resolved, ~Retired(r, w)
        PROVE  \E i \in 1 .. Len(r) : /\ r[i].kind = "store" /\ r[i].addressReady
                                      /\ r[i].seq = w.seq /\ r[i].bytes = w.bytes
    <3>1. PICK i \in 1 .. Len(q) : /\ q[i].kind = "store" /\ q[i].addressReady
                                   /\ q[i].seq = w.seq /\ q[i].bytes = w.bytes
      BY <1>9, <2>2 DEF LsqInv, RecordsOK
    <3> QED BY <1>1, <1>6, <3>1
  <2>3. ASSUME NEW i \in 1 .. Len(r), r[i].kind = "store", r[i].addressReady
        PROVE  [seq |-> r[i].seq, bytes |-> r[i].bytes] \in lsqCaller.resolved
    BY <1>5, <1>6, <1>7, <2>3 DEF LsqInv, RecordsOK
  <2> QED BY <2>1, <2>2, <2>3 DEF LsqInv, RecordsOK
<1>11. FrameOK(r, lsqCaller.resolved, frame)
  <2>1. ASSUME NEW b \in Bytes
        PROVE  {s \in lsqCaller.resolved : Retired(r, s) /\ b \in s.bytes}
               = {s \in lsqCaller.resolved : Retired(q, s) /\ b \in s.bytes}
    BY <1>9
  <2> QED BY <2>1 DEF LsqInv, FrameOK
<1>12. LoadsOK(r, lsqCaller.resolved)
  BY <1>5, <1>6, <1>7 DEF LsqInv, LoadsOK
<1>13. CallerOK(r, lsqCaller.eager)
  <2>1. ASSUME lsqCaller.eager, NEW i \in 1 .. Len(r), r[i].addressReady
        PROVE  r[i].page = 1
    BY <1>5, <1>6, <1>7, <2>1 DEF LsqInv, CallerOK
  <2>2. ASSUME ~lsqCaller.eager, NEW i \in 1 .. Len(r)
        PROVE  /\ ~r[i].replay
               /\ r[i].kind = "load" /\ r[i].orderReady =>
                    \A j \in 1 .. i - 1 : r[j].kind = "store" => r[j].addressReady
    <3>1. CASE i = Len(q) + 1
      BY <1>5, <1>6, <3>1
    <3>2. CASE i \in 1 .. Len(q)
      <4>1. \A j \in 1 .. i - 1 : r[j] = q[j]
        BY <1>1, <1>6, <3>2
      <4>2. r[i] = q[i]
        BY <1>6, <3>2
      <4> QED BY <2>2, <3>2, <4>1, <4>2 DEF LsqInv, CallerOK
    <3> QED BY <1>7, <3>1, <3>2
  <2> QED BY <2>1, <2>2 DEF CallerOK
<1> QED BY <1>2, <1>3, <1>8, <1>10, <1>11, <1>12, <1>13 DEF LsqInv, r

LEMMA RetireKept ==
  ASSUME LsqInv, RetireEntry
  PROVE  LsqInv'
<1> DEFINE q == lsqEntries
           r == lsqEntries'
           known == lsqCaller.resolved
           head == q[1]
<1>1. /\ q \in Seq(Flags) /\ q # <<>> /\ Len(q) \in Nat /\ 1 \in 1 .. Len(q) /\ Head(q) = head
      /\ AllReady(head) /\ ~ReplayActive /\ DOMAIN q = 1 .. Len(q)
      /\ \A i \in 1 .. Len(q) : q[i] \in Flags /\ ~q[i].replay
  BY DEF LsqInv, EntriesOK, RetireEntry, ReplayActive
<1>2. r = Tail(q) /\ frame' = [b \in Bytes |-> IF head.kind = "store" /\ b \in head.bytes THEN head.seq ELSE frame[b]]
  BY <1>1 DEF RetireEntry
<1>3. /\ r \in Seq(Flags) /\ Len(r) = Len(q) - 1 /\ \A i \in 1 .. Len(q) - 1 : r[i] = q[i + 1]
  BY <1>1, <1>2
<1>4. \A i \in 1 .. Len(r) : i + 1 \in 1 .. Len(q) /\ i + 1 > 1 /\ r[i] = q[i + 1]
  BY <1>1, <1>3
<1>5. \A i \in 1 .. Len(q) : i = 1 \/ (i - 1 \in 1 .. Len(r) /\ r[i - 1] = q[i])
  BY <1>1, <1>3
<1>6. head.kind = "load" => Right(head)
  <2>1. head.kind = "load" => ReadsOK(head, known)
    BY <1>1 DEF LsqInv, LoadsOK, AllReady
  <2> QED BY <1>1, <2>1, RightIsReads
<1>7. lsqCaller' = lsqCaller
  <2>1. lsqCaller' = [lsqCaller EXCEPT !.wrong = @ \/ (Head(q).kind = "load" /\ ~Right(Head(q)))]
    BY DEF RetireEntry
  <2>2. ~(Head(q).kind = "load" /\ ~Right(Head(q)))
    BY <1>1, <1>6
  <2>3. lsqCaller.wrong = FALSE
    BY DEF LsqInv
  <2>4. PICK bad \in BOOLEAN : bad = (lsqCaller.wrong \/ (Head(q).kind = "load" /\ ~Right(Head(q))))
    OBVIOUS
  <2>5. bad = FALSE
    BY <2>2, <2>3, <2>4
  <2>6. lsqCaller' = [lsqCaller EXCEPT !.wrong = bad]
    BY <2>1, <2>4
  <2> QED BY <2>3, <2>5, <2>6 DEF LsqInv
<1>8. \A i \in 1 .. Len(q) : q[i].seq \in Nat /\ (i # 1 => head.seq < q[i].seq)
  BY <1>1 DEF LsqInv, EntriesOK
<1> HIDE DEF r
<1>9. EntriesOK(r, lsqCaller.lastSeq)
  <2>1. ASSUME NEW i \in 1 .. Len(r)
        PROVE  /\ r[i].seq \in 1 .. lsqCaller.lastSeq
               /\ r[i].orderReady => r[i].addressReady /\ r[i].dataReady
               /\ \A j \in 1 .. Len(r) : i < j => r[i].seq < r[j].seq
    <3>1. \A j \in 1 .. Len(r) : i < j => q[i + 1].seq < q[j + 1].seq
      BY <1>4 DEF LsqInv, EntriesOK
    <3>2. /\ q[i + 1].seq \in 1 .. lsqCaller.lastSeq
          /\ q[i + 1].orderReady => q[i + 1].addressReady /\ q[i + 1].dataReady
      BY <1>4 DEF LsqInv, EntriesOK
    <3> QED BY <1>4, <3>1, <3>2
  <2> QED BY <1>3, <2>1 DEF EntriesOK
<1>10. ASSUME NEW w \in known
       PROVE  /\ w.seq \in Nat
              /\ \/ Retired(q, w)
                 \/ head.kind = "store" /\ head.addressReady /\ head.seq = w.seq /\ head.bytes = w.bytes
                 \/ \E i \in 1 .. Len(r) : /\ r[i].kind = "store" /\ r[i].addressReady
                                           /\ r[i].seq = w.seq /\ r[i].bytes = w.bytes
  <2>1. CASE \E i \in 1 .. Len(q) : /\ q[i].kind = "store" /\ q[i].addressReady
                                    /\ q[i].seq = w.seq /\ q[i].bytes = w.bytes
    <3>1. PICK i \in 1 .. Len(q) : /\ q[i].kind = "store" /\ q[i].addressReady
                                   /\ q[i].seq = w.seq /\ q[i].bytes = w.bytes
      BY <2>1
    <3> QED BY <1>5, <1>8, <3>1
  <2>2. w.seq \in Nat
    BY DEF LsqInv, Record
  <2> QED BY <2>1, <2>2 DEF LsqInv, RecordsOK
<1>11. ASSUME NEW w \in known
       PROVE  Retired(r, w) <=> \/ Retired(q, w)
                                \/ head.kind = "store" /\ head.addressReady /\ head.seq = w.seq /\ head.bytes = w.bytes
  <2>1. Retired(q, w) => Retired(r, w)
    BY <1>4 DEF Retired
  <2>2. head.seq = w.seq => Retired(r, w)
    BY <1>4, <1>8 DEF Retired
  <2>3. (\E i \in 1 .. Len(r) : r[i].seq = w.seq) => ~Retired(r, w)
    BY <1>10 DEF Retired
  <2> QED BY <1>10, <2>1, <2>2, <2>3
<1>12. RecordsOK(r, lsqCaller.lastSeq, known)
  <2>1. ASSUME NEW i \in 1 .. Len(r), r[i].kind = "store", r[i].addressReady
        PROVE  [seq |-> r[i].seq, bytes |-> r[i].bytes] \in known
    BY <1>4, <2>1 DEF LsqInv, RecordsOK
  <2> QED BY <1>10, <1>11, <2>1 DEF LsqInv, RecordsOK
<1>13. FrameOK(r, known, frame')
  <2>1. frame' \in [Bytes -> Nat]
    BY <1>1, <1>2, <1>8 DEF LsqInv, FrameOK
  <2>2. ASSUME NEW b \in Bytes
        PROVE  Top(frame'[b], {w.seq : w \in {s \in known : Retired(r, s) /\ b \in s.bytes}})
    <3>1. Top(frame[b], {w.seq : w \in {s \in known : Retired(q, s) /\ b \in s.bytes}})
      BY DEF LsqInv, FrameOK
    <3>2. CASE head.kind = "store" /\ b \in head.bytes
      <4>1. frame'[b] = head.seq
        BY <1>2, <3>2
      <4>2. [seq |-> head.seq, bytes |-> head.bytes] \in known
        BY <1>1, <3>2 DEF LsqInv, RecordsOK, AllReady
      <4>3. PICK h \in known : h.seq = head.seq /\ h.bytes = head.bytes
        BY <4>2
      <4>4. Retired(r, h)
        BY <1>1, <1>11, <3>2, <4>3 DEF AllReady
      <4>5. \A w \in known : Retired(r, w) => w.seq <= head.seq
        BY <1>1, <1>8, <1>10, <1>11 DEF Retired
      <4> QED BY <3>2, <4>1, <4>3, <4>4, <4>5 DEF Top
    <3>3. CASE ~(head.kind = "store" /\ b \in head.bytes)
      <4>1. frame'[b] = frame[b]
        BY <1>2, <3>3
      <4>2. {s \in known : Retired(r, s) /\ b \in s.bytes} = {s \in known : Retired(q, s) /\ b \in s.bytes}
        BY <1>11, <3>3
      <4> QED BY <3>1, <4>1, <4>2
    <3> QED BY <3>2, <3>3
  <2> QED BY <2>1, <2>2 DEF FrameOK
<1>14. LoadsOK(r, known)
  BY <1>4 DEF LsqInv, LoadsOK
<1>15. CallerOK(r, lsqCaller.eager)
  <2>1. ASSUME ~lsqCaller.eager, NEW i \in 1 .. Len(r), r[i].kind = "load", r[i].orderReady,
               NEW j \in 1 .. i - 1, r[j].kind = "store"
        PROVE  r[j].addressReady
    <3>1. j \in 1 .. Len(r) /\ j + 1 \in 1 .. (i + 1) - 1
      BY <1>1, <1>3
    <3> QED BY <1>4, <2>1, <3>1 DEF LsqInv, CallerOK
  <2> QED BY <1>1, <1>4, <2>1 DEF LsqInv, CallerOK
<1> QED BY <1>7, <1>9, <1>12, <1>13, <1>14, <1>15 DEF LsqInv, r

\* The queue is in order: what is kept is the part up to seq.
LEMMA KeptFacts ==
  ASSUME LsqInv, NEW seq \in Nat
  PROVE  /\ Kept(seq) \in Seq(Flags) /\ Len(Kept(seq)) <= Len(lsqEntries)
         /\ \A i \in 1 .. Len(Kept(seq)) : Kept(seq)[i] = lsqEntries[i]
         /\ \A i \in 1 .. Len(lsqEntries) : i <= Len(Kept(seq)) <=> lsqEntries[i].seq <= seq
<1> DEFINE q == lsqEntries
           old == {i \in DOMAIN q : q[i].seq <= seq}
           w == Kept(seq)
<1>1. /\ q \in Seq(Flags) /\ Len(q) \in Nat /\ DOMAIN q = 1 .. Len(q)
      /\ \A i \in 1 .. Len(q) : q[i] \in Flags /\ q[i].seq \in Nat
  BY DEF LsqInv, EntriesOK
<1>2. \A i, j \in 1 .. Len(q) : i < j => q[i].seq < q[j].seq
  BY DEF LsqInv, EntriesOK
<1>3. CASE old = {}
  <2>1. w = <<>> /\ w \in Seq(Flags) /\ Len(w) = 0
    BY <1>3, EmptySeq DEF Kept
  <2>2. \A i \in 1 .. Len(q) : ~(q[i].seq <= seq)
    BY <1>1, <1>3
  <2> HIDE DEF w
  <2>3. \A i \in 1 .. Len(q) : ~(i <= Len(w))
    BY <2>1
  <2> QED BY <1>1, <2>1, <2>2, <2>3 DEF w
<1>4. CASE old # {}
  <2>1. PICK k : k = Max(old)
    OBVIOUS
  <2>2. old \in SUBSET (0 .. Len(q))
    BY <1>1
  <2>3. k \in old /\ \A y \in old : k >= y
    BY <1>1, <1>4, <2>1, <2>2, GreatestIs
  <2>4. k \in 1 .. Len(q) /\ q[k].seq <= seq
    BY <1>1, <2>3
  <2>5. w = SubSeq(q, 1, k)
    BY <1>4, <2>1 DEF Kept
  <2>6. w \in Seq(Flags) /\ Len(w) = k /\ \A i \in 1 .. k : w[i] = q[i]
    <3> HIDE DEF w, q
    <3>1. \A i \in 1 .. k : q[i] \in Flags
      BY <1>1, <2>4
    <3>2. /\ w \in Seq(Flags) /\ Len(w) = IF 1 <= k THEN k - 1 + 1 ELSE 0
          /\ \A i \in 1 .. k - 1 + 1 : w[i] = q[1 + i - 1]
      BY <2>4, <2>5, <3>1, SubSeqProperties
    <3> QED BY <2>4, <3>2
  <2>7. \A i \in 1 .. Len(q) : i <= k <=> q[i].seq <= seq
    <3> TAKE i \in 1 .. Len(q)
    <3>1. CASE i < k
      BY <1>1, <1>2, <2>4, <3>1
    <3>2. CASE i > k
      BY <1>1, <2>3, <3>2
    <3> QED BY <2>4, <3>1, <3>2
  <2> HIDE DEF w
  <2> QED BY <2>4, <2>6, <2>7 DEF w
<1> QED BY <1>3, <1>4

LEMMA FlushKept ==
  ASSUME LsqInv, NEW seq \in Nat, lsqEntries # <<>>, lsqEntries[1].seq <= seq + 1, FlushYoungerThan(seq)
  PROVE  LsqInv'
<1> DEFINE q == lsqEntries
           r == lsqEntries'
           known == lsqCaller.resolved
           now == {s \in known : s.seq <= seq}
<1>1. /\ q \in Seq(Flags) /\ Len(q) \in Nat /\ 1 \in 1 .. Len(q)
      /\ \A i \in 1 .. Len(q) : q[i].seq \in Nat
  BY DEF LsqInv, EntriesOK
<1>2. /\ r \in Seq(Flags) /\ Len(r) <= Len(q) /\ Len(r) \in Nat
      /\ \A i \in 1 .. Len(r) : r[i] = q[i]
      /\ \A i \in 1 .. Len(q) : i <= Len(r) <=> q[i].seq <= seq
  <2>1. r = Kept(seq)
    BY DEF FlushYoungerThan
  <2>2. r \in Seq(Flags) => Len(r) \in Nat
    OBVIOUS
  <2> QED BY <2>1, <2>2, KeptFacts
<1>3. \A i \in 1 .. Len(r) : i \in 1 .. Len(q) /\ r[i] = q[i] /\ q[i].seq <= seq
  BY <1>1, <1>2
<1>4. /\ lsqCaller' \in [lastSeq : Nat, eager : BOOLEAN, resolved : SUBSET Record, wrong : {FALSE}]
      /\ lsqCaller'.lastSeq = lsqCaller.lastSeq /\ lsqCaller'.eager = lsqCaller.eager
      /\ lsqCaller'.resolved = now /\ frame' = frame
  <2>1. PICK n \in SUBSET Record : n = now
    BY DEF LsqInv
  <2>2. lsqCaller' = [lsqCaller EXCEPT !.resolved = n]
    BY <2>1 DEF FlushYoungerThan
  <2> QED BY <2>1, <2>2 DEF LsqInv, FlushYoungerThan
<1>5. EntriesOK(r, lsqCaller.lastSeq)
  <2>1. ASSUME NEW i \in 1 .. Len(r)
        PROVE  /\ r[i].seq \in 1 .. lsqCaller.lastSeq
               /\ r[i].orderReady => r[i].addressReady /\ r[i].dataReady
               /\ \A j \in 1 .. Len(r) : i < j => r[i].seq < r[j].seq
    BY <1>3 DEF LsqInv, EntriesOK
  <2> QED BY <1>2, <2>1 DEF EntriesOK
<1>6. \A w \in known : w.seq \in Nat
  BY DEF LsqInv, Record
<1>7. \A w \in known : Retired(q, w) => w \in now /\ Retired(r, w)
  BY <1>1, <1>3, <1>6 DEF Retired
<1>8. ASSUME NEW w \in now, ~Retired(q, w)
      PROVE  \E i \in 1 .. Len(r) : /\ r[i].kind = "store" /\ r[i].addressReady
                                    /\ r[i].seq = w.seq /\ r[i].bytes = w.bytes
  <2>1. PICK i \in 1 .. Len(q) : /\ q[i].kind = "store" /\ q[i].addressReady
                                 /\ q[i].seq = w.seq /\ q[i].bytes = w.bytes
    BY <1>8 DEF LsqInv, RecordsOK
  <2>2. i <= Len(r)
    BY <1>2, <2>1
  <2> QED BY <1>2, <2>1, <2>2
<1>9. \A w \in now : Retired(r, w) => Retired(q, w)
  <2> SUFFICES ASSUME NEW w \in now, Retired(r, w), ~Retired(q, w) PROVE FALSE
    OBVIOUS
  <2>1. PICK i \in 1 .. Len(r) : r[i].seq = w.seq
    BY <1>8
  <2> QED BY <1>6, <2>1 DEF Retired
<1>10. RecordsOK(r, lsqCaller.lastSeq, now)
  <2>1. ASSUME NEW i \in 1 .. Len(r), r[i].kind = "store", r[i].addressReady
        PROVE  [seq |-> r[i].seq, bytes |-> r[i].bytes] \in now
    <3>1. [seq |-> q[i].seq, bytes |-> q[i].bytes] \in known
      BY <1>3, <2>1 DEF LsqInv, RecordsOK
    <3> QED BY <1>3, <3>1
  <2>2. now \subseteq Record /\ \A w \in now : w.seq \in 1 .. lsqCaller.lastSeq
    BY DEF LsqInv, RecordsOK
  <2>3. \A w \in now : Retired(r, w) \/ \E i \in 1 .. Len(r) : /\ r[i].kind = "store" /\ r[i].addressReady
                                                               /\ r[i].seq = w.seq /\ r[i].bytes = w.bytes
    BY <1>7, <1>8
  <2> HIDE DEF now
  <2> QED BY <2>1, <2>2, <2>3 DEF RecordsOK
<1>11. FrameOK(r, now, frame)
  <2>1. ASSUME NEW b \in Bytes
        PROVE  {s \in now : Retired(r, s) /\ b \in s.bytes} = {s \in known : Retired(q, s) /\ b \in s.bytes}
    BY <1>7, <1>9
  <2> HIDE DEF now
  <2> QED BY <2>1 DEF LsqInv, FrameOK
<1>12. LoadsOK(r, now)
  <2> SUFFICES ASSUME NEW i \in 1 .. Len(r), r[i].kind = "load", r[i].orderReady, ~r[i].replay
               PROVE  ReadsOK(r[i], now)
    BY DEF LoadsOK
  <2>1. ReadsOK(q[i], known)
    BY <1>3 DEF LsqInv, LoadsOK
  <2>2. \A w \in known : w.seq < q[i].seq => w \in now
    BY <1>1, <1>3, <1>6
  <2>3. \A b \in q[i].bytes : Writers(now, q[i].seq, b) = Writers(known, q[i].seq, b)
    BY <2>2 DEF Writers
  <2> HIDE DEF now
  <2> QED BY <1>3, <2>1, <2>3 DEF ReadsOK
<1>13. CallerOK(r, lsqCaller.eager)
  <2>1. ASSUME ~lsqCaller.eager, NEW i \in 1 .. Len(r), r[i].kind = "load", r[i].orderReady,
               NEW j \in 1 .. i - 1, r[j].kind = "store"
        PROVE  r[j].addressReady
    <3>1. j \in 1 .. Len(r)
      BY <1>2
    <3> QED BY <1>3, <2>1, <3>1 DEF LsqInv, CallerOK
  <2> QED BY <1>3, <2>1 DEF LsqInv, CallerOK
<1> HIDE DEF r, now
<1> QED BY <1>4, <1>5, <1>10, <1>11, <1>12, <1>13 DEF LsqInv, r

\* A replay starts at a load of the queue.
LEMMA ReplayFacts ==
  ASSUME LsqInv, ReplayActive, NEW seq \in Nat,
         seq + 1 = Min({e.seq : e \in {f \in ToSet(lsqEntries) : f.replay}})
  PROVE  lsqEntries # <<>> /\ lsqEntries[1].seq <= seq + 1
<1> DEFINE q == lsqEntries
           marked == {e.seq : e \in {f \in ToSet(q) : f.replay}}
<1>1. /\ q \in Seq(Flags) /\ Len(q) \in Nat /\ DOMAIN q = 1 .. Len(q)
      /\ \A i \in 1 .. Len(q) : q[i].seq \in Nat /\ (i # 1 => q[1].seq < q[i].seq)
  BY DEF LsqInv, EntriesOK
<1>2. ToSet(q) = {q[i] : i \in 1 .. Len(q)}
  BY <1>1 DEF ToSet
<1>3. \A n \in marked : \E i \in 1 .. Len(q) : n = q[i].seq
  BY <1>2
<1>4. marked \in SUBSET Nat /\ marked # {}
  <2>1. PICK i \in 1 .. Len(q) : q[i].replay
    BY <1>1 DEF ReplayActive
  <2>2. q[i].seq \in marked
    BY <1>2, <2>1
  <2> QED BY <1>1, <1>3, <2>2
<1>5. Min(marked) \in marked
  <2> HIDE DEF marked
  <2>1. \E x \in marked : \A y \in marked : x <= y
    BY <1>4, LeastOf
  <2> QED BY <2>1 DEF Min
<1>6. PICK i \in 1 .. Len(q) : seq + 1 = q[i].seq
  BY <1>3, <1>5
<1> QED BY <1>1, <1>6

LEMMA LsqKept ==
  ASSUME LsqInv, [LsqNext]_lsqVars
  PROVE  LsqInv'
<1>1. ASSUME NEW kind \in {"load", "store"}, Enqueue(kind)
      PROVE  LsqInv'
  BY <1>1, EnqueueKept
<1>2. ASSUME NEW i \in DOMAIN lsqEntries, NEW bytes \in Ranges, NEW page \in 1 .. 2,
             lsqCaller.eager => page = 1, AddressReady(i, bytes, page)
      PROVE  LsqInv'
  <2>1. bytes \in SUBSET Bytes
    BY LsqAssumption DEF Ranges, Bytes
  <2> QED BY <1>2, <2>1, AddressedKept
<1>3. ASSUME NEW i \in DOMAIN lsqEntries, DataReady(i) \/ OrderReady(i) \/ ReadLoad(i)
      PROVE  LsqInv'
  BY <1>3, FlagKept, ReadKept
<1>4. CASE RetireEntry
  BY <1>4, RetireKept
<1>5. ASSUME NEW seq \in 0 .. MaxSeq, FlushYoungerThan(seq),
             IF ReplayActive
             THEN seq + 1 = Min({e.seq : e \in {f \in ToSet(lsqEntries) : f.replay}})
             ELSE lsqEntries # <<>> /\ seq \in {Head(lsqEntries).seq - 1, Head(lsqEntries).seq}
      PROVE  LsqInv'
  <2>1. seq \in Nat
    BY LsqAssumption
  <2>2. lsqEntries # <<>> /\ lsqEntries[1].seq <= seq + 1
    <3>1. CASE ReplayActive
      BY <1>5, <2>1, <3>1, ReplayFacts
    <3>2. CASE ~ReplayActive
      <4>1. lsqEntries # <<>> => Head(lsqEntries) = lsqEntries[1] /\ lsqEntries[1].seq \in Nat
        BY DEF LsqInv, EntriesOK
      <4> QED BY <1>5, <2>1, <3>2, <4>1
    <3> QED BY <3>1, <3>2
  <2> QED BY <1>5, <2>1, <2>2, FlushKept
<1>6. CASE UNCHANGED lsqVars
  BY <1>6 DEF lsqVars, LsqInv
<1> QED BY <1>1, <1>2, <1>3, <1>4, <1>5, <1>6 DEF LsqNext

\* Whoever calls the queue, in whatever order it allows, and whatever is flushed: a load that
\* has read holds, byte for byte, what the youngest older store known wrote, or is marked and
\* flushed before it retires; and a caller that waits for addresses never needs that.
THEOREM LoadsReadInOrder == LsqSpec => []LoadsInOrder
<1>1. LsqInv /\ [LsqNext]_lsqVars => LsqInv'
  BY LsqKept
<1> QED BY <1>1, InitLsqInv, InvImpliesLoads, PTL DEF LsqSpec

-----------------------------------------------------------------------------
(* The binary translator *)

CachedBlock ==
  [first : Cells, last : Cells, code : Seq(Insns), spans : SUBSET Cells,
   memory : 1 .. DbtEntries + 1, doubted : BOOLEAN]

\* What the addresses from first to last hold, and where they are.
CodeAt(code, map, first, last) == [i \in 1 .. (last - first + 1) |-> code[map[first + i - 1]]]
PlaceOf(map, first, last) == {map[v] : v \in first .. last}

\* A block that is not doubted is what its addresses hold, and knows where they are.
FreshIn(cache, code, map) ==
  \A i \in 1 .. Len(cache) :
    ~cache[i].doubted =>
      /\ cache[i].code = CodeAt(code, map, cache[i].first, cache[i].last)
      /\ cache[i].spans = PlaceOf(map, cache[i].first, cache[i].last)

\* At most DbtEntries blocks, one for each range of addresses, each with memory of its own.
OwnedIn(cache, mem) ==
  /\ cache \in Seq(CachedBlock) /\ Len(cache) <= DbtEntries
  /\ \A i, j \in 1 .. Len(cache) :
       cache[i].first = cache[j].first /\ cache[i].last = cache[j].last => i = j
  /\ \A i, j \in 1 .. Len(cache) : cache[i].memory = cache[j].memory => i = j
  /\ mem = {cache[i].memory : i \in 1 .. Len(cache)}

DbtInv ==
  /\ DOMAIN dbt = {"pc", "reg", "map", "wrong"} /\ dbt.map \in [Cells -> Cells] /\ ~dbt.wrong
  /\ dbtCode \in [Cells -> Insns]
  /\ OwnedIn(dbtCache, hostMem)
  /\ FreshIn(dbtCache, dbtCode, dbt.map)

LEMMA CellsAre == NumCells \in Nat \ {0} /\ DbtEntries \in Nat \ {0} /\ Cells = 1 .. NumCells
BY DbtAssumption DEF Cells

LEMMA RangeCells ==
  ASSUME NEW first \in Cells, NEW last \in Cells
  PROVE  /\ \A v \in first .. last : v \in Cells
         /\ \A i \in 1 .. (last - first + 1) : first + i - 1 \in first .. last
BY CellsAre

LEMMA BlockFields ==
  ASSUME NEW e \in CachedBlock
  PROVE  /\ e.first \in Cells /\ e.last \in Cells /\ e.memory \in 1 .. DbtEntries + 1
         /\ e.doubted \in BOOLEAN
BY DEF CachedBlock

\* The block planned now.
LEMMA PlannedBlock ==
  ASSUME DbtInv, NEW first \in Cells, NEW last \in Cells
  PROVE  /\ Entry(first, last) \in CachedBlock
         /\ Entry(first, last).first = first /\ Entry(first, last).last = last
         /\ Entry(first, last).memory \notin hostMem
         /\ Entry(first, last).code = CodeAt(dbtCode, dbt.map, first, last)
         /\ Entry(first, last).spans = PlaceOf(dbt.map, first, last)
         /\ Entry(first, last).doubted = FALSE
<1> DEFINE mems == [i \in 1 .. Len(dbtCache) |-> dbtCache[i].memory]
           room == 1 .. DbtEntries + 1
<1>1. dbtCache \in Seq(CachedBlock) /\ Len(dbtCache) \in Nat /\ Len(dbtCache) <= DbtEntries
      /\ \A i \in 1 .. Len(dbtCache) : dbtCache[i].memory \in room
  BY BlockFields DEF DbtInv, OwnedIn
<1>2. mems \in Seq(room) /\ Len(mems) = Len(dbtCache)
  BY <1>1
<1>3. Distinct(mems)
  BY <1>1, <1>2 DEF Distinct, DbtInv, OwnedIn
<1>4. ToSet(mems) = hostMem
  <2>1. ToSet(mems) = {mems[i] : i \in 1 .. Len(mems)}
    <3> HIDE DEF mems
    <3> QED BY <1>2, QueueSet
  <2> QED BY <1>2, <2>1 DEF DbtInv, OwnedIn
<1> HIDE DEF mems
<1>5. IsFiniteSet(hostMem) /\ Cardinality(hostMem) = Len(dbtCache)
  BY <1>2, <1>3, <1>4, DistinctCardinality
<1>6. Cardinality(room) = DbtEntries + 1
  BY CellsAre, FS_Interval
<1>7. room \ hostMem # {}
  <2> SUFFICES ASSUME room \ hostMem = {} PROVE FALSE
    OBVIOUS
  <2>1. room \subseteq hostMem
    OBVIOUS
  <2>2. Cardinality(room) <= Cardinality(hostMem)
    BY <1>5, <2>1, FS_Subset
  <2> QED BY <1>1, <1>5, <1>6, <2>2, CellsAre
<1>8. PICK x \in room \ hostMem : \A y \in room \ hostMem : x <= y
  <2>1. room \ hostMem \in SUBSET Nat
    BY CellsAre
  <2> QED BY <1>7, <2>1, LeastOf
<1>9. FreshMemory \in room \ hostMem
  BY <1>8 DEF FreshMemory, Min
<1>10. Planned(first, last) = CodeAt(dbtCode, dbt.map, first, last)
  BY DEF Planned, CodeAt
<1>11. Planned(first, last) \in Seq(Insns)
  <2>1. \A i \in 1 .. (last - first + 1) : dbtCode[dbt.map[first + i - 1]] \in Insns
    BY RangeCells DEF DbtInv
  <2>2. CASE first <= last
    <3>1. last - first + 1 \in Nat
      BY <2>2, CellsAre
    <3> QED BY <2>1, <3>1 DEF Planned
  <2>3. CASE ~(first <= last)
    <3>1. 1 .. (last - first + 1) = 1 .. 0
      BY <2>3, CellsAre
    <3>2. Planned(first, last) = [i \in 1 .. 0 |-> dbtCode[dbt.map[first + i - 1]]]
      BY <3>1 DEF Planned
    <3> QED BY <3>2
  <2> QED BY <2>2, <2>3
<1>12. Spans(first, last) = PlaceOf(dbt.map, first, last) /\ Spans(first, last) \in SUBSET Cells
  BY RangeCells DEF Spans, PlaceOf, DbtInv
<1>13. Entry(first, last) =
         [first |-> first, last |-> last, code |-> Planned(first, last),
          spans |-> Spans(first, last), memory |-> FreshMemory, doubted |-> FALSE]
  BY DEF Entry
<1> QED BY <1>9, <1>10, <1>11, <1>12, <1>13 DEF CachedBlock

LEMMA Appended ==
  ASSUME NEW cache, NEW mem, NEW e \in CachedBlock, NEW code, NEW map,
         OwnedIn(cache, mem), FreshIn(cache, code, map), Len(cache) < DbtEntries,
         \A i \in 1 .. Len(cache) : ~(cache[i].first = e.first /\ cache[i].last = e.last),
         e.memory \notin mem,
         e.code = CodeAt(code, map, e.first, e.last), e.spans = PlaceOf(map, e.first, e.last)
  PROVE  OwnedIn(Append(cache, e), mem \cup {e.memory}) /\ FreshIn(Append(cache, e), code, map)
<1> DEFINE next == Append(cache, e)
<1>1. /\ next \in Seq(CachedBlock) /\ Len(next) = Len(cache) + 1 /\ Len(cache) \in Nat
      /\ \A i \in 1 .. Len(cache) : next[i] = cache[i]
      /\ next[Len(cache) + 1] = e
  BY DEF OwnedIn
<1> HIDE DEF next
<1>2. \A i \in 1 .. Len(next) : i \in 1 .. Len(cache) \/ i = Len(cache) + 1
  BY <1>1
<1>3. \A i, j \in 1 .. Len(next) :
        next[i].first = next[j].first /\ next[i].last = next[j].last => i = j
  BY <1>1, <1>2 DEF OwnedIn
<1>4. \A i, j \in 1 .. Len(next) : next[i].memory = next[j].memory => i = j
  BY <1>1, <1>2 DEF OwnedIn
<1>5. mem \cup {e.memory} = {next[i].memory : i \in 1 .. Len(next)}
  <2>1. 1 .. Len(next) = (1 .. Len(cache)) \cup {Len(cache) + 1}
    BY <1>1
  <2> QED BY <1>1, <2>1 DEF OwnedIn
<1>6. Len(next) <= DbtEntries
  BY <1>1, CellsAre
<1>7. FreshIn(next, code, map)
  BY <1>1, <1>2 DEF FreshIn
<1> QED BY <1>1, <1>3, <1>4, <1>5, <1>6, <1>7 DEF OwnedIn, next

LEMMA OldestDropped ==
  ASSUME NEW cache, NEW mem, NEW code, NEW map,
         OwnedIn(cache, mem), FreshIn(cache, code, map), cache # <<>>
  PROVE  /\ OwnedIn(Tail(cache), mem \ {Head(cache).memory}) /\ FreshIn(Tail(cache), code, map)
         /\ Len(Tail(cache)) = Len(cache) - 1 /\ Len(cache) \in Nat
         /\ \A i \in 1 .. Len(cache) - 1 : Tail(cache)[i] = cache[i + 1]
<1> DEFINE next == Tail(cache)
<1>1. /\ next \in Seq(CachedBlock) /\ Len(next) = Len(cache) - 1 /\ Len(cache) \in Nat \ {0}
      /\ \A i \in 1 .. Len(cache) - 1 : next[i] = cache[i + 1]
      /\ Head(cache) = cache[1]
  BY DEF OwnedIn
<1> HIDE DEF next
<1>2. \A i \in 1 .. Len(next) : i + 1 \in 1 .. Len(cache) /\ i + 1 # 1 /\ next[i] = cache[i + 1]
  BY <1>1
<1>3. \A i, j \in 1 .. Len(next) : i + 1 = j + 1 => i = j
  BY <1>1
<1>4. \A i, j \in 1 .. Len(next) :
        next[i].first = next[j].first /\ next[i].last = next[j].last => i = j
  BY <1>2, <1>3 DEF OwnedIn
<1>5. \A i, j \in 1 .. Len(next) : next[i].memory = next[j].memory => i = j
  BY <1>2, <1>3 DEF OwnedIn
<1>6. mem \ {Head(cache).memory} = {next[i].memory : i \in 1 .. Len(next)}
  <2>1. \A i \in 1 .. Len(cache) : i # 1 => i - 1 \in 1 .. Len(next) /\ next[i - 1] = cache[i]
    BY <1>1
  <2>2. 1 \in 1 .. Len(cache)
    BY <1>1
  <2> QED BY <1>1, <1>2, <2>1, <2>2 DEF OwnedIn
<1>7. Len(next) <= DbtEntries
  BY <1>1, CellsAre DEF OwnedIn
<1>8. FreshIn(next, code, map)
  BY <1>2 DEF FreshIn
<1> QED BY <1>1, <1>4, <1>5, <1>6, <1>7, <1>8 DEF OwnedIn, next

LEMMA Replaced ==
  ASSUME NEW cache, NEW mem, NEW e \in CachedBlock, NEW code, NEW map, NEW k \in 1 .. Len(cache),
         OwnedIn(cache, mem), FreshIn(cache, code, map),
         cache[k].first = e.first, cache[k].last = e.last, e.memory \notin mem,
         e.code = CodeAt(code, map, e.first, e.last), e.spans = PlaceOf(map, e.first, e.last)
  PROVE  /\ OwnedIn([cache EXCEPT ![k] = e], (mem \ {cache[k].memory}) \cup {e.memory})
         /\ FreshIn([cache EXCEPT ![k] = e], code, map)
<1> DEFINE next == [cache EXCEPT ![k] = e]
<1>1. /\ next \in Seq(CachedBlock) /\ Len(next) = Len(cache)
      /\ \A i \in 1 .. Len(cache) : next[i] = IF i = k THEN e ELSE cache[i]
  BY DEF OwnedIn
<1> HIDE DEF next
<1>2. \A i \in 1 .. Len(next) : next[i].first = cache[i].first /\ next[i].last = cache[i].last
  BY <1>1
<1>3. \A i, j \in 1 .. Len(next) :
        next[i].first = next[j].first /\ next[i].last = next[j].last => i = j
  BY <1>1, <1>2 DEF OwnedIn
<1>4. \A i \in 1 .. Len(cache) : cache[i].memory \in mem
  BY DEF OwnedIn
<1>5. \A i, j \in 1 .. Len(next) : next[i].memory = next[j].memory => i = j
  BY <1>1, <1>4 DEF OwnedIn
<1>6. (mem \ {cache[k].memory}) \cup {e.memory} = {next[i].memory : i \in 1 .. Len(next)}
  BY <1>1 DEF OwnedIn
<1>7. FreshIn(next, code, map)
  BY <1>1 DEF FreshIn
<1> QED BY <1>1, <1>3, <1>5, <1>6, <1>7 DEF OwnedIn, next

LEMMA InsertKeeps ==
  ASSUME DbtInv, NEW first \in Cells, NEW last \in Cells
  PROVE  LET after == Inserted(Entry(first, last))
         IN  OwnedIn(after.cache, after.mem) /\ FreshIn(after.cache, dbtCode, dbt.map)
<1> DEFINE e == Entry(first, last)
           same == Matching(first, last)
           after == Inserted(e)
<1>1. /\ e \in CachedBlock /\ e.first = first /\ e.last = last /\ e.memory \notin hostMem
      /\ e.code = CodeAt(dbtCode, dbt.map, e.first, e.last)
      /\ e.spans = PlaceOf(dbt.map, e.first, e.last)
  <2>1. /\ e \in CachedBlock /\ e.first = first /\ e.last = last /\ e.memory \notin hostMem
        /\ e.code = CodeAt(dbtCode, dbt.map, first, last)
        /\ e.spans = PlaceOf(dbt.map, first, last)
    BY PlannedBlock
  <2> HIDE DEF e
  <2> QED BY <2>1
<1>2. OwnedIn(dbtCache, hostMem) /\ FreshIn(dbtCache, dbtCode, dbt.map)
      /\ dbtCache \in Seq(CachedBlock) /\ DOMAIN dbtCache = 1 .. Len(dbtCache) /\ Len(dbtCache) \in Nat
  BY DEF DbtInv, OwnedIn
<1> HIDE DEF e
<1>3. same = {i \in 1 .. Len(dbtCache) : dbtCache[i].first = first /\ dbtCache[i].last = last}
  BY <1>2 DEF Matching
<1>4. CASE same # {}
  <2>1. PICK k \in same : TRUE
    BY <1>4
  <2>2. k \in 1 .. Len(dbtCache) /\ \A i \in same : i = k
    BY <1>2, <1>3, <2>1 DEF OwnedIn
  <2>3. Min(same) = k
    BY <1>3, <2>1, <2>2 DEF Min
  <2>4. after = [cache |-> [dbtCache EXCEPT ![k] = e],
                 mem |-> (hostMem \ {dbtCache[k].memory}) \cup {e.memory}]
    BY <1>1, <1>4, <2>3 DEF Inserted
  <2>5. dbtCache[k].first = e.first /\ dbtCache[k].last = e.last
    BY <1>1, <1>3, <2>1
  <2>6. /\ OwnedIn([dbtCache EXCEPT ![k] = e], (hostMem \ {dbtCache[k].memory}) \cup {e.memory})
        /\ FreshIn([dbtCache EXCEPT ![k] = e], dbtCode, dbt.map)
    BY <1>1, <1>2, <2>2, <2>5, Replaced
  <2> QED BY <2>4, <2>6 DEF e
<1>5. CASE same = {} /\ Len(dbtCache) >= DbtEntries
  <2> DEFINE rest == Tail(dbtCache)
             left == hostMem \ {Head(dbtCache).memory}
  <2>1. dbtCache # <<>> /\ Len(dbtCache) = DbtEntries
    BY <1>2, <1>5, CellsAre DEF OwnedIn
  <2>2. /\ OwnedIn(rest, left) /\ FreshIn(rest, dbtCode, dbt.map)
        /\ Len(rest) = Len(dbtCache) - 1
        /\ \A i \in 1 .. Len(dbtCache) - 1 : rest[i] = dbtCache[i + 1]
    BY <1>2, <2>1, OldestDropped
  <2>3. after = [cache |-> Append(rest, e), mem |-> left \cup {e.memory}]
    BY <1>1, <1>5 DEF Inserted
  <2>4. \A i \in 1 .. Len(rest) : ~(rest[i].first = e.first /\ rest[i].last = e.last)
    BY <1>1, <1>2, <1>3, <1>5, <2>2
  <2>5. Len(rest) < DbtEntries /\ e.memory \notin left
    BY <1>1, <2>1, <2>2, CellsAre
  <2> HIDE DEF rest, left
  <2>6. OwnedIn(Append(rest, e), left \cup {e.memory}) /\ FreshIn(Append(rest, e), dbtCode, dbt.map)
    BY <1>1, <2>2, <2>4, <2>5, Appended
  <2> QED BY <2>3, <2>6 DEF e
<1>6. CASE same = {} /\ ~(Len(dbtCache) >= DbtEntries)
  <2>1. after = [cache |-> Append(dbtCache, e), mem |-> hostMem \cup {e.memory}]
    BY <1>1, <1>6 DEF Inserted
  <2>2. \A i \in 1 .. Len(dbtCache) : ~(dbtCache[i].first = e.first /\ dbtCache[i].last = e.last)
    BY <1>1, <1>3, <1>6
  <2>3. Len(dbtCache) < DbtEntries
    BY <1>2, <1>6, CellsAre
  <2>4. /\ OwnedIn(Append(dbtCache, e), hostMem \cup {e.memory})
        /\ FreshIn(Append(dbtCache, e), dbtCode, dbt.map)
    BY <1>1, <1>2, <2>2, <2>3, Appended
  <2> QED BY <2>1, <2>4 DEF e
<1> QED BY <1>4, <1>5, <1>6 DEF e

-----------------------------------------------------------------------------
\* Some blocks leave, and those in which what changed shows are doubted from then on.
LEMMA KeptIsKept ==
  ASSUME NEW cache, NEW mem, NEW code, NEW map, OwnedIn(cache, mem), FreshIn(cache, code, map),
         NEW S \in SUBSET (1 .. Len(cache)),
         NEW gone, gone = {cache[i].memory : i \in (1 .. Len(cache)) \ S}
  PROVE  /\ OwnedIn(Selected(cache, S), mem \ gone)
         /\ FreshIn(Selected(cache, S), code, map)
         /\ \A n \in 1 .. Len(Selected(cache, S)) :
              \E i \in S : Selected(cache, S)[n] = cache[i]
<1> DEFINE next == Selected(cache, S)
           card == Cardinality(S)
           At(n) == Nth(S, n)
<1>0. cache \in Seq(CachedBlock)
  BY DEF OwnedIn
<1>1. /\ next \in Seq(CachedBlock) /\ Len(next) = card /\ card \in Nat /\ card <= Len(cache)
      /\ Len(cache) \in Nat
      /\ \A n \in 1 .. card : At(n) \in S /\ next[n] = cache[At(n)]
      /\ \A n, m \in 1 .. card : At(n) = At(m) => n = m
      /\ \A i \in S : \E n \in 1 .. card : At(n) = i
  BY <1>0, SelectedFacts
<1> HIDE DEF next, card, At
<1>2. \A n \in 1 .. Len(next) : At(n) \in 1 .. Len(cache)
  BY <1>1
<1>3. \A i, j \in 1 .. Len(next) :
        next[i].first = next[j].first /\ next[i].last = next[j].last => i = j
  BY <1>1, <1>2 DEF OwnedIn
<1>4. \A i, j \in 1 .. Len(next) : next[i].memory = next[j].memory => i = j
  <2> TAKE i, j \in 1 .. Len(next)
  <2>1. At(i) \in 1 .. Len(cache) /\ At(j) \in 1 .. Len(cache)
        /\ next[i] = cache[At(i)] /\ next[j] = cache[At(j)]
    BY <1>1, <1>2
  <2>2. cache[At(i)].memory = cache[At(j)].memory => At(i) = At(j)
    BY <2>1 DEF OwnedIn
  <2> QED BY <1>1, <2>1, <2>2
<1>5. mem \ gone = {next[i].memory : i \in 1 .. Len(next)}
  <2>1. ASSUME NEW x \in mem \ gone PROVE \E n \in 1 .. Len(next) : next[n].memory = x
    <3>1. PICK i \in 1 .. Len(cache) : cache[i].memory = x
      BY <2>1 DEF OwnedIn
    <3>2. i \in S
      BY <2>1, <3>1
    <3> QED BY <1>1, <3>1, <3>2
  <2>2. ASSUME NEW n \in 1 .. Len(next) PROVE next[n].memory \in mem \ gone
    <3>1. At(n) \in S /\ At(n) \in 1 .. Len(cache) /\ next[n] = cache[At(n)]
      BY <1>1, <1>2
    <3>2. cache[At(n)].memory \in mem
      BY <3>1 DEF OwnedIn
    <3>3. \A i \in (1 .. Len(cache)) \ S : cache[i].memory # cache[At(n)].memory
      BY <3>1 DEF OwnedIn
    <3> QED BY <3>1, <3>2, <3>3
  <2> QED BY <2>1, <2>2
<1>6. Len(next) <= DbtEntries
  BY <1>1, CellsAre DEF OwnedIn
<1>7. FreshIn(next, code, map)
  <2>1. \A n \in 1 .. Len(next) : \E i \in 1 .. Len(cache) : next[n] = cache[i]
    BY <1>1, <1>2
  <2> QED BY <2>1 DEF FreshIn
<1>8. \A n \in 1 .. Len(next) : \E i \in S : next[n] = cache[i]
  BY <1>1
<1> QED BY <1>1, <1>3, <1>4, <1>5, <1>6, <1>7, <1>8 DEF OwnedIn, next

Marked(cache, unseen) ==
  [i \in DOMAIN cache |->
     [cache[i] EXCEPT !.doubted = @ \/ (cache[i].first .. cache[i].last) \cap unseen # {}]]

LEMMA MarkedKeeps ==
  ASSUME NEW cache, NEW mem, NEW code, NEW map, NEW code2, NEW map2, NEW unseen,
         OwnedIn(cache, mem), FreshIn(cache, code, map),
         \A i \in 1 .. Len(cache) :
           (cache[i].first .. cache[i].last) \cap unseen = {}
             /\ cache[i].spans = PlaceOf(map, cache[i].first, cache[i].last)
           => \A v \in cache[i].first .. cache[i].last :
                map2[v] = map[v] /\ code2[map[v]] = code[map[v]]
  PROVE  OwnedIn(Marked(cache, unseen), mem) /\ FreshIn(Marked(cache, unseen), code2, map2)
<1> DEFINE next == Marked(cache, unseen)
           Hit(i) == (cache[i].first .. cache[i].last) \cap unseen # {}
<1>0. cache \in Seq(CachedBlock) /\ DOMAIN cache = 1 .. Len(cache) /\ Len(cache) \in Nat
  BY DEF OwnedIn
<1>1. \A i \in 1 .. Len(cache) : cache[i] \in CachedBlock
  BY <1>0
<1>2. ASSUME NEW e \in CachedBlock, NEW hit \in BOOLEAN
      PROVE  /\ [e EXCEPT !.doubted = @ \/ hit] \in CachedBlock
             /\ [e EXCEPT !.doubted = @ \/ hit].first = e.first
             /\ [e EXCEPT !.doubted = @ \/ hit].last = e.last
             /\ [e EXCEPT !.doubted = @ \/ hit].memory = e.memory
             /\ [e EXCEPT !.doubted = @ \/ hit].code = e.code
             /\ [e EXCEPT !.doubted = @ \/ hit].spans = e.spans
             /\ ~[e EXCEPT !.doubted = @ \/ hit].doubted => ~e.doubted /\ ~hit
  BY DEF CachedBlock
<1>3. \A i \in 1 .. Len(cache) : next[i] = [cache[i] EXCEPT !.doubted = @ \/ Hit(i)]
  BY <1>0 DEF Marked
<1>4. \A i : Hit(i) \in BOOLEAN
  OBVIOUS
<1> HIDE DEF Hit
<1>5. \A i \in 1 .. Len(cache) :
        /\ next[i] \in CachedBlock /\ next[i].first = cache[i].first
        /\ next[i].last = cache[i].last /\ next[i].memory = cache[i].memory
        /\ next[i].code = cache[i].code /\ next[i].spans = cache[i].spans
        /\ ~next[i].doubted => ~cache[i].doubted /\ ~Hit(i)
  <2> TAKE i \in 1 .. Len(cache)
  <2> DEFINE e == cache[i]
             hit == Hit(i)
  <2>1. e \in CachedBlock /\ hit \in BOOLEAN /\ next[i] = [e EXCEPT !.doubted = @ \/ hit]
    BY <1>1, <1>3, <1>4
  <2> HIDE DEF e, hit, next
  <2> DEFINE d == [e EXCEPT !.doubted = @ \/ hit]
  <2>2. /\ d \in CachedBlock /\ d.first = e.first /\ d.last = e.last /\ d.memory = e.memory
        /\ d.code = e.code /\ d.spans = e.spans /\ (~d.doubted => ~e.doubted /\ ~hit)
    BY <1>2, <2>1
  <2>3. next[i] = d
    BY <2>1
  <2> HIDE DEF d
  <2> QED BY <2>2, <2>3 DEF e, hit
<1>6. next \in Seq(CachedBlock) /\ Len(next) = Len(cache)
  <2>1. DOMAIN next = 1 .. Len(cache) /\ next = [i \in 1 .. Len(cache) |-> next[i]]
    BY <1>0 DEF Marked
  <2> HIDE DEF next
  <2>2. [i \in 1 .. Len(cache) |-> next[i]] \in Seq(CachedBlock)
        /\ Len([i \in 1 .. Len(cache) |-> next[i]]) = Len(cache)
    BY <1>0, <1>5
  <2> QED BY <2>1, <2>2
<1> HIDE DEF next
<1>7. OwnedIn(next, mem)
  BY <1>5, <1>6 DEF OwnedIn
<1>8. FreshIn(next, code2, map2)
  <2> SUFFICES ASSUME NEW i \in 1 .. Len(cache), ~next[i].doubted
               PROVE  /\ next[i].code = CodeAt(code2, map2, next[i].first, next[i].last)
                      /\ next[i].spans = PlaceOf(map2, next[i].first, next[i].last)
    BY <1>6 DEF FreshIn
  <2>1. ~cache[i].doubted /\ ~Hit(i) /\ cache[i].first \in Cells /\ cache[i].last \in Cells
    BY <1>1, <1>5, BlockFields
  <2>2. /\ cache[i].code = CodeAt(code, map, cache[i].first, cache[i].last)
        /\ cache[i].spans = PlaceOf(map, cache[i].first, cache[i].last)
    BY <2>1 DEF FreshIn
  <2>3. \A v \in cache[i].first .. cache[i].last :
          map2[v] = map[v] /\ code2[map[v]] = code[map[v]]
    BY <2>1, <2>2 DEF Hit
  <2> DEFINE first == cache[i].first
             last == cache[i].last
  <2>4. /\ CodeAt(code2, map2, first, last) = CodeAt(code, map, first, last)
        /\ PlaceOf(map2, first, last) = PlaceOf(map, first, last)
    <3>1. first \in Cells /\ last \in Cells
          /\ \A v \in first .. last : map2[v] = map[v] /\ code2[map[v]] = code[map[v]]
      BY <2>1, <2>3
    <3> HIDE DEF first, last
    <3>2. \A n \in 1 .. (last - first + 1) : first + n - 1 \in first .. last
      BY <3>1, RangeCells
    <3> QED BY <3>1, <3>2 DEF CodeAt, PlaceOf
  <2> QED BY <1>5, <2>2, <2>4
<1> QED BY <1>7, <1>8 DEF next

\* enforce_invalidation: `code2' and `map2' are what the event left.
LEMMA InvalidatedKeeps ==
  ASSUME DbtInv, NEW cell, NEW unseen, NEW code2, NEW map2,
         \A i \in 1 .. Len(dbtCache) :
           ~Overlaps(dbtCache[i], cell)
             /\ (dbtCache[i].first .. dbtCache[i].last) \cap unseen = {}
             /\ dbtCache[i].spans = PlaceOf(dbt.map, dbtCache[i].first, dbtCache[i].last)
           => \A v \in dbtCache[i].first .. dbtCache[i].last :
                map2[v] = dbt.map[v] /\ code2[dbt.map[v]] = dbtCode[dbt.map[v]],
         Invalidated(cell, unseen)
  PROVE  OwnedIn(dbtCache', hostMem') /\ FreshIn(dbtCache', code2, map2)
<1> DEFINE S == {i \in DOMAIN dbtCache : ~Overlaps(dbtCache[i], cell)}
           kept == Selected(dbtCache, S)
           gone == {dbtCache[i].memory : i \in (1 .. Len(dbtCache)) \ S}
<1>1. /\ OwnedIn(dbtCache, hostMem) /\ FreshIn(dbtCache, dbtCode, dbt.map)
      /\ DOMAIN dbtCache = 1 .. Len(dbtCache) /\ dbtCache \in Seq(CachedBlock)
  BY DEF DbtInv, OwnedIn
<1>2. dbtCache' = Marked(kept, unseen)
  BY DEF Invalidated, Marked
<1>3. hostMem' = hostMem \ gone
  <2>1. ToSet(dbtCache) = {dbtCache[i] : i \in 1 .. Len(dbtCache)}
    BY <1>1, QueueSet
  <2>2. {e.memory : e \in {f \in ToSet(dbtCache) : Overlaps(f, cell)}} = gone
    BY <1>1, <2>1
  <2> QED BY <2>2 DEF Invalidated
<1>4. S \in SUBSET (1 .. Len(dbtCache)) /\ \A i \in S : ~Overlaps(dbtCache[i], cell)
  BY <1>1
<1> HIDE DEF S
<1>45. gone = {dbtCache[i].memory : i \in (1 .. Len(dbtCache)) \ S}
  OBVIOUS
<1> HIDE DEF gone
<1>5. /\ OwnedIn(kept, hostMem \ gone) /\ FreshIn(kept, dbtCode, dbt.map)
      /\ \A n \in 1 .. Len(kept) : \E i \in S : kept[n] = dbtCache[i]
  <2>1. /\ OwnedIn(dbtCache, hostMem) /\ FreshIn(dbtCache, dbtCode, dbt.map)
        /\ S \in SUBSET (1 .. Len(dbtCache))
    BY <1>1, <1>4
  <2> QED BY ONLY <2>1, <1>45, KeptIsKept, Zenon
<1> HIDE DEF kept
<1>6. \A n \in 1 .. Len(kept) :
        (kept[n].first .. kept[n].last) \cap unseen = {}
          /\ kept[n].spans = PlaceOf(dbt.map, kept[n].first, kept[n].last)
        => \A v \in kept[n].first .. kept[n].last :
             map2[v] = dbt.map[v] /\ code2[dbt.map[v]] = dbtCode[dbt.map[v]]
  <2> TAKE n \in 1 .. Len(kept)
  <2>1. PICK i \in S : kept[n] = dbtCache[i]
    BY <1>5
  <2>2. i \in 1 .. Len(dbtCache) /\ ~Overlaps(dbtCache[i], cell)
    BY <1>4
  <2> QED BY <2>1, <2>2
<1>7. OwnedIn(Marked(kept, unseen), hostMem \ gone) /\ FreshIn(Marked(kept, unseen), code2, map2)
  BY <1>5, <1>6, MarkedKeeps
<1> QED BY <1>2, <1>3, <1>7

LEMMA UnannouncedKeeps ==
  ASSUME DbtInv, NEW unseen, NEW code2, NEW map2,
         \A v \in Cells : v \notin unseen =>
            map2[v] = dbt.map[v] /\ code2[dbt.map[v]] = dbtCode[dbt.map[v]],
         Unannounced(unseen)
  PROVE  OwnedIn(dbtCache', hostMem') /\ FreshIn(dbtCache', code2, map2)
<1>1. OwnedIn(dbtCache, hostMem) /\ FreshIn(dbtCache, dbtCode, dbt.map)
      /\ \A i \in 1 .. Len(dbtCache) : dbtCache[i] \in CachedBlock
  BY DEF DbtInv, OwnedIn
<1>2. dbtCache' = Marked(dbtCache, unseen) /\ hostMem' = hostMem
  BY DEF Unannounced, Marked
<1>3. ASSUME NEW i \in 1 .. Len(dbtCache),
             (dbtCache[i].first .. dbtCache[i].last) \cap unseen = {},
             NEW v \in dbtCache[i].first .. dbtCache[i].last
      PROVE  map2[v] = dbt.map[v] /\ code2[dbt.map[v]] = dbtCode[dbt.map[v]]
  <2>1. v \in Cells
    BY <1>1, BlockFields, RangeCells
  <2> QED BY <1>3, <2>1
<1>4. /\ OwnedIn(Marked(dbtCache, unseen), hostMem)
      /\ FreshIn(Marked(dbtCache, unseen), code2, map2)
  BY <1>1, <1>3, MarkedKeeps
<1> QED BY <1>2, <1>4

LEMMA NothingCached ==
  ASSUME NEW code, NEW map
  PROVE  OwnedIn(<<>>, {}) /\ FreshIn(<<>>, code, map)
<1>1. <<>> \in Seq(CachedBlock) /\ Len(<<>>) = 0 /\ 1 .. 0 = {}
  OBVIOUS
<1> QED BY <1>1, CellsAre DEF OwnedIn, FreshIn

-----------------------------------------------------------------------------
LEMMA DbtBegins == DbtInit => DbtInv
<1> SUFFICES ASSUME DbtInit PROVE DbtInv
  OBVIOUS
<1>1. dbt = [pc |-> 1, reg |-> 0, map |-> Identity, wrong |-> FALSE]
      /\ dbtCache = <<>> /\ hostMem = {} /\ dbtCode \in [Cells -> Insns]
  BY DEF DbtInit, Insns, Inlineable
<1>2. dbt.map \in [Cells -> Cells] /\ ~dbt.wrong /\ DOMAIN dbt = {"pc", "reg", "map", "wrong"}
  BY <1>1 DEF Identity
<1> QED BY <1>1, <1>2, NothingCached DEF DbtInv

\* What is committed is what the functional backend would do.
LEMMA CommitKeeps ==
  ASSUME DbtInv, NEW code, NEW first, NEW last, Agrees(code, first, last),
         CommitGprs(code, first, last)
  PROVE  DOMAIN dbt' = {"pc", "reg", "map", "wrong"} /\ dbt'.map = dbt.map /\ ~dbt'.wrong
<1> DEFINE reg == Effect(code, dbt.reg)
           differs == Effect(code, dbt.reg) # Effect(Planned(first, last), dbt.reg)
           pc == After(last)
<1>1. dbt' = [dbt EXCEPT !.reg = reg, !.pc = pc, !.wrong = @ \/ differs]
  BY DEF CommitGprs
<1>2. ~differs
  BY DEF Agrees
<1>3. DOMAIN dbt = {"pc", "reg", "map", "wrong"} /\ ~dbt.wrong
  BY DEF DbtInv
<1> HIDE DEF reg, differs, pc
<1>4. DOMAIN dbt' = {"pc", "reg", "map", "wrong"} /\ dbt'.map = dbt.map
      /\ dbt'.wrong = (dbt.wrong \/ differs)
  BY ONLY <1>1, <1>3
<1>5. ~dbt'.wrong
  BY ONLY <1>2, <1>3, <1>4, Zenon
<1> QED BY <1>4, <1>5

LEMMA DispatchKeeps ==
  ASSUME DbtInv, NEW first \in Cells, NEW last \in Cells, DispatchBlock(first, last)
  PROVE  DbtInv'
<1> DEFINE hits == Matching(first, last)
           after == Inserted(Entry(first, last))
<1>1. dbtCode' = dbtCode
  BY DEF DispatchBlock
<1>2. CASE hits # {}
  <2> DEFINE code == dbtCache[Min(hits)].code
  <2>1. Agrees(code, first, last) /\ CommitGprs(code, first, last)
        /\ dbtCache' = dbtCache /\ hostMem' = hostMem
    BY <1>2 DEF DispatchBlock
  <2>2. DOMAIN dbt' = {"pc", "reg", "map", "wrong"} /\ dbt'.map = dbt.map /\ ~dbt'.wrong
    BY <2>1, CommitKeeps
  <2> QED BY <1>1, <2>1, <2>2 DEF DbtInv
<1>3. CASE hits = {}
  <2>1. CommitGprs(Planned(first, last), first, last)
        /\ dbtCache' = after.cache /\ hostMem' = after.mem
    BY <1>3 DEF DispatchBlock
  <2>2. Agrees(Planned(first, last), first, last)
    BY DEF Agrees
  <2>3. DOMAIN dbt' = {"pc", "reg", "map", "wrong"} /\ dbt'.map = dbt.map /\ ~dbt'.wrong
    BY <2>1, <2>2, CommitKeeps
  <2>4. OwnedIn(after.cache, after.mem) /\ FreshIn(after.cache, dbtCode, dbt.map)
    BY InsertKeeps
  <2> HIDE DEF after
  <2> QED BY <1>1, <2>1, <2>3, <2>4 DEF DbtInv
<1> QED BY <1>2, <1>3

LEMMA InsertBlockKeeps ==
  ASSUME DbtInv, NEW first \in Cells, NEW last \in Cells, InsertBlock(first, last)
  PROVE  DbtInv'
<1> DEFINE after == Inserted(Entry(first, last))
<1>1. dbtCache' = after.cache /\ hostMem' = after.mem /\ dbt' = dbt /\ dbtCode' = dbtCode
  BY DEF InsertBlock
<1>2. OwnedIn(after.cache, after.mem) /\ FreshIn(after.cache, dbtCode, dbt.map)
  BY InsertKeeps
<1> HIDE DEF after
<1> QED BY <1>1, <1>2 DEF DbtInv

\* A cell changed that an event of the same number names: what stays did not come from it.
LEMMA NamedKeeps ==
  ASSUME DbtInv, NEW cell \in Cells, NEW insn \in Insns, Invalidated(cell, {})
  PROVE  OwnedIn(dbtCache', hostMem')
         /\ FreshIn(dbtCache', [dbtCode EXCEPT ![cell] = insn], dbt.map)
<1> DEFINE code2 == [dbtCode EXCEPT ![cell] = insn]
<1>1. \A p : p # cell => code2[p] = dbtCode[p]
  BY DEF DbtInv
<1> HIDE DEF code2
<1>2. ASSUME NEW i \in 1 .. Len(dbtCache), ~Overlaps(dbtCache[i], cell),
             dbtCache[i].spans = PlaceOf(dbt.map, dbtCache[i].first, dbtCache[i].last),
             NEW v \in dbtCache[i].first .. dbtCache[i].last
      PROVE  code2[dbt.map[v]] = dbtCode[dbt.map[v]]
  <2>1. dbt.map[v] \in dbtCache[i].spans
    BY <1>2 DEF PlaceOf
  <2> QED BY <1>1, <1>2, <2>1 DEF Overlaps
<1>3. OwnedIn(dbtCache', hostMem') /\ FreshIn(dbtCache', code2, dbt.map)
  BY <1>2, InvalidatedKeeps
<1> QED BY <1>3 DEF code2

LEMMA PayloadKeeps ==
  ASSUME DbtInv, NEW cell \in Cells, NEW insn \in Insns, LoadPayload(cell, insn)
  PROVE  DbtInv'
<1>1. dbtCode' = [dbtCode EXCEPT ![cell] = insn] /\ dbt' = dbt /\ Invalidated(cell, {})
  BY DEF LoadPayload
<1>2. OwnedIn(dbtCache', hostMem') /\ FreshIn(dbtCache', dbtCode', dbt.map)
  BY <1>1, NamedKeeps
<1>3. dbtCode' \in [Cells -> Insns]
  BY <1>1 DEF DbtInv
<1> QED BY <1>1, <1>2, <1>3 DEF DbtInv

LEMMA AliasesShow ==
  ASSUME DbtInv, NEW cell \in Cells, NEW insn \in Insns, NEW v \in Cells,
         v \notin Aliases(cell)
  PROVE  [dbtCode EXCEPT ![cell] = insn][dbt.map[v]] = dbtCode[dbt.map[v]]
BY DEF Aliases, DbtInv

LEMMA HelperStoreKeeps ==
  ASSUME DbtInv, NEW va \in Cells, NEW insn \in Insns, NEW announced \in BOOLEAN,
         HelperStore(va, insn, announced)
  PROVE  DbtInv'
<1> DEFINE pa == dbt.map[va]
           code2 == [dbtCode EXCEPT ![pa] = insn]
<1>1. pa \in Cells /\ dbtCode' = code2 /\ code2 \in [Cells -> Insns]
  BY DEF HelperStore, DbtInv
<1>2. DOMAIN dbt' = {"pc", "reg", "map", "wrong"} /\ dbt'.map = dbt.map /\ ~dbt'.wrong
  BY DEF HelperStore, DbtInv
<1>3. \A v \in Cells : v \notin Aliases(pa) => code2[dbt.map[v]] = dbtCode[dbt.map[v]]
  BY <1>1, AliasesShow
<1>4. OwnedIn(dbtCache', hostMem') /\ FreshIn(dbtCache', code2, dbt.map)
  <2>1. CASE announced /\ pa = va
    <3>1. Invalidated(va, {})
      BY <2>1 DEF HelperStore
    <3> QED BY <2>1, <3>1, NamedKeeps
  <2>2. CASE announced /\ pa # va
    <3>1. Invalidated(va, Aliases(pa))
      BY <2>2 DEF HelperStore
    <3> HIDE DEF code2, pa
    <3>2. ASSUME NEW i \in 1 .. Len(dbtCache),
                 (dbtCache[i].first .. dbtCache[i].last) \cap Aliases(pa) = {},
                 NEW v \in dbtCache[i].first .. dbtCache[i].last
          PROVE  code2[dbt.map[v]] = dbtCode[dbt.map[v]]
      <4>1. dbtCache[i] \in CachedBlock
        BY DEF DbtInv, OwnedIn
      <4>2. v \in Cells /\ v \notin Aliases(pa)
        BY <3>2, <4>1, BlockFields, RangeCells
      <4> QED BY <1>3, <4>2
    <3> QED BY <3>1, <3>2, InvalidatedKeeps
  <2>3. CASE ~announced
    <3>1. Unannounced(Aliases(pa))
      BY <2>3 DEF HelperStore
    <3> HIDE DEF code2, pa
    <3> QED BY <1>3, <3>1, UnannouncedKeeps
  <2> QED BY <2>1, <2>2, <2>3
<1> QED BY <1>1, <1>2, <1>4 DEF DbtInv

LEMMA ReferenceKeeps == DbtInv /\ ReferenceStep => DbtInv'
<1> SUFFICES ASSUME DbtInv, ReferenceStep PROVE DbtInv'
  OBVIOUS
<1>1. ASSUME NEW pc \in Cells, dbt' = [dbt EXCEPT !.pc = pc],
             UNCHANGED <<dbtCode, dbtCache, hostMem>>
      PROVE  DbtInv'
  <2>1. DOMAIN dbt' = {"pc", "reg", "map", "wrong"} /\ dbt'.map = dbt.map /\ ~dbt'.wrong
    BY <1>1 DEF DbtInv
  <2> QED BY <1>1, <2>1 DEF DbtInv
<1>2. ASSUME NEW cell \in Cells, NEW insn \in Insns,
             dbtCode' = [dbtCode EXCEPT ![cell] = insn],
             dbt' = [dbt EXCEPT !.pc = After(@)], Unannounced(Aliases(cell))
      PROVE  DbtInv'
  <2>1. DOMAIN dbt' = {"pc", "reg", "map", "wrong"} /\ dbt'.map = dbt.map /\ ~dbt'.wrong
    BY <1>2 DEF DbtInv
  <2>2. \A v \in Cells : v \notin Aliases(cell) => dbtCode'[dbt.map[v]] = dbtCode[dbt.map[v]]
    BY <1>2, AliasesShow
  <2>3. OwnedIn(dbtCache', hostMem') /\ FreshIn(dbtCache', dbtCode', dbt.map)
    BY <1>2, <2>2, UnannouncedKeeps
  <2>4. dbtCode' \in [Cells -> Insns]
    BY <1>2 DEF DbtInv
  <2> QED BY <2>1, <2>3, <2>4 DEF DbtInv
<1>3. ASSUME NEW map \in PageMaps, dbt' = [dbt EXCEPT !.map = map, !.pc = After(@)],
             Unannounced({v \in Cells : map[v] # dbt.map[v]}), dbtCode' = dbtCode
      PROVE  DbtInv'
  <2>1. DOMAIN dbt' = {"pc", "reg", "map", "wrong"} /\ dbt'.map = map /\ ~dbt'.wrong
    BY <1>3 DEF DbtInv
  <2>2. map \in [Cells -> Cells]
    BY DbtAssumption
  <2>3. OwnedIn(dbtCache', hostMem') /\ FreshIn(dbtCache', dbtCode, map)
    <3>1. \A v \in Cells : v \notin {u \in Cells : map[u] # dbt.map[u]} =>
            map[v] = dbt.map[v] /\ dbtCode[dbt.map[v]] = dbtCode[dbt.map[v]]
      OBVIOUS
    <3> QED BY <1>3, <3>1, UnannouncedKeeps
  <2> QED BY <1>3, <2>1, <2>2, <2>3 DEF DbtInv
<1> QED BY <1>1, <1>2, <1>3 DEF ReferenceStep

LEMMA DbtStep == DbtInv /\ [DbtNext]_dbtVars => DbtInv'
<1> SUFFICES ASSUME DbtInv, [DbtNext]_dbtVars PROVE DbtInv'
  OBVIOUS
<1>1. ASSUME NEW first \in Cells, NEW last \in first .. NumCells,
             DispatchBlock(first, last) \/ InsertBlock(first, last)
      PROVE  DbtInv'
  <2>1. last \in Cells
    BY CellsAre
  <2> QED BY <1>1, <2>1, DispatchKeeps, InsertBlockKeeps
<1>2. CASE FlushCache
  BY <1>2, NothingCached DEF FlushCache, DbtInv
<1>3. ASSUME NEW cell \in Cells, NEW insn \in Insns, LoadPayload(cell, insn)
      PROVE  DbtInv'
  BY <1>3, PayloadKeeps
<1>4. ASSUME NEW value \in 0 .. 1, HelperLoad(value)
      PROVE  DbtInv'
  <2>1. DOMAIN dbt' = {"pc", "reg", "map", "wrong"} /\ dbt'.map = dbt.map /\ ~dbt'.wrong
        /\ dbtCode' = dbtCode /\ dbtCache' = dbtCache /\ hostMem' = hostMem
    BY <1>4 DEF HelperLoad, DbtInv
  <2> QED BY <2>1 DEF DbtInv
<1>5. ASSUME NEW va \in Cells, NEW insn \in Insns, NEW announced \in BOOLEAN,
             HelperStore(va, insn, announced)
      PROVE  DbtInv'
  BY <1>5, HelperStoreKeeps
<1>6. CASE ReferenceStep
  BY <1>6, ReferenceKeeps
<1>7. CASE UNCHANGED dbtVars
  BY <1>7 DEF dbtVars, DbtInv
<1> QED BY <1>1, <1>2, <1>3, <1>4, <1>5, <1>6, <1>7 DEF DbtNext

\* The translator never commits what the functional backend would not do: a cached block is
\* what its addresses hold unless code or mapping changed without an event, one that is
\* outdated is not committed, and the executable memory is that of the cached blocks, each
\* with its own, whatever software stores, loads and maps.
THEOREM TranslatorIsSound == DbtSpec => []TranslatorSound
<1>1. DbtInv => TranslatorSound
  <2> SUFFICES ASSUME DbtInv PROVE TranslatorSound
    OBVIOUS
  <2> DEFINE mems == [i \in 1 .. Len(dbtCache) |-> dbtCache[i].memory]
  <2>1. /\ dbtCache \in Seq(CachedBlock) /\ DOMAIN dbtCache = 1 .. Len(dbtCache)
        /\ Len(dbtCache) \in Nat /\ Len(dbtCache) <= DbtEntries
        /\ \A i \in 1 .. Len(dbtCache) : dbtCache[i].memory \in 1 .. DbtEntries + 1
    BY BlockFields DEF DbtInv, OwnedIn
  <2>2. CacheFresh
    BY <2>1 DEF CacheFresh, DbtInv, FreshIn, CodeAt, Planned
  <2>3. hostMem = {e.memory : e \in ToSet(dbtCache)}
    <3>1. ToSet(dbtCache) = {dbtCache[i] : i \in 1 .. Len(dbtCache)}
      BY <2>1, QueueSet
    <3> QED BY <3>1 DEF DbtInv, OwnedIn
  <2>4. mems \in Seq(1 .. DbtEntries + 1) /\ Len(mems) = Len(dbtCache) /\ Distinct(mems)
    <3>1. mems \in Seq(1 .. DbtEntries + 1) /\ Len(mems) = Len(dbtCache)
      BY <2>1
    <3> QED BY <3>1 DEF Distinct, DbtInv, OwnedIn
  <2>5. ToSet(mems) = hostMem
    <3>1. ToSet(mems) = {mems[i] : i \in 1 .. Len(mems)}
      <4> HIDE DEF mems
      <4> QED BY <2>4, QueueSet
    <3> QED BY <2>4, <3>1 DEF DbtInv, OwnedIn
  <2> HIDE DEF mems
  <2>6. Cardinality(hostMem) = Len(dbtCache)
    BY <2>4, <2>5, DistinctCardinality
  <2>7. HostMemoryOwned
    BY <2>1, <2>3, <2>6 DEF HostMemoryOwned, DbtInv, OwnedIn
  <2> QED BY <2>2, <2>7 DEF TranslatorSound, DbtInv
<1> QED BY <1>1, DbtBegins, DbtStep, PTL DEF DbtSpec

-----------------------------------------------------------------------------
(* The rename map *)

USE NumArchAssumption, MaxInFlightAssumption

\* The high-water mark that rollback computes is the number of registers the
\* committed state owns.
LEMMA CommittedNextOfPartition ==
  ASSUME NEW map \in [Arch -> Nat], NEW free \in SUBSET Nat,
         NEW n \in Nat, NumArch <= n,
         Mapped(map) \cup free = 0 .. n - 1
  PROVE  CommittedNext(map, free) = n
<1> DEFINE named == {NumArch - 1} \cup Mapped(map) \cup free
<1>1. named = 0 .. n - 1
  OBVIOUS
<1>2. n - 1 \in named /\ \A q \in named : q <= n - 1
  BY <1>1
<1>3. \A p \in named : (\A q \in named : q <= p) => p = n - 1
  BY <1>1, <1>2
<1>4. (CHOOSE p \in named : \A q \in named : q <= p) = n - 1
  <2>1. \E p \in named : \A q \in named : q <= p
    BY <1>2
  <2> QED BY <2>1, <1>3
<1> QED BY <1>4 DEF CommittedNext

\* Renaming: what the next rob and specMap look like, element by element.
LEMMA AllocateFacts ==
  ASSUME TypeOK, NEW arch \in Renamed, NEW phys \in Nat, Allocate(arch, phys)
  PROVE  /\ Len(rob') = Len(rob) + 1 /\ rob' \in Seq(RobDest)
         /\ DOMAIN rob' = 1 .. Len(rob) + 1 /\ DOMAIN rob = 1 .. Len(rob)
         /\ \A i \in 1 .. Len(rob) : rob'[i] = rob[i]
         /\ rob'[Len(rob) + 1] = [arch |-> arch, phys |-> phys, prev |-> specMap[arch]]
         /\ specMap' \in [Arch -> Nat] /\ specMap'[arch] = phys
         /\ \A a \in Arch \ {arch} : specMap'[a] = specMap[a]
         /\ InFlight' = InFlight \cup {phys}
         /\ archMap' = archMap /\ commFree' = commFree
<1> DEFINE dest == [arch |-> arch, phys |-> phys, prev |-> specMap[arch]]
<1>1. dest \in RobDest
  BY DEF TypeOK, RobDest, Renamed, Arch
<1>2. /\ Len(rob') = Len(rob) + 1 /\ rob' \in Seq(RobDest)
      /\ DOMAIN rob' = 1 .. Len(rob) + 1 /\ DOMAIN rob = 1 .. Len(rob)
      /\ \A i \in 1 .. Len(rob) : rob'[i] = rob[i]
      /\ rob'[Len(rob) + 1] = dest
  BY <1>1 DEF TypeOK, Allocate
<1>3. InFlight' = InFlight \cup {phys}
  <2>1. ASSUME NEW p PROVE p \in InFlight' => p \in InFlight \cup {phys}
    BY <1>2 DEF InFlight
  <2>2. ASSUME NEW p PROVE p \in InFlight => p \in InFlight'
    BY <1>2 DEF InFlight
  <2>3. phys \in InFlight'
    <3>1. Len(rob) + 1 \in DOMAIN rob' /\ rob'[Len(rob) + 1].phys = phys
      BY <1>2 DEF TypeOK
    <3> QED BY <3>1 DEF InFlight
  <2> QED BY <2>1, <2>2, <2>3
<1> QED BY <1>2, <1>3 DEF TypeOK, Allocate, Renamed

\* Renaming keeps the invariant, whichever of the two sources gave the register:
\* all that matters is that nobody owned it.
LEMMA AllocatePreserves ==
  ASSUME IInv, NEW arch \in Renamed, NEW phys \in Nat, Allocate(arch, phys),
         phys \notin Mapped(archMap) \cup InFlight,
         \/ /\ phys \in specFree /\ specFree' = specFree \ {phys}
            /\ nextPhys' = nextPhys
         \/ /\ phys = nextPhys /\ specFree = {} /\ specFree' = {}
            /\ nextPhys' = nextPhys + 1
  PROVE  IInv'
<1> USE DEF IInv
<1> DEFINE len == Len(rob)
           n == CommittedNext(archMap, commFree)
<1>f. /\ Len(rob') = len + 1 /\ rob' \in Seq(RobDest)
      /\ DOMAIN rob' = 1 .. len + 1 /\ DOMAIN rob = 1 .. len
      /\ \A i \in 1 .. len : rob'[i] = rob[i]
      /\ rob'[len + 1].arch = arch /\ rob'[len + 1].phys = phys
      /\ rob'[len + 1].prev = specMap[arch]
      /\ specMap' \in [Arch -> Nat] /\ specMap'[arch] = phys
      /\ \A a \in Arch \ {arch} : specMap'[a] = specMap[a]
      /\ InFlight' = InFlight \cup {phys}
      /\ archMap' = archMap /\ commFree' = commFree
  <2>1. TypeOK
    OBVIOUS
  <2>2. rob'[Len(rob) + 1] = [arch |-> arch, phys |-> phys, prev |-> specMap[arch]]
    BY <2>1, AllocateFacts
  <2> QED BY <2>1, <2>2, AllocateFacts
<1>0. len \in Nat /\ n \in Nat /\ NumArch <= n
  BY DEF TypeOK, FreshInOrder
<1>n. Mapped(archMap)' = Mapped(archMap) /\ n' = n
  <2>1. Mapped(archMap)' = Mapped(archMap)
    BY <1>f DEF Mapped
  <2>2. CommittedNext(archMap, commFree)' = CommittedNext(archMap, commFree)
    BY <1>f, <2>1 DEF CommittedNext
  <2> QED BY <2>1, <2>2
<1>t. \A i \in 1 .. len : rob[i].arch \in Renamed /\ rob[i].phys \in Nat
  <2>1. \A i \in 1 .. len : rob[i] \in RobDest
    BY <1>f DEF TypeOK
  <2> QED BY <2>1 DEF RobDest, Renamed, Arch
<1>1. TypeOK'
  <2>1. arch # 0 /\ 0 \in Arch
    BY DEF Renamed, Arch
  <2>2. specFree' \in SUBSET Nat /\ nextPhys' \in Nat
    <3>1. specFree \in SUBSET Nat /\ nextPhys \in Nat
      BY DEF TypeOK
    <3>2. specFree' \subseteq specFree /\ nextPhys' \in {nextPhys, nextPhys + 1}
      OBVIOUS
    <3> HIDE DEF IInv
    <3> QED BY <3>1, <3>2
  <2>3. specMap'[0] = 0 /\ archMap'[0] = 0
    <3>1. specMap[0] = 0 /\ archMap[0] = 0
      BY DEF TypeOK
    <3> QED BY <1>f, <2>1, <3>1
  <2>4. archMap' \in [Arch -> Nat] /\ commFree' \in SUBSET Nat
    BY <1>f DEF TypeOK
  <2> QED BY <1>f, <2>2, <2>3, <2>4 DEF TypeOK
<1>2. CommittedPartition'
  BY <1>f, <1>n DEF CommittedPartition
<1>3. SpeculativePartition'
  <2>1. \A i \in 1 .. len : rob[i].phys # phys
    BY <1>f DEF InFlight
  <2>2. \A i, j \in 1 .. len + 1 : rob'[i].phys = rob'[j].phys => i = j
    <3>0. \A i, j \in 1 .. len : rob[i].phys = rob[j].phys => i = j
      BY <1>f DEF SpeculativePartition
    <3>1. \A i \in 1 .. len : rob'[i].phys = rob[i].phys /\ rob'[i].phys # phys
      BY <1>f, <2>1
    <3>2. \A i \in 1 .. len + 1 : i \in 1 .. len \/ i = len + 1
      BY <1>0
    <3>3. rob'[len + 1].phys = phys
      BY <1>f
    <3> HIDE DEF IInv, len
    <3> QED BY <3>0, <3>1, <3>2, <3>3
  <2>3. Mapped(archMap)' = Mapped(archMap)
    BY <1>f DEF Mapped
  <2>4. Mapped(archMap) \cup InFlight' \cup specFree' = 0 .. nextPhys' - 1
    BY <1>f DEF SpeculativePartition, TypeOK
  <2> QED BY <1>f, <2>2, <2>3, <2>4 DEF SpeculativePartition
<1>4. SourceIsYoungestProducer'
  <2> SUFFICES ASSUME NEW a \in Arch
      PROVE LET writers == {i \in DOMAIN rob' : rob'[i].arch = a}
            IN  \/ writers = {} /\ specMap'[a] = archMap'[a]
                \/ \E i \in writers : (\A j \in writers : j <= i)
                                      /\ specMap'[a] = rob'[i].phys
    BY DEF SourceIsYoungestProducer
  <2> DEFINE writers == {i \in 1 .. len : rob[i].arch = a}
             writers2 == {i \in 1 .. len + 1 : rob'[i].arch = a}
  <2>1. \/ writers = {} /\ specMap[a] = archMap[a]
        \/ \E i \in writers : (\A j \in writers : j <= i) /\ specMap[a] = rob[i].phys
    BY <1>f DEF SourceIsYoungestProducer
  <2>2. CASE a = arch
    <3>1. len + 1 \in writers2 /\ \A j \in writers2 : j <= len + 1
      BY <1>f, <1>0, <2>2
    <3> QED BY <3>1, <1>f, <2>2
  <2>3. CASE a # arch
    <3>1. writers2 = writers
      BY <1>f, <1>0, <2>3
    <3>2. specMap'[a] = specMap[a] /\ archMap'[a] = archMap[a]
      BY <1>f, <2>3
    <3>3. \A i \in writers : rob'[i].phys = rob[i].phys
      BY <1>f
    <3> HIDE DEF writers, writers2
    <3>4. \/ writers2 = {} /\ specMap'[a] = archMap'[a]
          \/ \E i \in writers2 : (\A j \in writers2 : j <= i) /\ specMap'[a] = rob'[i].phys
      BY <2>1, <3>1, <3>2, <3>3
    <3> QED BY <3>4, <1>f DEF writers2
  <2> QED BY <2>2, <2>3
<1>5. RecordedMappings'
  <2> SUFFICES ASSUME NEW i \in DOMAIN rob'
      PROVE LET older == {j \in 1 .. i - 1 : rob'[j].arch = rob'[i].arch}
            IN  \/ older = {} /\ rob'[i].prev = archMap'[rob'[i].arch]
                \/ \E j \in older : (\A k \in older : k <= j)
                                    /\ rob'[i].prev = rob'[j].phys
    BY DEF RecordedMappings
  <2>1. CASE i \in 1 .. len
    <3> DEFINE older == {j \in 1 .. i - 1 : rob[j].arch = rob[i].arch}
               older2 == {j \in 1 .. i - 1 : rob'[j].arch = rob'[i].arch}
    <3>1. \/ older = {} /\ rob[i].prev = archMap[rob[i].arch]
          \/ \E j \in older : (\A k \in older : k <= j) /\ rob[i].prev = rob[j].phys
      BY <1>f, <2>1 DEF RecordedMappings
    <3>2. older2 = older /\ rob'[i] = rob[i] /\ \A j \in older : rob'[j] = rob[j]
      BY <1>f, <2>1, <1>0
    <3> HIDE DEF older, older2
    <3>3. \/ older2 = {} /\ rob'[i].prev = archMap'[rob'[i].arch]
          \/ \E j \in older2 : (\A k \in older2 : k <= j) /\ rob'[i].prev = rob'[j].phys
      BY <3>1, <3>2, <1>f
    <3> QED BY <3>3 DEF older2
  <2>2. CASE i = len + 1
    <3> DEFINE writers == {j \in 1 .. len : rob[j].arch = arch}
               older2 == {j \in 1 .. i - 1 : rob'[j].arch = rob'[i].arch}
    <3>1. \/ writers = {} /\ specMap[arch] = archMap[arch]
          \/ \E j \in writers : (\A k \in writers : k <= j) /\ specMap[arch] = rob[j].phys
      BY <1>f DEF SourceIsYoungestProducer, Renamed
    <3>2. /\ older2 = writers /\ rob'[i].prev = specMap[arch] /\ rob'[i].arch = arch
          /\ \A j \in writers : rob'[j] = rob[j]
      BY <1>f, <2>2, <1>0
    <3> HIDE DEF older2, writers
    <3>3. \/ older2 = {} /\ rob'[i].prev = archMap'[rob'[i].arch]
          \/ \E j \in older2 : (\A k \in older2 : k <= j) /\ rob'[i].prev = rob'[j].phys
      BY <3>1, <3>2, <1>f
    <3> QED BY <3>3 DEF older2
  <2> QED BY <2>1, <2>2, <1>f, <1>0
<1>6. FreeListsAgree'
  BY <1>f DEF FreeListsAgree
<1>7. FreshInOrder'
  <2>1. phys < n \/ \A i \in 1 .. len : rob[i].phys < phys
    <3>1. CASE phys \in specFree
      <4>1. phys \in commFree
        BY <3>1 DEF FreeListsAgree
      <4>2. commFree \subseteq 0 .. n - 1
        BY DEF CommittedPartition
      <4> QED BY <4>1, <4>2, <1>0
    <3>2. CASE phys = nextPhys
      <4>1. \A i \in 1 .. len : rob[i].phys \in 0 .. nextPhys - 1
        BY <1>f DEF SpeculativePartition, InFlight
      <4> QED BY <4>1, <3>2 DEF TypeOK
    <3> QED BY <3>1, <3>2
  <2>2. \A i, j \in 1 .. len + 1 :
          i < j /\ n <= rob'[i].phys /\ n <= rob'[j].phys => rob'[i].phys < rob'[j].phys
    <3> SUFFICES ASSUME NEW i \in 1 .. len + 1, NEW j \in 1 .. len + 1, i < j,
                        n <= rob'[i].phys, n <= rob'[j].phys
                 PROVE  rob'[i].phys < rob'[j].phys
      OBVIOUS
    <3>1. i \in 1 .. len /\ rob'[i] = rob[i]
      BY <1>f, <1>0
    <3>2. CASE j \in 1 .. len
      BY <3>1, <3>2, <1>f DEF FreshInOrder
    <3>3. CASE j = len + 1
      BY <3>1, <3>3, <1>f, <2>1, <1>0
    <3> QED BY <3>2, <3>3, <1>0
  <2> QED BY <2>2, <1>0, <1>f, <1>n DEF FreshInOrder
<1> QED BY <1>1, <1>2, <1>3, <1>4, <1>5, <1>6, <1>7

\* Committing keeps the invariant.
LEMMA CommitPreserves ==
  ASSUME IInv, Commit
  PROVE  IInv'
<1> DEFINE len == Len(rob)
           n == CommittedNext(archMap, commFree)
           dest == rob[1]
           stale == archMap[dest.arch]
<1>i. /\ TypeOK /\ CommittedPartition /\ SpeculativePartition
      /\ SourceIsYoungestProducer /\ RecordedMappings /\ FreeListsAgree /\ FreshInOrder
  BY DEF IInv
<1>0. /\ len \in Nat /\ 1 <= len /\ n \in Nat /\ NumArch <= n
      /\ DOMAIN rob = 1 .. len
  BY <1>i DEF TypeOK, FreshInOrder, Commit
<1>t. \A i \in 1 .. len : /\ rob[i] \in RobDest /\ rob[i].phys \in Nat
                         /\ rob[i].arch \in Arch /\ rob[i].arch # 0
  <2>1. \A i \in 1 .. len : rob[i] \in RobDest
    BY <1>i, <1>0 DEF TypeOK
  <2> QED BY <2>1 DEF RobDest, Arch
<1>r. /\ rob' \in Seq(RobDest) /\ Len(rob') = len - 1 /\ DOMAIN rob' = 1 .. len - 1
      /\ \A i \in 1 .. len - 1 : rob'[i] = rob[i + 1]
      /\ Head(rob) = dest
  BY <1>i, <1>0 DEF TypeOK, Commit
<1>s. stale \in Nat /\ stale # 0 /\ stale # dest.phys
  <2>1. dest.arch \in Arch /\ dest.arch # 0 /\ dest.phys \in InFlight /\ 0 \in Arch
    <3>1. 1 \in 1 .. len
      BY <1>0
    <3>2. dest.arch \in Arch /\ dest.arch # 0
      BY <3>1, <1>t
    <3>3. dest.phys \in InFlight
      BY <3>1, <1>0 DEF InFlight
    <3>4. 0 \in Arch
      BY NumArchAssumption DEF Arch
    <3> QED BY <3>2, <3>3, <3>4
  <2>2. stale # 0
    BY <2>1, <1>i DEF CommittedPartition, TypeOK
  <2>3. stale \in Mapped(archMap)
    BY <2>1 DEF Mapped
  <2> QED BY <2>1, <2>2, <2>3, <1>i DEF SpeculativePartition, TypeOK
<1>c. /\ archMap' = [archMap EXCEPT ![dest.arch] = dest.phys]
      /\ commFree' = (commFree \ {dest.phys}) \cup {stale}
      /\ specFree' = (specFree \ {dest.phys}) \cup {stale}
      /\ specMap' = specMap /\ nextPhys' = nextPhys
  BY <1>r, <1>s DEF Commit
<1>a. /\ archMap' \in [Arch -> Nat] /\ archMap'[dest.arch] = dest.phys
      /\ \A a \in Arch \ {dest.arch} : archMap'[a] = archMap[a]
  BY <1>c, <1>t, <1>0, <1>i DEF TypeOK
<1>m. /\ dest.phys \notin Mapped(archMap) /\ stale \in Mapped(archMap)
      /\ Mapped(archMap)' = (Mapped(archMap) \ {stale}) \cup {dest.phys}
  <2>1. dest.arch \in Arch /\ dest.phys \in InFlight
    BY <1>t, <1>0 DEF InFlight
  <2>2. dest.phys \notin Mapped(archMap) /\ stale \in Mapped(archMap)
    BY <2>1, <1>i DEF SpeculativePartition, Mapped
  <2>3. ASSUME NEW p \in Mapped(archMap)' PROVE p \in (Mapped(archMap) \ {stale}) \cup {dest.phys}
    <3>1. PICK a \in Arch : p = archMap'[a]
      BY DEF Mapped
    <3>2. CASE a = dest.arch
      BY <3>1, <3>2, <1>a
    <3>3. CASE a # dest.arch
      <4>1. p = archMap[a] /\ archMap[a] # stale
        BY <3>1, <3>3, <1>a, <2>1, <1>i DEF CommittedPartition
      <4> QED BY <4>1 DEF Mapped
    <3> QED BY <3>2, <3>3
  <2>4. ASSUME NEW p \in (Mapped(archMap) \ {stale}) \cup {dest.phys} PROVE p \in Mapped(archMap)'
    <3>1. CASE p = dest.phys
      BY <3>1, <2>1, <1>a DEF Mapped
    <3>2. CASE p \in Mapped(archMap) \ {stale}
      <4>1. PICK a \in Arch : p = archMap[a] /\ a # dest.arch
        BY <3>2 DEF Mapped
      <4>2. p = archMap'[a]
        BY <4>1, <1>a
      <4> QED BY <4>2 DEF Mapped
    <3> QED BY <3>1, <3>2
  <2> QED BY <2>2, <2>3, <2>4
<1>f. InFlight' = InFlight \ {dest.phys} /\ dest.phys \in InFlight
  <2>1. ASSUME NEW p \in InFlight' PROVE p \in InFlight \ {dest.phys}
    <3>1. PICK i \in 1 .. len - 1 : p = rob'[i].phys
      BY <1>r DEF InFlight
    <3>2. p = rob[i + 1].phys /\ i + 1 \in 1 .. len /\ i + 1 # 1
      BY <3>1, <1>r, <1>0
    <3>3. p # dest.phys
      BY <3>2, <1>0, <1>i DEF SpeculativePartition
    <3> QED BY <3>2, <3>3, <1>0 DEF InFlight
  <2>2. ASSUME NEW p \in InFlight \ {dest.phys} PROVE p \in InFlight'
    <3>1. PICK i \in 1 .. len : p = rob[i].phys /\ i # 1
      BY <1>0 DEF InFlight
    <3>2. i - 1 \in 1 .. len - 1 /\ p = rob'[i - 1].phys
      BY <3>1, <1>r, <1>0
    <3> QED BY <3>2, <1>r DEF InFlight
  <2>3. dest.phys \in InFlight
    BY <1>0 DEF InFlight
  <2> QED BY <2>1, <2>2, <2>3
\* A committed register is either a recycled one or the first fresh one.
<1>p. dest.phys \in commFree \/ dest.phys = n
  <2> SUFFICES ASSUME dest.phys \notin commFree PROVE dest.phys = n
    OBVIOUS
  <2>1. n <= dest.phys /\ dest.phys < nextPhys
    BY <1>f, <1>m, <1>i, <1>t, <1>0 DEF CommittedPartition, SpeculativePartition, TypeOK
  <2>2. n \notin Mapped(archMap) \cup commFree
    BY <1>i, <1>0 DEF CommittedPartition
  <2>3. n \in InFlight
    <3>1. n \in 0 .. nextPhys - 1
      BY <2>1, <1>0, <1>t, <1>i DEF TypeOK
    <3> QED BY <3>1, <2>2, <1>i DEF SpeculativePartition, FreeListsAgree
  <2>4. PICK k \in 1 .. len : rob[k].phys = n
    BY <2>3, <1>0 DEF InFlight
  <2>5. ~(1 < k)
    <3> SUFFICES ASSUME 1 < k PROVE FALSE
      OBVIOUS
    <3>1. n <= rob[k].phys
      BY <2>4, <1>0
    <3>2. rob[1].phys < rob[k].phys
      BY <1>i, <1>0, <2>1, <3>1 DEF FreshInOrder
    <3> QED BY <3>2, <2>4, <2>1, <1>0, <1>t
  <2> QED BY <2>4, <2>5
<1> DEFINE n2 == IF dest.phys \in commFree THEN n ELSE n + 1
<1>n. /\ Mapped(archMap)' \cup commFree' = 0 .. n2 - 1
      /\ CommittedNext(archMap, commFree)' = n2
      /\ n2 \in Nat /\ NumArch <= n2 /\ n <= n2
  <2>1. Mapped(archMap)' \cup commFree' = Mapped(archMap) \cup commFree \cup {dest.phys}
    BY <1>m, <1>c
  <2>2. Mapped(archMap) \cup commFree = 0 .. n - 1
    BY <1>i DEF CommittedPartition
  <2>3. Mapped(archMap)' \cup commFree' = 0 .. n2 - 1
    BY <2>1, <2>2, <1>p, <1>0
  <2>4. n2 \in Nat /\ NumArch <= n2 /\ n <= n2
    BY <1>0
  <2>5. commFree' \in SUBSET Nat
    BY <1>c, <1>s, <1>i DEF TypeOK
  <2>6. Mapped(archMap)' = Mapped(archMap')
    BY DEF Mapped
  <2>7. CommittedNext(archMap', commFree') = n2
    <3> HIDE DEF n2, n
    <3> QED BY <2>3, <2>4, <2>5, <2>6, <1>a, CommittedNextOfPartition
  <2>8. CommittedNext(archMap, commFree)' = CommittedNext(archMap', commFree')
    BY DEF CommittedNext, Mapped
  <2> QED BY <2>3, <2>4, <2>7, <2>8
<1>1. TypeOK'
  <2>1. archMap'[0] = 0
    <3>1. 1 \in 1 .. len /\ 0 \in Arch
      BY <1>0, NumArchAssumption DEF Arch
    <3>2. dest.arch # 0
      BY <3>1, <1>t
    <3>3. archMap[0] = 0 /\ archMap \in [Arch -> Nat]
      BY <1>i DEF TypeOK
    <3> QED BY <3>1, <3>2, <3>3, <1>c
  <2>2. specMap' \in [Arch -> Nat] /\ specMap'[0] = 0 /\ nextPhys' \in Nat
    BY <1>c, <1>i DEF TypeOK
  <2>3. commFree' \in SUBSET Nat /\ specFree' \in SUBSET Nat
    BY <1>c, <1>s, <1>i DEF TypeOK
  <2> QED BY <2>1, <2>2, <2>3, <1>a, <1>r DEF TypeOK
<1>2. CommittedPartition'
  <2>1. ASSUME NEW a \in Arch, NEW b \in Arch, archMap'[a] = archMap'[b]
        PROVE  a = b
    <3>1. \A c \in Arch : archMap[c] # dest.phys
      BY <1>m DEF Mapped
    <3> QED BY <2>1, <3>1, <1>a, <1>i DEF CommittedPartition
  <2>2. Mapped(archMap)' \cap commFree' = {}
    BY <1>m, <1>c, <1>s, <1>i DEF CommittedPartition
  <2> QED BY <2>1, <2>2, <1>n DEF CommittedPartition
<1>3. SpeculativePartition'
  <2>1. \A i, j \in 1 .. len - 1 : rob'[i].phys = rob'[j].phys => i = j
    <3> SUFFICES ASSUME NEW i \in 1 .. len - 1, NEW j \in 1 .. len - 1,
                        rob'[i].phys = rob'[j].phys
                 PROVE  i = j
      OBVIOUS
    <3>1. i + 1 \in 1 .. len /\ j + 1 \in 1 .. len /\ rob[i + 1].phys = rob[j + 1].phys
      BY <1>r, <1>0
    <3>2. i + 1 = j + 1
      BY <3>1, <1>i, <1>0 DEF SpeculativePartition
    <3> QED BY <3>2
  <2>2. Mapped(archMap)' \cap InFlight' = {}
    BY <1>m, <1>f, <1>i DEF SpeculativePartition
  <2>3. specFree' \cap (Mapped(archMap)' \cup InFlight') = {}
    BY <1>m, <1>f, <1>c, <1>s, <1>i DEF SpeculativePartition
  <2>4. Mapped(archMap)' \cup InFlight' \cup specFree' = 0 .. nextPhys' - 1
    BY <1>m, <1>f, <1>c, <1>i DEF SpeculativePartition
  <2> QED BY <2>1, <2>2, <2>3, <2>4, <1>r DEF SpeculativePartition
<1>4. SourceIsYoungestProducer'
  <2> SUFFICES ASSUME NEW a \in Arch
      PROVE LET writers == {i \in DOMAIN rob' : rob'[i].arch = a}
            IN  \/ writers = {} /\ specMap'[a] = archMap'[a]
                \/ \E i \in writers : (\A j \in writers : j <= i)
                                      /\ specMap'[a] = rob'[i].phys
    BY DEF SourceIsYoungestProducer
  <2> DEFINE writers2 == {i \in 1 .. len - 1 : rob'[i].arch = a}
  <2>1. CASE \A i \in 1 .. len : rob[i].arch # a
    <3>1. specMap[a] = archMap[a] /\ a # dest.arch
      BY <2>1, <1>i, <1>0 DEF SourceIsYoungestProducer
    <3>2. \A i \in 1 .. len - 1 : rob'[i].arch # a
      BY <2>1, <1>r, <1>0
    <3> QED BY <3>1, <3>2, <1>a, <1>c, <1>r
  <2>2. CASE \E i \in 1 .. len : rob[i].arch = a
    <3>1. PICK i \in 1 .. len : /\ rob[i].arch = a /\ specMap[a] = rob[i].phys
                               /\ \A j \in 1 .. len : rob[j].arch = a => j <= i
      BY <2>2, <1>i, <1>0 DEF SourceIsYoungestProducer
    <3>2. CASE i = 1
      <4>1. \A j \in 1 .. len - 1 : rob'[j].arch # a
        <5> SUFFICES ASSUME NEW j \in 1 .. len - 1, rob'[j].arch = a PROVE FALSE
          OBVIOUS
        <5>1. j + 1 \in 1 .. len /\ rob[j + 1].arch = a /\ ~(j + 1 <= 1)
          BY <1>r, <1>0
        <5> QED BY <5>1, <3>1, <3>2
      <4>2. specMap'[a] = archMap'[a]
        BY <3>1, <3>2, <1>a, <1>c
      <4> QED BY <4>1, <4>2, <1>r
    <3>3. CASE i # 1
      <4>1. i - 1 \in 1 .. len - 1 /\ rob'[i - 1] = rob[i]
        BY <3>3, <1>r, <1>0
      <4>2. \A j \in 1 .. len - 1 : rob'[j].arch = a => j <= i - 1
        <5> SUFFICES ASSUME NEW j \in 1 .. len - 1, rob'[j].arch = a PROVE j <= i - 1
          OBVIOUS
        <5>1. j + 1 \in 1 .. len /\ rob[j + 1].arch = a
          BY <1>r, <1>0
        <5>2. j + 1 <= i
          BY <5>1, <3>1
        <5> QED BY <5>2, <1>0
      <4>3. i - 1 \in writers2 /\ \A j \in writers2 : j <= i - 1
        BY <4>1, <4>2, <3>1
      <4>4. specMap'[a] = rob'[i - 1].phys
        BY <4>1, <3>1, <1>c
      <4> QED BY <4>3, <4>4, <1>r
    <3> QED BY <3>2, <3>3
  <2> QED BY <2>1, <2>2
<1>5. RecordedMappings'
  <2> SUFFICES ASSUME NEW i \in 1 .. len - 1
      PROVE LET older == {j \in 1 .. i - 1 : rob'[j].arch = rob'[i].arch}
            IN  \/ older = {} /\ rob'[i].prev = archMap'[rob'[i].arch]
                \/ \E j \in older : (\A k \in older : k <= j)
                                    /\ rob'[i].prev = rob'[j].phys
    BY <1>r DEF RecordedMappings
  <2> DEFINE older == {j \in 1 .. i : rob[j].arch = rob[i + 1].arch}
             older2 == {j \in 1 .. i - 1 : rob'[j].arch = rob'[i].arch}
  <2>0. i + 1 \in 1 .. len /\ rob'[i] = rob[i + 1] /\ (i + 1) - 1 = i
    BY <1>r, <1>0
  <2>1. \/ older = {} /\ rob[i + 1].prev = archMap[rob[i + 1].arch]
        \/ \E j \in older : (\A k \in older : k <= j) /\ rob[i + 1].prev = rob[j].phys
    BY <2>0, <1>i, <1>0 DEF RecordedMappings
  <2>2. \A j \in 1 .. i - 1 : rob'[j] = rob[j + 1] /\ j + 1 \in 1 .. i
    BY <1>r, <1>0
  <2>3. CASE older = {} /\ rob[i + 1].prev = archMap[rob[i + 1].arch]
    <3>1. 1 \notin older /\ rob[i + 1].arch # dest.arch
      BY <2>3
    <3>2. older2 = {}
      BY <2>0, <2>2, <2>3
    <3>3. rob'[i].prev = archMap'[rob'[i].arch]
      BY <2>0, <2>3, <3>1, <1>a, <1>t
    <3> QED BY <3>2, <3>3
  <2>4. CASE \E j \in older : (\A k \in older : k <= j) /\ rob[i + 1].prev = rob[j].phys
    <3>1. PICK j \in older : (\A k \in older : k <= j) /\ rob[i + 1].prev = rob[j].phys
      BY <2>4
    <3>2. CASE j = 1
      <4>1. older2 = {}
        <5> SUFFICES ASSUME NEW k \in older2 PROVE FALSE
          OBVIOUS
        <5>1. k + 1 \in older /\ ~(k + 1 <= 1)
          BY <2>0, <2>2
        <5> QED BY <5>1, <3>1, <3>2
      <4>2. rob'[i].prev = archMap'[rob'[i].arch]
        BY <3>1, <3>2, <2>0, <1>a
      <4> QED BY <4>1, <4>2
    <3>3. CASE j # 1
      <4>1. j - 1 \in 1 .. i - 1 /\ rob'[j - 1] = rob[j]
        BY <3>3, <2>2
      <4>2. j - 1 \in older2
        BY <4>1, <2>0
      <4>3. \A k \in older2 : k <= j - 1
        <5> SUFFICES ASSUME NEW k \in older2 PROVE k <= j - 1
          OBVIOUS
        <5>1. k + 1 \in older
          BY <2>0, <2>2
        <5>2. k + 1 <= j
          BY <5>1, <3>1
        <5> QED BY <5>2
      <4>4. rob'[i].prev = rob'[j - 1].phys
        BY <4>1, <3>1, <2>0
      <4> QED BY <4>2, <4>3, <4>4
    <3> QED BY <3>2, <3>3
  <2> QED BY <2>1, <2>3, <2>4
<1>6. FreeListsAgree'
  <2>1. stale \notin InFlight
    BY <1>m, <1>i DEF SpeculativePartition
  <2> QED BY <2>1, <1>c, <1>f, <1>i, <1>s DEF FreeListsAgree
<1>7. FreshInOrder'
  <2>1. ASSUME NEW i \in 1 .. len - 1, NEW j \in 1 .. len - 1, i < j,
               n2 <= rob'[i].phys, n2 <= rob'[j].phys
        PROVE  rob'[i].phys < rob'[j].phys
    <3>1. /\ i + 1 \in 1 .. len /\ j + 1 \in 1 .. len /\ i + 1 < j + 1
          /\ rob'[i] = rob[i + 1] /\ rob'[j] = rob[j + 1]
      BY <2>1, <1>r, <1>0
    <3>2. n <= rob[i + 1].phys /\ n <= rob[j + 1].phys
      BY <3>1, <2>1, <1>n, <1>0, <1>t
    <3> QED BY <3>1, <3>2, <1>i, <1>0 DEF FreshInOrder
  <2> HIDE DEF n2
  <2> QED BY <2>1, <1>n, <1>r DEF FreshInOrder
<1> QED BY <1>1, <1>2, <1>3, <1>4, <1>5, <1>6, <1>7 DEF IInv

\* Squashing keeps the invariant.
LEMMA SquashPreserves ==
  ASSUME IInv, Squash
  PROVE  IInv'
<1> DEFINE n == CommittedNext(archMap, commFree)
<1>i. TypeOK /\ CommittedPartition /\ FreshInOrder
  BY DEF IInv
<1>0. n \in Nat /\ NumArch <= n
  BY <1>i DEF FreshInOrder
<1>1. /\ specMap' = archMap /\ specFree' = commFree /\ nextPhys' = n
      /\ archMap' = archMap /\ commFree' = commFree
      /\ rob' = << >> /\ DOMAIN rob' = {}
  BY DEF Squash
<1>2. Mapped(archMap)' = Mapped(archMap) /\ n' = n
  <2>1. Mapped(archMap)' = Mapped(archMap)
    BY <1>1 DEF Mapped
  <2>2. CommittedNext(archMap, commFree)' = CommittedNext(archMap, commFree)
    BY <1>1, <2>1 DEF CommittedNext
  <2> QED BY <2>1, <2>2
<1>3. InFlight' = {}
  BY <1>1 DEF InFlight
<1> HIDE DEF n
<1>4. TypeOK'
  BY <1>i, <1>0, <1>1 DEF TypeOK
<1>5. CommittedPartition'
  BY <1>i, <1>1, <1>2 DEF CommittedPartition
<1>6. SpeculativePartition'
  BY <1>i, <1>1, <1>2, <1>3 DEF SpeculativePartition, CommittedPartition, n
<1>7. SourceIsYoungestProducer'
  BY <1>1 DEF SourceIsYoungestProducer
<1>8. RecordedMappings'
  BY <1>1 DEF RecordedMappings
<1>9. FreeListsAgree'
  BY <1>1, <1>3 DEF FreeListsAgree
<1>10. FreshInOrder'
  BY <1>0, <1>1, <1>2 DEF FreshInOrder, n
<1> QED BY <1>4, <1>5, <1>6, <1>7, <1>8, <1>9, <1>10 DEF IInv

\* The invariant holds initially: every register is mapped and none is free.
LEMMA InitIInv == Init => IInv
<1> SUFFICES ASSUME Init PROVE IInv
  OBVIOUS
<1>1. /\ archMap = [a \in Arch |-> a] /\ specMap = archMap /\ commFree = {}
      /\ specFree = {} /\ nextPhys = NumArch /\ rob = << >> /\ DOMAIN rob = {}
  BY DEF Init
<1>2. Mapped(archMap) = 0 .. NumArch - 1
  BY <1>1 DEF Mapped, Arch
<1>3. archMap \in [Arch -> Nat] /\ archMap[0] = 0
  BY <1>1 DEF Arch
<1>4. CommittedNext(archMap, commFree) = NumArch
  BY <1>1, <1>2, <1>3, CommittedNextOfPartition
<1>5. InFlight = {}
  BY <1>1 DEF InFlight
<1>6. TypeOK
  BY <1>1, <1>3 DEF TypeOK
<1>7. CommittedPartition
  BY <1>1, <1>2, <1>4 DEF CommittedPartition
<1>8. SpeculativePartition
  BY <1>1, <1>2, <1>5 DEF SpeculativePartition
<1>9. SourceIsYoungestProducer /\ RecordedMappings
  BY <1>1 DEF SourceIsYoungestProducer, RecordedMappings
<1>10. FreeListsAgree /\ FreshInOrder
  BY <1>1, <1>4 DEF FreeListsAgree, FreshInOrder
<1> QED BY <1>6, <1>7, <1>8, <1>9, <1>10 DEF IInv

\* Every step keeps the invariant.
LEMMA NextIInv == IInv /\ [Next]_vars => IInv'
<1> SUFFICES ASSUME IInv, [Next]_vars PROVE IInv'
  OBVIOUS
<1>1. ASSUME NEW arch \in Renamed, RenameRecycled(arch) PROVE IInv'
  <2>1. PICK phys \in specFree : specFree' = specFree \ {phys} /\ Allocate(arch, phys)
    BY <1>1 DEF RenameRecycled
  <2>2. phys \in Nat /\ phys \notin Mapped(archMap) \cup InFlight /\ nextPhys' = nextPhys
    BY <1>1 DEF IInv, TypeOK, SpeculativePartition, RenameRecycled
  <2> QED BY <2>1, <2>2, AllocatePreserves
<1>2. ASSUME NEW arch \in Renamed, RenameFresh(arch) PROVE IInv'
  <2>1. /\ specFree = {} /\ specFree' = {} /\ nextPhys' = nextPhys + 1
        /\ Allocate(arch, nextPhys)
    BY <1>2 DEF RenameFresh
  <2>2. nextPhys \in Nat /\ nextPhys \notin Mapped(archMap) \cup InFlight
    BY DEF IInv, TypeOK, SpeculativePartition
  <2> QED BY <2>1, <2>2, AllocatePreserves
<1>3. CASE Commit
  BY <1>3, CommitPreserves
<1>4. CASE Squash
  BY <1>4, SquashPreserves
<1>5. CASE UNCHANGED vars
  <2>1. /\ archMap' = archMap /\ specMap' = specMap /\ commFree' = commFree
        /\ specFree' = specFree /\ nextPhys' = nextPhys /\ rob' = rob
    BY <1>5 DEF vars
  <2>2. Mapped(archMap)' = Mapped(archMap) /\ InFlight' = InFlight
    BY <2>1 DEF Mapped, InFlight
  <2>3. CommittedNext(archMap, commFree)' = CommittedNext(archMap, commFree)
    BY <2>1, <2>2 DEF CommittedNext
  <2>4. TypeOK' /\ CommittedPartition' /\ SpeculativePartition'
    BY <2>1, <2>2, <2>3 DEF IInv, TypeOK, CommittedPartition, SpeculativePartition
  <2>5. SourceIsYoungestProducer' /\ RecordedMappings'
    BY <2>1 DEF IInv, SourceIsYoungestProducer, RecordedMappings
  <2>6. FreeListsAgree' /\ FreshInOrder'
    BY <2>1, <2>2, <2>3 DEF IInv, FreeListsAgree, FreshInOrder
  <2> QED BY <2>4, <2>5, <2>6 DEF IInv
<1> QED BY <1>1, <1>2, <1>3, <1>4, <1>5 DEF Next

LEMMA Invariance == Spec => []IInv
BY InitIInv, NextIInv, PTL DEF Spec

-----------------------------------------------------------------------------
\* Type correctness, and x0 is never renamed.
THEOREM TypeCorrect == Spec => []TypeOK
<1>1. IInv => TypeOK
  BY DEF IInv
<1> QED BY <1>1, Invariance, PTL

\* No physical register is lost or owned twice, by the committed state or by the
\* speculative one.
THEOREM RegistersPartitioned == Spec => [](CommittedPartition /\ SpeculativePartition)
<1>1. IInv => CommittedPartition /\ SpeculativePartition
  BY DEF IInv
<1> QED BY <1>1, Invariance, PTL

\* The speculative side alone: whatever the squashes, the registers that the speculative map
\* and its free list hold are disjoint and are all there are.
THEOREM SpeculationPartitioned == Spec => []SpeculativePartition
BY RegistersPartitioned, PTL

\* Sources read the youngest older producer.
THEOREM SourcesCorrect == Spec => []SourceIsYoungestProducer
<1>1. IInv => SourceIsYoungestProducer
  BY DEF IInv
<1> QED BY <1>1, Invariance, PTL

\* Commit recycles the very mapping that was replaced when its instruction was renamed.
THEOREM RecycledIsReplaced == Spec => []RecordedMappingIsRecycled
<1>1. IInv => RecordedMappingIsRecycled
  <2> SUFFICES ASSUME IInv, rob # << >> PROVE Head(rob).prev = archMap[Head(rob).arch]
    BY DEF RecordedMappingIsRecycled
  <2>1. 1 \in DOMAIN rob /\ Head(rob) = rob[1] /\ 1 .. 1 - 1 = {}
    BY DEF IInv, TypeOK
  <2> QED BY <2>1 DEF IInv, RecordedMappings
<1> QED BY <1>1, Invariance, PTL

\* The duplicate searches of the free lists never find anything.
THEOREM RecycledWasLive == Spec => []RecycledRegisterWasLive
<1>1. IInv => RecycledRegisterWasLive
  <2> SUFFICES ASSUME IInv, rob # << >>
               PROVE  /\ archMap[Head(rob).arch] \notin commFree \cup specFree
                      /\ Head(rob).phys \notin specFree
    BY DEF RecycledRegisterWasLive
  <2>1. 1 \in DOMAIN rob /\ Head(rob) = rob[1] /\ rob[1] \in RobDest
    BY DEF IInv, TypeOK
  <2>2. rob[1].phys \in InFlight /\ archMap[rob[1].arch] \in Mapped(archMap)
    BY <2>1 DEF InFlight, Mapped, RobDest, Arch
  <2> QED BY <2>1, <2>2 DEF IInv, CommittedPartition, SpeculativePartition
<1> QED BY <1>1, Invariance, PTL

LEMMA IntervalSizes ==
  ASSUME NEW k \in Nat
  PROVE  /\ IsFiniteSet(1 .. k) /\ Cardinality(1 .. k) = k
         /\ IsFiniteSet(0 .. k - 1) /\ Cardinality(0 .. k - 1) = k
<1>1. IsFiniteSet(1 .. k) /\ Cardinality(1 .. k) = IF 1 > k THEN 0 ELSE k - 1 + 1
  BY FS_Interval
<1>2. /\ IsFiniteSet(0 .. k - 1)
      /\ Cardinality(0 .. k - 1) = IF 0 > k - 1 THEN 0 ELSE (k - 1) - 0 + 1
  <2>1. 0 \in Int /\ k - 1 \in Int
    OBVIOUS
  <2> QED BY <2>1, FS_Interval
<1> QED BY <1>1, <1>2

\* Counting: with the free list exhausted, every register below the high-water mark
\* is mapped or in flight.
LEMMA ExhaustedBound ==
  ASSUME IInv, specFree = {}
  PROVE  nextPhys <= NumArch + Len(rob)
<1> DEFINE f == [i \in 1 .. Len(rob) |-> rob[i].phys]
<1>i. TypeOK /\ SpeculativePartition
  BY DEF IInv
<1>0. Len(rob) \in Nat /\ DOMAIN rob = 1 .. Len(rob) /\ nextPhys \in Nat
  BY <1>i DEF TypeOK
<1>1. IsFiniteSet(Arch) /\ Cardinality(Arch) = NumArch
  BY IntervalSizes DEF Arch
<1>2. IsFiniteSet(1 .. Len(rob)) /\ Cardinality(1 .. Len(rob)) = Len(rob)
  BY <1>0, IntervalSizes
<1>3. IsFiniteSet(0 .. nextPhys - 1) /\ Cardinality(0 .. nextPhys - 1) = nextPhys
  BY <1>0, IntervalSizes
<1>4. archMap \in Surjection(Arch, Mapped(archMap))
  BY <1>i DEF TypeOK, Mapped, Surjection
<1>5. f \in Surjection(1 .. Len(rob), InFlight)
  BY <1>0 DEF InFlight, Surjection
<1>6. IsFiniteSet(Mapped(archMap)) /\ Cardinality(Mapped(archMap)) <= NumArch
  BY <1>1, <1>4, FS_Surjection
<1>7. IsFiniteSet(InFlight) /\ Cardinality(InFlight) <= Len(rob)
  BY <1>2, <1>5, FS_Surjection
<1>8. 0 .. nextPhys - 1 = Mapped(archMap) \cup InFlight
  BY <1>i DEF SpeculativePartition
<1>9. Cardinality(Mapped(archMap) \cup InFlight)
        <= Cardinality(Mapped(archMap)) + Cardinality(InFlight)
  <2>1. Mapped(archMap) \cap InFlight = {}
    BY <1>i DEF SpeculativePartition
  <2>2. Cardinality({}) = 0
    BY FS_EmptySet
  <2>3. Cardinality(Mapped(archMap)) \in Nat /\ Cardinality(InFlight) \in Nat
    BY <1>6, <1>7, FS_CardinalityType
  <2>4. Cardinality(Mapped(archMap) \cup InFlight)
          = Cardinality(Mapped(archMap)) + Cardinality(InFlight)
              - Cardinality(Mapped(archMap) \cap InFlight)
    BY <1>6, <1>7, FS_Union
  <2>5. Cardinality(Mapped(archMap) \cap InFlight) = 0
    BY <2>1, <2>2
  <2> HIDE DEF f
  <2> QED BY <2>3, <2>4, <2>5
<1>10. Cardinality(Mapped(archMap)) \in Nat /\ Cardinality(InFlight) \in Nat
  BY <1>6, <1>7, FS_CardinalityType
<1>11. Cardinality(Mapped(archMap) \cup InFlight) = nextPhys
  BY <1>3, <1>8
<1> HIDE DEF f
<1> QED BY <1>0, <1>6, <1>7, <1>9, <1>10, <1>11

\* The register file stays bounded whatever the program and however often it squashes.
THEOREM Bounded == Spec => []RegisterFileBounded
<1> DEFINE Bound == RegisterFileBounded /\ Len(rob) <= MaxInFlight
<1>1. Init => Bound
  BY DEF Init, RegisterFileBounded
<1>2. ASSUME IInv, Bound, [Next]_vars PROVE Bound'
  <2>0. /\ nextPhys \in Nat /\ Len(rob) \in Nat /\ nextPhys <= NumArch + MaxInFlight
        /\ Len(rob) <= MaxInFlight /\ TypeOK
    BY <1>2 DEF IInv, TypeOK, RegisterFileBounded
  <2>1. ASSUME NEW arch \in Renamed, RenameRecycled(arch) PROVE Bound'
    <3>1. PICK phys \in specFree : Allocate(arch, phys)
      BY <2>1 DEF RenameRecycled
    <3>2. phys \in Nat
      BY <2>0 DEF TypeOK
    <3>3. Len(rob') = Len(rob) + 1 /\ nextPhys' = nextPhys /\ Len(rob) < MaxInFlight
      BY <2>0, <2>1, <3>1, <3>2, AllocateFacts DEF RenameRecycled
    <3> QED BY <2>0, <3>3 DEF RegisterFileBounded
  <2>2. ASSUME NEW arch \in Renamed, RenameFresh(arch) PROVE Bound'
    <3>1. /\ Allocate(arch, nextPhys) /\ nextPhys' = nextPhys + 1
          /\ specFree = {} /\ Len(rob) < MaxInFlight
      BY <2>2 DEF RenameFresh
    <3>2. Len(rob') = Len(rob) + 1
      BY <2>0, <3>1, AllocateFacts
    <3>3. nextPhys <= NumArch + Len(rob)
      BY <1>2, <3>1, ExhaustedBound
    <3> QED BY <2>0, <3>1, <3>2, <3>3 DEF RegisterFileBounded
  <2>3. CASE Commit
    <3>1. Len(rob') = Len(rob) - 1 /\ nextPhys' = nextPhys
      BY <2>0, <2>3 DEF Commit, TypeOK
    <3> QED BY <2>0, <3>1 DEF RegisterFileBounded
  <2>4. CASE Squash
    <3> DEFINE n == CommittedNext(archMap, commFree)
    <3>1. rob' = << >> /\ Len(rob') = 0 /\ nextPhys' = n
      BY <2>4 DEF Squash
    <3>2. n \in Nat /\ NumArch <= n /\ Mapped(archMap) \cup commFree = 0 .. n - 1
      BY <1>2 DEF IInv, FreshInOrder, CommittedPartition
    <3>3. Mapped(archMap) \cup commFree \subseteq 0 .. nextPhys - 1
      BY <1>2 DEF IInv, FreeListsAgree, SpeculativePartition
    <3>4. n - 1 \in 0 .. nextPhys - 1
      <4> HIDE DEF n
      <4> QED BY <3>2, <3>3
    <3> HIDE DEF n
    <3> QED BY <2>0, <3>1, <3>2, <3>4 DEF RegisterFileBounded
  <2>5. CASE UNCHANGED vars
    BY <1>2, <2>5 DEF vars, RegisterFileBounded
  <2> QED BY <1>2, <2>1, <2>2, <2>3, <2>4, <2>5 DEF Next
<1>3. Bound => RegisterFileBounded
  OBVIOUS
<1> QED BY <1>1, <1>2, <1>3, Invariance, PTL DEF Spec
=============================================================================
