--------------------------- MODULE LoadStoreQueue ---------------------------
(***************************************************************************)
(* The load/store queue on its own (src/exec/load_store_queue.cpp), called *)
(* in every order its interface allows.  The pipeline calls it in few of   *)
(* them: there a load waits for the address of every older store, so that  *)
(* no load is ever marked for replay.  Here a caller may also be eager and *)
(* read before.                                                            *)
(*                                                                         *)
(* A datum is the sequence id of the store that wrote it, so that a load's *)
(* value tells which store each of its bytes came from.  All addresses are *)
(* translated ones of RAM; two virtual pages may show the same frame.      *)
(***************************************************************************)
EXTENDS Naturals, Sequences, FiniteSetsExt, SequencesExt

CONSTANTS
  NumBytes,   \* bytes of the frame
  MaxQueued,  \* bound: entries at a time
  MaxSeq      \* bound: loads and stores ever

ASSUME LsqAssumption ==
  /\ NumBytes \in Nat \ {0} /\ MaxQueued \in Nat \ {0} /\ MaxSeq \in Nat

VARIABLES
  lsqEntries,  \* in order of sequence id
  frame,       \* the writer of each byte of memory, 0 at first
  lsqCaller    \* lastSeq; eager: loads do not wait for unresolved stores;
               \* resolved (history): the stores with their bytes; wrong (history): a load
               \* retired with a value that program order does not give

lsqVars == <<lsqEntries, frame, lsqCaller>>

Bytes == 1..NumBytes
Ranges == {first..last : first \in Bytes, last \in Bytes} \ {{}}
NotRead == [b \in {} |-> 0]

LsqInit ==
  /\ lsqEntries = <<>> /\ frame = [b \in Bytes |-> 0]
  /\ lsqCaller \in {[lastSeq |-> 0, eager |-> e, resolved |-> {}, wrong |-> FALSE] : e \in BOOLEAN}

\* enqueue_load and enqueue_store.
Enqueue(kind) ==
  /\ Len(lsqEntries) < MaxQueued /\ lsqCaller.lastSeq < MaxSeq
  /\ lsqEntries' = Append(lsqEntries,
       [kind |-> kind, seq |-> lsqCaller.lastSeq + 1, bytes |-> {}, page |-> 0,
        addressReady |-> FALSE, dataReady |-> FALSE, orderReady |-> FALSE,
        replay |-> FALSE, value |-> NotRead])
  /\ lsqCaller' = [lsqCaller EXCEPT !.lastSeq = @ + 1]
  /\ UNCHANGED frame

-----------------------------------------------------------------------------
\* ranges_overlap of virtual addresses; same_translated_span of physical ones.
VirtualOverlap(x, y) == x.page = y.page /\ x.bytes \cap y.bytes # {}
PhysicalOverlap(x, y) == x.bytes \cap y.bytes # {}

\* Mutant: a load is only marked if it has the store's address.
RereadsStart(load, store) ==
  load.addressReady /\ load.orderReady /\ load.page = store.page /\ Min(load.bytes) = Min(store.bytes)

\* A younger load that has read what the store is going to write.
Rereads(load, store) ==
  load.addressReady /\ load.orderReady /\ VirtualOverlap(load, store)

\* mark_address_ready
AddressReady(i, bytes, page) ==
  LET known == [lsqEntries[i] EXCEPT !.addressReady = TRUE, !.bytes = bytes, !.page = page]
  IN  /\ ~lsqEntries[i].addressReady
      /\ lsqEntries' = [j \in DOMAIN lsqEntries |->
           IF j = i THEN known
           ELSE [lsqEntries[j] EXCEPT
                   !.replay = @ \/ /\ known.kind = "store" /\ lsqEntries[j].kind = "load"
                                   /\ lsqEntries[j].seq > known.seq
                                   /\ Rereads(lsqEntries[j], known)]]
      /\ lsqCaller' = [lsqCaller EXCEPT !.resolved =
           IF known.kind = "store" THEN @ \cup {[seq |-> known.seq, bytes |-> bytes]} ELSE @]
      /\ UNCHANGED frame

\* mark_data_ready and mark_order_ready of a store: in either order, before or after its
\* address, but order only once the memory stage saw both.
DataReady(i) ==
  /\ lsqEntries[i].kind = "store" /\ ~lsqEntries[i].dataReady
  /\ lsqEntries' = [lsqEntries EXCEPT ![i].dataReady = TRUE]
  /\ UNCHANGED <<frame, lsqCaller>>

OrderReady(i) ==
  /\ lsqEntries[i].kind = "store" /\ lsqEntries[i].addressReady
  /\ lsqEntries[i].dataReady /\ ~lsqEntries[i].orderReady
  /\ lsqEntries' = [lsqEntries EXCEPT ![i].orderReady = TRUE]
  /\ UNCHANGED <<frame, lsqCaller>>

-----------------------------------------------------------------------------
OlderStores(load) ==
  {i \in DOMAIN lsqEntries : lsqEntries[i].kind = "store" /\ lsqEntries[i].seq < load.seq}

Unresolved(load) == {i \in OlderStores(load) : ~lsqEntries[i].addressReady}
Pending(load) ==
  {i \in OlderStores(load) \ Unresolved(load) :
     ~lsqEntries[i].orderReady /\ PhysicalOverlap(lsqEntries[i], load)}

\* classify_load: None for a patient caller; an eager one takes no notice of unresolved stores.
MayIssue(load) ==
  /\ ~load.replay /\ Pending(load) = {}
  /\ Unresolved(load) = {} \/ lsqCaller.eager

AllReady(e) == e.addressReady /\ e.dataReady /\ e.orderReady

\* The stores at which forwardable_load ends its search: from the youngest back, the first
\* that is not ready or overlaps.
SearchEnds(load) ==
  {i \in OlderStores(load) : LET e == lsqEntries[i] IN
     ~AllReady(e) \/ PhysicalOverlap(e, load)}

\* Mutant: overlap is taken for cover.
ForwardsPartly(load) ==
  LET ends == SearchEnds(load)
  IN  IF ends = {} THEN {} ELSE {lsqEntries[i] : i \in {j \in {Max(ends)} : AllReady(lsqEntries[j])}}

\* forwardable_load: that store, if it is ready and covers the load.
Forwards(load) ==
  LET ends == SearchEnds(load)
  IN  IF ends = {} THEN {}
      ELSE {lsqEntries[i] : i \in {j \in {Max(ends)} :
              AllReady(lsqEntries[j]) /\ load.bytes \subseteq lsqEntries[j].bytes}}

\* A load reads: a forwarded value, or memory once no older store known to overlap is still
\* to write it.
ReadLoad(i) ==
  LET load == lsqEntries[i]
      got(value) == lsqEntries' = [lsqEntries EXCEPT ![i].value = value,
                                     ![i].dataReady = TRUE, ![i].orderReady = TRUE]
  IN  /\ load.kind = "load" /\ load.addressReady /\ ~load.orderReady /\ MayIssue(load)
      /\ IF Forwards(load) # {}
         THEN \E s \in Forwards(load) : got([b \in load.bytes |-> s.seq])
         ELSE /\ \A s \in OlderStores(load) \ Unresolved(load) :
                   ~PhysicalOverlap(lsqEntries[s], load)
              /\ got([b \in load.bytes |-> frame[b]])
      /\ UNCHANGED <<frame, lsqCaller>>

-----------------------------------------------------------------------------
\* What program order gives byte b of the load: the youngest older store known to write it.
OrderedValue(load, b) ==
  LET writers == {s.seq : s \in {w \in lsqCaller.resolved : w.seq < load.seq /\ b \in w.bytes}}
  IN  IF writers = {} THEN 0 ELSE Max(writers)

Right(load) == \A b \in load.bytes : load.value[b] = OrderedValue(load, b)

\* active_replay
ReplayActive == \E i \in DOMAIN lsqEntries : lsqEntries[i].replay

\* retire_entry of the oldest one; its caller has performed a store by then, and retires
\* nothing while a replay is due.
RetireEntry ==
  /\ lsqEntries # <<>> /\ AllReady(Head(lsqEntries)) /\ ~ReplayActive
  /\ LET head == Head(lsqEntries)
     IN  /\ frame' = [b \in Bytes |->
              IF head.kind = "store" /\ b \in head.bytes THEN head.seq ELSE frame[b]]
         /\ lsqCaller' = [lsqCaller EXCEPT !.wrong = @ \/ (head.kind = "load" /\ ~Right(head))]
  /\ lsqEntries' = Tail(lsqEntries)

\* Mutant: the entry that gave the cause is kept.
KeptIncluding(seq) ==
  LET old == {i \in DOMAIN lsqEntries : lsqEntries[i].seq <= seq + 1}
  IN  IF old = {} THEN <<>> ELSE SubSeq(lsqEntries, 1, Max(old))

\* The entries up to seq: those before the last of them, for the queue is in order.
Kept(seq) ==
  LET old == {i \in DOMAIN lsqEntries : lsqEntries[i].seq <= seq}
  IN  IF old = {} THEN <<>> ELSE SubSeq(lsqEntries, 1, Max(old))

\* flush_younger_than, for a replay from the load on; clear, for anything else.
FlushYoungerThan(seq) ==
  /\ lsqEntries # <<>> /\ Last(lsqEntries).seq > seq
  /\ lsqEntries' = Kept(seq)
  /\ lsqCaller' = [lsqCaller EXCEPT !.resolved = {s \in @ : s.seq <= seq}]
  /\ UNCHANGED frame

LsqNext ==
  \/ \E kind \in {"load", "store"} : Enqueue(kind)
  \/ \E i \in DOMAIN lsqEntries :
       \/ \E bytes \in Ranges, page \in 1..2 : (lsqCaller.eager => page = 1) /\ AddressReady(i, bytes, page)
       \/ DataReady(i) \/ OrderReady(i) \/ ReadLoad(i)
  \/ RetireEntry
  \/ \E seq \in 0..MaxSeq :
       /\ IF ReplayActive
          THEN seq + 1 = Min({e.seq : e \in {f \in ToSet(lsqEntries) : f.replay}})
          ELSE lsqEntries # <<>> /\ seq \in {Head(lsqEntries).seq - 1, Head(lsqEntries).seq}
       /\ FlushYoungerThan(seq)

LsqSpec == LsqInit /\ [][LsqNext]_lsqVars

-----------------------------------------------------------------------------
\* A load that has read holds, byte for byte, what the youngest older store wrote, whether it
\* was forwarded, waited for memory or read ahead of a store that resolved elsewhere;
\* otherwise it is marked and flushed before it retires, and patient callers never need that.
LoadsInOrder ==
  /\ \A i \in DOMAIN lsqEntries : LET e == lsqEntries[i] IN
       e.kind = "load" /\ e.orderReady /\ ~e.replay => Right(e)
  /\ ~lsqCaller.wrong
  /\ ReplayActive => lsqCaller.eager
=============================================================================
