--------------------------- MODULE AiAccelerator ----------------------------
(***************************************************************************)
(* The queues of the AI accelerator (devices/ai_submission_queue.cpp,      *)
(* ai_accelerator.cpp, ai_dma_engine.cpp) and the guest's driver for them  *)
(* (guest/kernel/ai_accel.c).  A doorbell grants the device a budget of    *)
(* submissions; every tick and every doorbell pumps the queue: the active  *)
(* submission goes on loading, computing or storing, and when it is        *)
(* complete the next ones begin, as far as the budget goes.                *)
(*                                                                         *)
(* A submission is its number and how it ends: "good", "invalid" (refused  *)
(* before any work) or "fault" (its load fails).  One transfer stands for  *)
(* the loads of a submission and one for its stores; how many cycles each  *)
(* takes is free.  Results, profiles and the graph are left out.           *)
(***************************************************************************)
EXTENDS Naturals, Sequences, SequencesExt

CONSTANTS
  AiEntries,      \* entries of either queue
  AiSpan,         \* the queue counters count modulo this (2^32)
  AiSubmissions   \* bound on the submissions between two resets

ASSUME AiAssumption ==
  /\ AiEntries \in Nat \ {0} /\ AiSpan \in Nat /\ AiSubmissions \in Nat
  /\ AiSpan % AiEntries = 0 /\ AiSpan > AiEntries

VARIABLES
  ai,     \* configured; head, tail, chead, ctail; budget; active and stage; irq, line; comps
  aiMem,  \* guest memory: the submission ring; the slot the device cannot write, if any
  aiDrv   \* the driver: tail, chead, ctail; open: numbers not read yet; handling, last
          \* history: how often each was stored (2: more than once); rung: tail at the last doorbell

aiVars == <<ai, aiMem, aiDrv>>

Numbers == 1..AiSubmissions
Slots == 0..(AiEntries - 1)
NoSubmission == [num |-> 0, kind |-> "invalid"]

\* Mutant: a counter is not kept to its width.
Next1Unbounded(index) == index + 1

\* The counters are uint32_t.
Next1(index) == (index + 1) % AiSpan

\* bounded_depth: a tail that wrapped counts as nothing pending.
BoundedDepth(head, tail) ==
  IF tail < head THEN 0 ELSE IF tail - head > AiEntries THEN AiEntries ELSE tail - head

PendingDepth(d) == BoundedDepth(d.head, d.tail)
CompletionHasSpace(d) == BoundedDepth(d.chead, d.ctail) < AiEntries

-----------------------------------------------------------------------------
(* The device *)

\* set_fault, and no more submissions until the next doorbell.
Faulted(d) == [d EXCEPT !.irq = @ \cup {"fault"}, !.budget = 0, !.stopped = TRUE]

\* Mutant: the submission is consumed although its completion could not be written.
CompletedAnyway(d, sub, ok) ==
  LET next == [d EXCEPT !.active = NoSubmission, !.stage = "idle", !.head = Next1(@)]
  IN  IF ~CompletionHasSpace(d) \/ d.ctail % AiEntries = aiMem.badSlot THEN Faulted(next)
      ELSE [next EXCEPT !.comps[d.ctail % AiEntries] = [num |-> sub.num, ok |-> ok],
              !.ctail = Next1(@),
              !.irq = @ \cup {"completion"} \cup (IF ok THEN {} ELSE {"fault"})]

\* Mutant: the counters are not advanced.
CompletedNotCounted(d, sub, ok) ==
  LET next == [d EXCEPT !.active = NoSubmission, !.stage = "idle"]
  IN  IF ~CompletionHasSpace(d) \/ d.ctail % AiEntries = aiMem.badSlot THEN Faulted(next)
      ELSE [next EXCEPT !.comps[d.ctail % AiEntries] = [num |-> sub.num, ok |-> ok],
              !.irq = @ \cup {"completion"}]

\* complete_descriptor and clear_active_submission.
Completed(d, sub, ok) ==
  LET next == [d EXCEPT !.active = NoSubmission, !.stage = "idle"]
  IN  IF ~CompletionHasSpace(d) \/ d.ctail % AiEntries = aiMem.badSlot THEN Faulted(next)
      ELSE [next EXCEPT !.comps[d.ctail % AiEntries] = [num |-> sub.num, ok |-> ok],
              !.head = Next1(@), !.ctail = Next1(@),
              !.irq = @ \cup {"completion"} \cup (IF ok THEN {} ELSE {"fault"})]

\* begin_submission: refused, completed at once with a fault, or its load is under way.
Begun(d) ==
  LET sub  == aiMem.subs[d.head % AiEntries]
      paid == [d EXCEPT !.budget = @ - 1]
  IN  CASE PendingDepth(d) = 0 -> [d EXCEPT !.budget = 0]
        [] PendingDepth(d) # 0 /\ ~CompletionHasSpace(d) -> Faulted(d)
        [] PendingDepth(d) # 0 /\ CompletionHasSpace(d) /\ sub.kind = "invalid" ->
             Completed(paid, sub, FALSE)
        [] OTHER -> [paid EXCEPT !.active = sub, !.stage = "load"]

\* The loop of pump_queue while nothing is active: submissions begin until one has work to do.
BeginNext(d) ==
  LET Round(e) == IF e.stage = "idle" /\ e.budget > 0 THEN Begun(e) ELSE e
      after[n \in 0..(AiEntries + 1)] == IF n = 0 THEN d ELSE Round(after[n - 1])
  IN  after[AiEntries + 1]

\* Mutant: a submission is complete when it has computed.
PumpedSkipsStore(d, finished) ==
  CASE d.stage = "idle" -> BeginNext(d)
    [] d.stage # "idle" /\ ~finished -> d
    [] d.stage = "load" /\ finished ->
         IF d.active.kind = "fault" THEN BeginNext(Completed(d, d.active, FALSE))
         ELSE [d EXCEPT !.stage = "compute"]
    [] d.stage \in {"compute", "store"} /\ finished -> BeginNext(Completed(d, d.active, TRUE))

\* pump_queue: `finished' says that the stage under way ends in this cycle.
Pumped(d, finished) ==
  CASE d.stage = "idle" -> BeginNext(d)
    [] d.stage # "idle" /\ ~finished -> d
    [] d.stage = "load" /\ finished ->
         IF d.active.kind = "fault" THEN BeginNext(Completed(d, d.active, FALSE))
         ELSE [d EXCEPT !.stage = "compute"]
    [] d.stage = "compute" /\ finished -> [d EXCEPT !.stage = "store"]
    [] d.stage = "store" /\ finished -> BeginNext(Completed(d, d.active, TRUE))

\* Mutant: the line follows the faults only.
LinedOnFault(d) == [d EXCEPT !.line = "fault" \in d.irq]

\* update_interrupt_line; nothing is masked.
Lined(d) == [d EXCEPT !.line = d.irq # {}]

SegmentStored(finished) ==
  IF ai.stage = "store" /\ finished
  THEN [aiDrv EXCEPT !.stored[ai.active.num] = IF @ = 2 THEN 2 ELSE @ + 1]
  ELSE aiDrv

ResetAi ==
  [ready |-> FALSE, head |-> 0, tail |-> 0, chead |-> 0, ctail |-> 0, budget |-> 0,
   active |-> NoSubmission, stage |-> "idle", irq |-> {}, line |-> FALSE, stopped |-> FALSE,
   comps |-> [s \in Slots |-> [num |-> 0, ok |-> FALSE]]]

FreshDriver ==
  [tail |-> 0, chead |-> 0, ctail |-> 0, open |-> <<>>, handling |-> FALSE, last |-> 0, rung |-> 0,
   stored |-> [n \in Numbers |-> 0]]

AiInit ==
  /\ ai = ResetAi
  /\ aiMem = [subs |-> [s \in Slots |-> NoSubmission], badSlot |-> AiEntries]
  /\ aiDrv = FreshDriver

AiTick(finished) ==
  /\ ai' = Lined(Pumped(ai, finished))
  /\ aiDrv' = SegmentStored(finished)
  /\ UNCHANGED aiMem

\* Mutant: the doorbell forgets what earlier ones granted.
DoorbellForgets(finished) ==
  /\ ai.ready
  /\ ai' = Lined(IF PendingDepth(ai) = 0 THEN ai
                 ELSE Pumped([ai EXCEPT !.budget = 1, !.stopped = FALSE], finished))
  /\ aiDrv' = [SegmentStored(finished) EXCEPT !.rung = ai.tail]
  /\ UNCHANGED aiMem

\* ring_doorbell(0): everything that is pending may be processed.
Doorbell(finished) ==
  /\ ai.ready
  /\ LET budget == ai.budget + PendingDepth(ai)
     IN  ai' = Lined(IF PendingDepth(ai) = 0 THEN ai
                     ELSE Pumped([ai EXCEPT !.stopped = FALSE,
                            !.budget = IF budget > AiEntries THEN AiEntries ELSE budget], finished))
  /\ aiDrv' = [SegmentStored(finished /\ PendingDepth(ai) # 0) EXCEPT !.rung = ai.tail]
  /\ UNCHANGED aiMem

-----------------------------------------------------------------------------
(* The driver *)

\* ai_accel_reset, at any time: whatever was under way is forgotten.
AiReset ==
  /\ ai' = ResetAi
  /\ aiDrv' = FreshDriver
  /\ UNCHANGED aiMem

\* ai_accel_configure_queues and ai_accel_queue_state_init; one slot of the completion queue
\* may lie where the device cannot write.
ConfigureQueues(badSlot) ==
  /\ ~ai.ready
  /\ ai' = [ResetAi EXCEPT !.ready = TRUE]
  /\ aiMem' = [subs |-> [s \in Slots |-> NoSubmission], badSlot |-> badSlot]
  /\ aiDrv' = FreshDriver

\* ai_accel_queue_enqueue_submission, with the head read from the device.
Enqueue(kind) ==
  /\ ai.ready
  /\ ai.head <= aiDrv.tail /\ aiDrv.tail - ai.head < AiEntries
  /\ aiDrv.last < AiSubmissions
  /\ aiMem' = [aiMem EXCEPT !.subs[aiDrv.tail % AiEntries] = [num |-> aiDrv.last + 1, kind |-> kind]]
  /\ aiDrv' = [aiDrv EXCEPT !.tail = Next1(@), !.open = Append(@, aiDrv.last + 1), !.last = @ + 1]
  /\ UNCHANGED ai

\* ai_accel_set_submit_tail.
Publish ==
  /\ ai.ready /\ ai.tail # aiDrv.tail
  /\ ai' = [ai EXCEPT !.tail = aiDrv.tail]
  /\ UNCHANGED <<aiMem, aiDrv>>

\* The handler acknowledges, then reads the completion tail.
AiAcknowledge ==
  /\ ai.line /\ ~aiDrv.handling
  /\ ai' = [ai EXCEPT !.irq = {}, !.line = FALSE]
  /\ aiDrv' = [aiDrv EXCEPT !.handling = TRUE]
  /\ UNCHANGED aiMem

\* ai_accel_queue_sync_completion_tail.
SyncCompletionTail ==
  /\ aiDrv.handling
  /\ aiDrv' = [aiDrv EXCEPT !.handling = FALSE,
                 !.ctail = IF \/ ai.ctail < aiDrv.ctail \/ ai.ctail < aiDrv.chead
                              \/ ai.ctail - aiDrv.chead > AiEntries
                           THEN @ ELSE ai.ctail]
  /\ UNCHANGED <<ai, aiMem>>

\* ai_accel_queue_dequeue_completion and ai_accel_set_completion_head.
DequeueCompletion ==
  /\ aiDrv.chead < aiDrv.ctail
  /\ ai' = [ai EXCEPT !.chead = Next1(aiDrv.chead)]
  /\ aiDrv' = [aiDrv EXCEPT !.chead = Next1(@), !.open = Tail(@), !.stored[Head(aiDrv.open)] = 0]
  /\ UNCHANGED aiMem

AiNext ==
  \/ \E finished \in BOOLEAN : AiTick(finished) \/ Doorbell(finished)
  \/ AiReset
  \/ \E badSlot \in 0..AiEntries : ConfigureQueues(badSlot)
  \/ \E kind \in {"good", "invalid", "fault"} : Enqueue(kind)
  \/ Publish
  \/ AiAcknowledge
  \/ SyncCompletionTail
  \/ DequeueCompletion

AiSpec == AiInit /\ [][AiNext]_aiVars

-----------------------------------------------------------------------------
(* Properties *)

AiTypeOK ==
  /\ {ai.head, ai.tail, ai.chead, ai.ctail} \subseteq 0..(AiSpan - 1)
  /\ ai.budget \in 0..AiEntries /\ ai.stage \in {"idle", "load", "compute", "store"}
  /\ ai.irq \subseteq {"completion", "fault"} /\ ai.line \in BOOLEAN
  /\ aiMem.badSlot \in 0..AiEntries /\ Len(aiDrv.open) <= 2 * AiEntries

Unread == [i \in 1..((ai.ctail + AiSpan - aiDrv.chead) % AiSpan) |->
             ai.comps[(aiDrv.chead + i - 1) % AiEntries]]
Unserved == [i \in 1..((aiDrv.tail + AiSpan - ai.head) % AiSpan) |->
               aiMem.subs[(ai.head + i - 1) % AiEntries]]

\* Every submission is answered once and in order, also when completions are refused and the
\* counters wrap: what the driver waits for is the completions it has not read, then the
\* submissions not consumed.
AnsweredInOrder ==
  aiDrv.open = [i \in DOMAIN Unread |-> Unread[i].num] \o [i \in DOMAIN Unserved |-> Unserved[i].num]

\* A completion says success only if the outputs were stored.
SuccessMeansStored ==
  \A i \in DOMAIN Unread : Unread[i].ok <=> aiDrv.stored[Unread[i].num] > 0

\* Work is done twice only for a submission whose completion could not be written.
StoredTwiceOnlyIfRefused ==
  \A n \in ToSet(aiDrv.open) : aiDrv.stored[n] > 1 => aiMem.badSlot \in Slots

\* A doorbell covers what was pending when it was rung, until a fault takes the budget away or
\* the published tail wraps, which the device reads as an empty queue: nothing is left behind
\* for want of budget.
DoorbellCovers ==
  ~ai.stopped /\ ai.head <= ai.tail =>
    ai.budget + (IF ai.stage = "idle" THEN 0 ELSE 1) >= BoundedDepth(ai.head, aiDrv.rung)

\* An answer does not go unnoticed.
AnswerSignalled ==
  Unread # <<>> => ai.line \/ aiDrv.handling \/ aiDrv.chead < aiDrv.ctail \/ ai.ctail < aiDrv.ctail

\* Every submission gets one true answer, and the driver hears of it.
SubmissionsAnswered ==
  /\ AiTypeOK /\ AnsweredInOrder /\ SuccessMeansStored /\ StoredTwiceOnlyIfRefused
  /\ DoorbellCovers /\ AnswerSignalled
=============================================================================
