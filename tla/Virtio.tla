------------------------------- MODULE Virtio -------------------------------
(***************************************************************************)
(* The block device behind its split ring (devices/virtqueue.cpp,          *)
(* virtio_mmio.cpp, virtio_blk.cpp).  A store to the notify register       *)
(* serves every available chain before it returns; the device then raises  *)
(* its interrupt.  A chain the device refuses makes that store throw: what *)
(* was served stays served, without an interrupt, and the refused chain    *)
(* stays at the head of the ring.                                          *)
(*                                                                         *)
(* The driver is any guest that follows the protocol: it fills a free      *)
(* slot, notifies, acknowledges, reads what was used, and after a reset    *)
(* clears the rings before it makes the queue ready again.  A chain is its *)
(* head; the device serves it, whatever status byte it writes, or refuses  *)
(* it.  The registers that only say where things are are left out.         *)
(***************************************************************************)
EXTENDS Selection, FiniteSetsExt, SequencesExt

CONSTANTS
  QueueSize,   \* the size the driver sets (kQueueSize is 8)
  IndexSpan    \* the ring indices count modulo this (2^16)

ASSUME VirtioAssumption ==
  /\ QueueSize \in Nat \ {0} /\ IndexSpan \in Nat
  /\ IndexSpan % QueueSize = 0 /\ IndexSpan > QueueSize

VARIABLES
  vq,      \* ready and next_avail_idx_ of the queue; interrupt_status_, and the line to the PLIC
  ring,    \* guest memory: avail and used indices, and the slots they count
  driver   \* open: heads handed over, oldest first; seen; handling; refused; threw

virtioVars == <<vq, ring, driver>>

Heads == 0..(QueueSize - 1)

\* The heads in the slots from one index up to another.
Between(slots, from, to) ==
  [i \in 1..((to + IndexSpan - from) % IndexSpan) |-> slots[(from + i - 1) % QueueSize]]

Available == Between(ring.heads, vq.next, ring.avail)
Unseen == Between(ring.done, driver.seen, ring.used)

-----------------------------------------------------------------------------
EmptyRing == [avail |-> 0, used |-> 0, heads |-> [s \in Heads |-> 0], done |-> [s \in Heads |-> 0]]
IdleDriver == [open |-> <<>>, seen |-> 0, handling |-> FALSE, refused |-> {}, threw |-> FALSE]

VirtioInit ==
  /\ vq = [ready |-> FALSE, next |-> 0, irq |-> FALSE, line |-> FALSE]
  /\ ring = EmptyRing
  /\ driver = IdleDriver

\* The driver clears the rings, writes size and addresses, and makes the queue ready.
SetUpQueue ==
  /\ ~vq.ready
  /\ vq' = [vq EXCEPT !.ready = TRUE, !.next = 0]
  /\ ring' = EmptyRing
  /\ driver' = [IdleDriver EXCEPT !.handling = driver.handling]

\* The driver makes a chain available, well formed or not.
PostRequest(head, wellFormed) ==
  /\ vq.ready /\ head \notin ToSet(driver.open)
  /\ ring' = [ring EXCEPT !.heads[ring.avail % QueueSize] = head,
                !.avail = (@ + 1) % IndexSpan]
  /\ driver' = [driver EXCEPT !.open = Append(@, head),
                  !.refused = IF wellFormed THEN @ \ {head} ELSE @ \cup {head}]
  /\ UNCHANGED vq

\* The chains a notification serves: all up to the first that is refused.
Served ==
  LET bad == {i \in DOMAIN Available : Available[i] \in driver.refused}
  IN  IF bad = {} THEN Available
      ELSE SubSeq(Available, 1, (CHOOSE i \in bad : \A j \in bad : i <= j) - 1)

\* The slots of the used ring after push_used for each of some heads: the last that fell on it.
Pushed(heads) ==
  [s \in Heads |->
     LET here == {k \in DOMAIN heads : (ring.used + k - 1) % QueueSize = s}
     IN  IF here = {} THEN ring.done[s] ELSE heads[Max(here)]]

\* Mutant: the used index is not kept to its width.
PushUsedUnbounded(heads) ==
  [ring EXCEPT !.done = Pushed(heads), !.used = @ + Len(heads)]

\* push_used for each of them.
PushUsed(heads) ==
  [ring EXCEPT !.done = Pushed(heads), !.used = (@ + Len(heads)) % IndexSpan]

\* Mutant: the refused chain is committed, so the next notification starts after it.
NotifySkips ==
  /\ vq.ready /\ Available # <<>>
  /\ ring' = PushUsed(Served)
  /\ vq' = [vq EXCEPT !.next = ring.avail, !.irq = @ \/ Served = Available,
              !.line = @ \/ Served = Available]
  /\ driver' = [driver EXCEPT !.threw = @ \/ Served # Available]

\* Mutant: the interrupt is raised before the line is updated with it.
NotifyQuietly ==
  /\ vq.ready /\ Available # <<>>
  /\ ring' = PushUsed(Served)
  /\ vq' = [vq EXCEPT !.next = (@ + Len(Served)) % IndexSpan,
              !.irq = @ \/ Served = Available, !.line = vq.irq]
  /\ driver' = [driver EXCEPT !.threw = @ \/ Served # Available]

\* The store to QUEUE_NOTIFY: has_pending, pop_chain, process_chain, push_used, commit_chain.
Notify ==
  /\ vq.ready /\ Available # <<>>
  /\ ring' = PushUsed(Served)
  /\ vq' = [vq EXCEPT !.next = (@ + Len(Served)) % IndexSpan,
              !.irq = @ \/ Served = Available, !.line = @ \/ Served = Available]
  /\ driver' = [driver EXCEPT !.threw = @ \/ Served # Available]

\* The handler acknowledges first, then reads every used entry.
Acknowledge ==
  /\ vq.line /\ ~driver.handling
  /\ vq' = [vq EXCEPT !.irq = FALSE, !.line = FALSE]
  /\ driver' = [driver EXCEPT !.handling = TRUE]
  /\ UNCHANGED ring

ReadUsed ==
  /\ driver.handling
  /\ driver' = [driver EXCEPT !.handling = FALSE, !.seen = ring.used, !.threw = FALSE,
                  !.open = Selected(@, {i \in DOMAIN @ : @[i] \notin ToSet(Unseen)})]
  /\ UNCHANGED <<vq, ring>>

\* Status 0: reset_transport, also in the middle of requests.
ResetTransport ==
  /\ vq' = [ready |-> FALSE, next |-> 0, irq |-> FALSE, line |-> FALSE]
  /\ UNCHANGED <<ring, driver>>

VirtioNext ==
  \/ SetUpQueue
  \/ \E head \in Heads, wellFormed \in BOOLEAN : PostRequest(head, wellFormed)
  \/ Notify
  \/ Acknowledge
  \/ ReadUsed
  \/ ResetTransport

VirtioSpec == VirtioInit /\ [][VirtioNext]_virtioVars

-----------------------------------------------------------------------------
(* Properties *)

VirtioTypeOK ==
  /\ vq \in [ready : BOOLEAN, next : 0..(IndexSpan - 1), irq : BOOLEAN, line : BOOLEAN]
  /\ ring \in [avail : 0..(IndexSpan - 1), used : 0..(IndexSpan - 1),
               heads : [Heads -> Heads], done : [Heads -> Heads]]
  /\ Len(driver.open) <= QueueSize /\ ToSet(driver.open) \cup driver.refused \subseteq Heads

\* No request is lost, served twice or overtaken, however the indices wrap, notifications
\* fail half way and the queue is reset: what was handed over is what stands in the used ring
\* unread, then what stands in the available ring unserved.
RequestsInOrder == vq.ready => driver.open = Unseen \o Available

\* A served request does not go unnoticed: the line is up, or the handler is about to read
\* the used ring, unless the notification that served it threw.
CompletionSignalled ==
  vq.ready /\ Unseen # <<>> => vq.line \/ driver.handling \/ driver.threw

\* Both, of every request.
RequestsAnswered == VirtioTypeOK /\ RequestsInOrder /\ CompletionSignalled
=============================================================================
