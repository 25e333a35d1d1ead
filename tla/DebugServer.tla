----------------------------- MODULE DebugServer -----------------------------
(***************************************************************************)
(* The debug server's runtime (frontend/server/debug_server_runtime.mjs):  *)
(* the current session, its replacement, the run loop and the terminal.    *)
(* What a request does at once - stop the loop, begin a generation -       *)
(* happens when it is made; the rest of it waits in the queue of session   *)
(* actions, is performed one action at a time, and is interrupted at every *)
(* await, where other requests may be made.                                *)
(*                                                                         *)
(* Generations and run-loop tokens are only compared for equality with the *)
(* current one, so an action carries instead whether its own is still the  *)
(* current one: fresh for its generation, live for its token.  The text a  *)
(* session printed since its reset is known by its length.                 *)
(***************************************************************************)
EXTENDS Naturals, Sequences, FiniteSets, FiniteSetsExt, SequencesExt

CONSTANTS
  MaxSessions,  \* bound: child processes at a time
  MaxActions,   \* bound: actions in the queue
  MaxText       \* bound: text printed since a reset

ASSUME ServerAssumption ==
  MaxSessions \in Nat \ {0, 1} /\ MaxActions \in Nat \ {0} /\ MaxText \in Nat

Ids == 1..MaxSessions

VARIABLES
  srv,       \* session: currentSession, 0 for none; snapOf: the session currentSnapshot is of;
             \* offset: currentTerminalOffset; timer: runTimer is set
  srvQueue,  \* actions: kind, fresh, live
  srvActive, \* the action that is performed: also pc, next and prev (sessions), from (offset)
  children,  \* of each child process: alive, out
  srvSeen    \* history; of, upto: what the browsers' terminal shows; torn: text came twice or
             \* out of order; aborted: an action ended between a change of the terminal's
             \* state and its broadcast; quiet: the last of run and pause
             \* that was asked for, if it was pause

serverVars == <<srv, srvQueue, srvActive, children, srvSeen>>

Idle == [kind |-> "idle", fresh |-> TRUE, live |-> FALSE, pc |-> "none", next |-> 0, prev |-> 0,
         from |-> 0]

ServerInit ==
  /\ srv = [session |-> 0, snapOf |-> 0, offset |-> 0, timer |-> FALSE]
  /\ srvQueue = <<>> /\ srvActive = Idle
  /\ children = [id \in Ids |-> [alive |-> FALSE, out |-> 0]]
  /\ srvSeen = [of |-> 0, upto |-> 0, torn |-> FALSE, aborted |-> FALSE,
                quiet |-> "no"]

-----------------------------------------------------------------------------
(* Requests *)

Renewing == {"load", "reset", "terminate"}               \* call beginSessionGeneration
Stopping == Renewing \cup {"debug", "pause"}             \* call stopRunLoop
RequestKinds == Stopping \cup {"snapshot", "step", "run", "input"}
NeedsSession == RequestKinds \ {"load", "pause"}                \* call requireSessionLoaded

\* What beginSessionGeneration and stopRunLoop do to the actions in flight.
Outdated(a, kind) ==
  [a EXCEPT !.fresh = @ /\ kind \notin Renewing, !.live = @ /\ kind \notin Stopping]

Request(kind) ==
  /\ Len(srvQueue) < MaxActions
  /\ srvQueue' = Append([i \in DOMAIN srvQueue |-> Outdated(srvQueue[i], kind)],
                        [kind |-> kind, fresh |-> TRUE, live |-> FALSE])
  /\ srvActive' = IF srvActive = Idle THEN Idle ELSE Outdated(srvActive, kind)
  /\ srv' = [srv EXCEPT !.timer = @ /\ kind \notin Stopping]
  /\ srvSeen' = [srvSeen EXCEPT !.quiet =
                   CASE kind = "pause" -> "asked" [] kind = "run" -> "no" [] OTHER -> @]
  /\ UNCHANGED children

\* The timer of the run loop fires and queues a tick.
TimerFires ==
  /\ srv.timer
  /\ srv' = [srv EXCEPT !.timer = FALSE]
  /\ srvQueue' = Append(srvQueue, [kind |-> "tick", fresh |-> TRUE, live |-> TRUE])
  /\ UNCHANGED <<srvActive, children, srvSeen>>

-----------------------------------------------------------------------------
(* What the browsers are told *)

\* A terminal message with reset.
ShownAnew(seen, id, upto) ==
  [seen EXCEPT !.of = id, !.upto = upto, !.torn = FALSE, !.aborted = FALSE]

\* Text of session id from one offset to another; none is sent if there is none.
Shown(seen, id, from, to) ==
  [seen EXCEPT !.upto = IF to > from THEN to ELSE @,
               !.torn = @ \/ (to > from /\ ~seen.aborted /\ ~(seen.of = id /\ seen.upto = from))]

-----------------------------------------------------------------------------
(* Actions *)

Done == srvActive' = Idle
Awaits(a, pc) == srvActive' = [a EXCEPT !.pc = pc]

\* assertGeneration and requireSessionLoaded.
Refused(a) ==
  \/ ~a.fresh /\ a.kind # "pause"
  \/ a.kind \in NeedsSession /\ srv.session = 0

UnusedIds == {id \in Ids : ~children[id].alive /\ id # srv.session}

\* Mutant: the loop that runs already is not stopped.
StartRunLoopBeside ==
  /\ srv' = [srv EXCEPT !.timer = TRUE]
  /\ srvQueue' = Tail(srvQueue)

\* startRunLoop: ticks of another loop that wait in the queue no longer count.
StartRunLoop ==
  /\ srv' = [srv EXCEPT !.timer = TRUE]
  /\ srvQueue' = [i \in DOMAIN Tail(srvQueue) |-> [Tail(srvQueue)[i] EXCEPT !.live = FALSE]]

\* The next action begins, and goes on to its first await if it has any.
Begin ==
  /\ srvActive = Idle /\ srvQueue # <<>>
  /\ LET h == Head(srvQueue)
         a == [Idle EXCEPT !.kind = h.kind, !.fresh = h.fresh, !.live = h.live]
     IN  IF Refused(a) \/ (h.kind = "tick" /\ ~h.live)
         THEN srvQueue' = Tail(srvQueue) /\ UNCHANGED <<srv, srvActive, children, srvSeen>>
         ELSE CASE h.kind = "pause" ->
                     /\ srvSeen' = [srvSeen EXCEPT !.quiet = IF @ = "asked" THEN "answered" ELSE @]
                     /\ srvQueue' = Tail(srvQueue) /\ UNCHANGED <<srv, srvActive, children>>
                [] h.kind = "run" ->
                     StartRunLoop /\ UNCHANGED <<srvActive, children, srvSeen>>
                [] h.kind = "load" ->
                     /\ UnusedIds # {}
                     /\ srvActive' = [a EXCEPT !.pc = "init", !.next = Min(UnusedIds)]
                     /\ children' = [children EXCEPT ![Min(UnusedIds)] = [alive |-> TRUE, out |-> 0]]
                     /\ srvQueue' = Tail(srvQueue) /\ UNCHANGED <<srv, srvSeen>>
                [] h.kind = "terminate" ->
                     /\ srv' = [srv EXCEPT !.session = 0, !.snapOf = 0, !.offset = 0]
                     /\ srvSeen' = ShownAnew(srvSeen, 0, 0)
                     /\ srvActive' = [a EXCEPT !.pc = "closing", !.prev = srv.session]
                     /\ srvQueue' = Tail(srvQueue) /\ UNCHANGED children
                [] OTHER ->
                     /\ Awaits(a, "call")
                     /\ srvQueue' = Tail(srvQueue) /\ UNCHANGED <<srv, children, srvSeen>>

\* load: createSession and initializeSessionState have succeeded.  If another generation has
\* begun the new session is closed again, otherwise it replaces the current one.
Install ==
  /\ srvActive.pc = "init"
  /\ \E out \in children[srvActive.next].out..MaxText :
       IF srvActive.fresh
       THEN /\ children' = [children EXCEPT ![srvActive.next].out = out]
            /\ srv' = [srv EXCEPT !.session = srvActive.next, !.snapOf = srvActive.next,
                                  !.offset = out]
            /\ srvSeen' = ShownAnew(srvSeen, srvActive.next, out)
            /\ IF srv.session = 0 THEN Done
               ELSE srvActive' = [srvActive EXCEPT !.pc = "closing", !.prev = srv.session,
                                                   !.next = 0]
       ELSE /\ srvActive' = [srvActive EXCEPT !.pc = "closing", !.prev = srvActive.next,
                                              !.next = 0]
            /\ UNCHANGED <<srv, children, srvSeen>>
  /\ UNCHANGED srvQueue

\* Mutant: a session that could not be initialized is forgotten.
InitFailsForgets == srvActive.pc = "init" /\ Done /\ UNCHANGED <<srv, srvQueue, children, srvSeen>>

InitFails ==
  /\ srvActive.pc = "init"
  /\ srvActive' = [srvActive EXCEPT !.pc = "closing", !.prev = srvActive.next, !.next = 0]
  /\ UNCHANGED <<srv, srvQueue, children, srvSeen>>

\* The session that load or terminate replaced, or load gave up, has been closed.
SessionClosed ==
  /\ srvActive.pc = "closing" /\ Done
  /\ children' = [children EXCEPT ![srvActive.prev].alive = FALSE]
  /\ UNCHANGED <<srv, srvQueue, srvSeen>>

-----------------------------------------------------------------------------
\* The current session performs a command and prints up to one piece of text.
Performs(id, printed) ==
  /\ children[id].alive /\ children[id].out + printed <= MaxText
  /\ children' = [children EXCEPT ![id].out = @ + printed]

\* stepCycle, stepCommit, snapshot, debugCommand and the tick: the first reply.
Stepped ==
  /\ srvActive.pc = "call" /\ srvActive.kind \in {"step", "tick", "snapshot", "debug"}
  /\ \E printed \in 0..1 :
       /\ srvActive.kind \in {"snapshot", "debug"} => printed = 0
       /\ Performs(srv.session, printed)
  /\ srv' = [srv EXCEPT !.snapOf = srv.session]
  /\ IF srvActive.fresh /\ srvActive.kind \in {"step", "tick"}
     THEN Awaits(srvActive, "terminal") ELSE Done
  /\ UNCHANGED <<srvQueue, srvSeen>>

\* The end of a tick: the loop goes on unless it was stopped or the guest halted.
Rescheduled(a, halted) == a.kind = "tick" /\ a.live /\ a.fresh /\ ~halted

\* Mutant: the whole text is read again.
ReadFromStart == 0

\* uartOutput: from the offset, if there is as much.
ReadFrom == IF srv.offset < children[srv.session].out THEN srv.offset ELSE children[srv.session].out

\* syncTerminalDelta with broadcast.
TerminalRead ==
  /\ srvActive.pc = "terminal" /\ Performs(srv.session, 0)
  /\ LET to == children[srv.session].out
     IN  IF srvActive.fresh
         THEN /\ srvSeen' = Shown(srvSeen, srv.session, ReadFrom, to)
              /\ \E halted \in BOOLEAN :
                   srv' = [srv EXCEPT !.offset = to,
                                      !.timer = @ \/ Rescheduled(srvActive, halted)]
         ELSE UNCHANGED <<srv, srvSeen>>
  /\ Done /\ UNCHANGED srvQueue

\* reset: the session has started again.  An outdated action ends here, before the terminal's
\* offset follows.
ResetPerformed ==
  /\ srvActive.pc = "call" /\ srvActive.kind = "reset" /\ children[srv.session].alive
  /\ children' = [children EXCEPT ![srv.session].out = 0]
  /\ srv' = [srv EXCEPT !.snapOf = srv.session, !.offset = IF srvActive.fresh THEN 0 ELSE @]
  /\ srvSeen' = [srvSeen EXCEPT !.aborted = @ \/ ~srvActive.fresh]
  /\ IF srvActive.fresh THEN Awaits(srvActive, "reread") ELSE Done
  /\ UNCHANGED srvQueue

\* Perhaps after it reached its prompt again, all its text is read.
ResetRead ==
  /\ srvActive.pc = "reread"
  /\ \E printed \in 0..1 :
       /\ Performs(srv.session, printed)
       /\ IF srvActive.fresh
          THEN /\ srv' = [srv EXCEPT !.offset = children[srv.session].out + printed]
               /\ srvSeen' = ShownAnew(srvSeen, srv.session, children[srv.session].out + printed)
          ELSE /\ srvSeen' = [srvSeen EXCEPT !.aborted = TRUE]
               /\ UNCHANGED srv
  /\ Done /\ UNCHANGED srvQueue

\* terminalInput: the text is there; how its echo is waited for depends on whether a timer is
\* set at this moment.
InputTaken ==
  /\ srvActive.pc = "call" /\ srvActive.kind = "input" /\ Performs(srv.session, 0)
  /\ IF ~srvActive.fresh THEN Done
     ELSE \/ Awaits(srvActive, "terminal")
          \/ /\ ~srv.timer
             /\ \E pc \in {"wait", "advance"} :
                  srvActive' = [srvActive EXCEPT !.pc = pc, !.from = ReadFrom]
  /\ UNCHANGED <<srv, srvQueue, srvSeen>>

\* runUntilNewUartContains and a snapshot; the generation is not asked for.
InputWaited ==
  /\ srvActive.pc = "wait"
  /\ \E printed \in 0..1 :
       /\ Performs(srv.session, printed)
       /\ LET to == children[srv.session].out + printed
          IN  /\ srv' = [srv EXCEPT !.offset = to, !.snapOf = srv.session]
              /\ srvSeen' = Shown(srvSeen, srv.session, srvActive.from, to)
  /\ Done /\ UNCHANGED srvQueue

\* advanceUntilTerminalActivity: a commit, and the text so far; at the end all of it is shown.
InputAdvanced ==
  /\ srvActive.pc = "advance"
  /\ \E printed \in 0..1 :
       /\ Performs(srv.session, printed)
       /\ LET to == children[srv.session].out + printed
          IN  IF ~srvActive.fresh
              THEN /\ srv' = [srv EXCEPT !.snapOf = srv.session]
                   /\ srvSeen' = [srvSeen EXCEPT !.aborted = TRUE]
                   /\ Done
              ELSE /\ srv' = [srv EXCEPT !.offset = to, !.snapOf = srv.session]
                   /\ \/ UNCHANGED <<srvActive, srvSeen>>
                      \/ srvSeen' = Shown(srvSeen, srv.session, srvActive.from, to) /\ Done
  /\ UNCHANGED srvQueue

\* A command fails: refused by the child, which ends; out of time, whereupon it is killed; or
\* not written.  The action is over, and the run loop if it was a tick.
CommandFails ==
  /\ srvActive.pc \in {"call", "terminal", "reread", "wait", "advance"}
  /\ \E alive \in {FALSE, children[srv.session].alive} :
       children' = [children EXCEPT ![srv.session].alive = alive]
  /\ srvSeen' = [srvSeen EXCEPT !.aborted = @ \/ srvActive.pc \in {"reread", "advance"}]
  /\ srv' = [srv EXCEPT !.timer = @ /\ srvActive.kind # "tick"]
  /\ Done /\ UNCHANGED srvQueue

\* A child ends by itself; its session stays the current one.
ChildEnds(id) ==
  /\ children[id].alive /\ id = srv.session
  /\ children' = [children EXCEPT ![id].alive = FALSE]
  /\ UNCHANGED <<srv, srvQueue, srvActive, srvSeen>>

ServerNext ==
  \/ \E kind \in RequestKinds : Request(kind)
  \/ TimerFires \/ Begin
  \/ Install \/ InitFails \/ SessionClosed
  \/ Stepped \/ TerminalRead \/ ResetPerformed \/ ResetRead
  \/ InputTaken \/ InputWaited \/ InputAdvanced \/ CommandFails
  \/ \E id \in Ids : ChildEnds(id)

ServerSpec == ServerInit /\ [][ServerNext]_serverVars

-----------------------------------------------------------------------------
(* Properties *)

Loops ==
  Cardinality({i \in DOMAIN srvQueue : srvQueue[i].live})
    + (IF srvActive.live THEN 1 ELSE 0) + (IF srv.timer THEN 1 ELSE 0)

\* Every child that is alive is the current session's, or in the hands of the action that
\* makes or closes it.
NoChildForgotten ==
  {id \in Ids : children[id].alive} \subseteq {srv.session, srvActive.next, srvActive.prev}

\* The browsers' terminal shows the current session's text up to the server's offset, each
\* piece once and in order, unless an action was cut off in the middle and nothing reset the
\* terminal since.
TerminalInOrder ==
  /\ ~srvSeen.torn
  /\ srvActive = Idle /\ ~srvSeen.aborted =>
       srvSeen.of = srv.session /\ srvSeen.upto = srv.offset

\* Whatever is loaded, reset or terminated while other requests wait or are performed, one
\* run loop runs at most, no child is forgotten, the snapshot is the current session's, and
\* the terminal is in order.
ServerSound ==
  /\ Loops <= 1
  /\ NoChildForgotten
  /\ srv.snapOf = srv.session
  /\ TerminalInOrder

\* Once pause has been answered, and until run is asked for again, no run loop goes on.
PausedStaysPaused == srvSeen.quiet = "answered" => Loops = 0
=============================================================================
