--------------------------- MODULE DebugCliSession ---------------------------
(***************************************************************************)
(* One session of the debug server with its child process                  *)
(* (frontend/server/debug_cli_session.mjs, src/debug/debug_protocol.cpp).  *)
(* Commands and replies are lines of two pipes and carry no id: a reply    *)
(* belongs to the request that has waited longest.  The child answers each *)
(* command with one line; the first command it cannot perform is answered  *)
(* with an error, and ends it.                                             *)
(***************************************************************************)
EXTENDS Naturals, Sequences, SequencesExt

CONSTANT MaxRequests   \* bound: requests ever made

ASSUME CliAssumption == MaxRequests \in Nat

VARIABLES
  cliPending,  \* this.pending, the requests that wait for a reply
  cliState,    \* made: requests so far; available: no unavailableError yet;
               \* closing: closePromise is set
  cliChild,    \* running; in and out: the lines on their way, a request's number each;
               \* bad: the one it could not perform, if any
  cliOutcome   \* of each request made: "waiting", "rejected" or the number on its reply

cliVars == <<cliPending, cliState, cliChild, cliOutcome>>

Requests == 1..MaxRequests

CliInit ==
  /\ cliPending = <<>> /\ cliState = [made |-> 0, available |-> TRUE, closing |-> FALSE]
  /\ cliChild = [running |-> TRUE, in |-> <<>>, out |-> <<>>]
  /\ cliOutcome = [r \in Requests |-> 0]

\* Outcomes that are no reply.
Waiting == 0
Rejected == MaxRequests + 1

\* Mutant: only the request that ran out of time is given up, and the session goes on.
TornDownAlone(reason) ==
  /\ cliPending' = SelectSeq(cliPending, LAMBDA r : r # reason)
  /\ cliOutcome' = [r \in Requests |-> IF r = reason THEN Rejected ELSE cliOutcome[r]]
  /\ UNCHANGED cliState

\* teardown, for a request that ran out of time or (0) the end of the child: the session is
\* unavailable from now on, and whoever waits is rejected.
TornDown(reason) ==
  /\ cliPending' = <<>>
  /\ cliOutcome' = [r \in Requests |-> IF r \in ToSet(cliPending) THEN Rejected ELSE cliOutcome[r]]
  /\ cliState' = [cliState EXCEPT !.available = FALSE]

\* Mutant: a request that was never sent keeps its place.
UnsentStays(r) == cliPending' = Append(cliPending, r)

Unsent(r) == UNCHANGED cliPending

\* send: refused by an unavailable session; the write may throw.
Send ==
  /\ cliState.made < MaxRequests
  /\ LET r == cliState.made + 1
     IN  /\ cliState' = [cliState EXCEPT !.made = r]
         /\ \/ /\ cliState.available
               /\ cliPending' = Append(cliPending, r)
               /\ cliChild' = [cliChild EXCEPT !.in = Append(@, r)]
               /\ UNCHANGED cliOutcome
            \/ /\ cliState.available /\ Unsent(r)
               /\ cliOutcome' = [cliOutcome EXCEPT ![r] = Rejected]
               /\ UNCHANGED cliChild
            \/ /\ ~cliState.available
               /\ cliOutcome' = [cliOutcome EXCEPT ![r] = Rejected]
               /\ UNCHANGED <<cliPending, cliChild>>

\* The timer of a request that waits; the child is told to end.
Timeout(r) ==
  /\ r \in ToSet(cliPending) /\ cliState.available
  /\ TornDown(r)
  /\ UNCHANGED cliChild

\* run_debug_cli: the next command is answered; after an error the child is gone.
ChildAnswers(ok) ==
  /\ cliChild.running /\ cliChild.in # <<>>
  /\ cliChild' = [cliChild EXCEPT !.in = Tail(@), !.out = Append(@, Head(cliChild.in)),
                                  !.running = ok]
  /\ UNCHANGED <<cliPending, cliState, cliOutcome>>

\* It is killed, or crashes.
ChildDies ==
  /\ cliChild.running
  /\ cliChild' = [cliChild EXCEPT !.running = FALSE]
  /\ UNCHANGED <<cliPending, cliState, cliOutcome>>

\* flushLines: the oldest request that waits gets the line.  What comes when nobody waits is
\* dropped; lines may come after the child is gone, and after its exit is known.
FlushLine ==
  /\ cliChild.out # <<>>
  /\ cliChild' = [cliChild EXCEPT !.out = Tail(@)]
  /\ IF cliPending = <<>> THEN UNCHANGED <<cliPending, cliOutcome>>
     ELSE /\ cliPending' = Tail(cliPending)
          /\ cliOutcome' = [cliOutcome EXCEPT ![Head(cliPending)] = Head(cliChild.out)]
  /\ UNCHANGED cliState

\* The events exit and close of the child.
ChildExit ==
  /\ ~cliChild.running /\ cliState.available
  /\ TornDown(0) /\ UNCHANGED cliChild

\* close: the last command it is sent is "quit", unless it is killed before it reads that.
CloseSession ==
  /\ ~cliState.closing
  /\ cliPending' = <<>>
  /\ cliOutcome' = [r \in Requests |->
       IF r \in ToSet(cliPending) THEN Rejected ELSE cliOutcome[r]]
  /\ cliState' = [cliState EXCEPT !.available = FALSE, !.closing = TRUE]
  /\ UNCHANGED cliChild

CliNext ==
  \/ Send \/ FlushLine \/ ChildDies \/ ChildExit \/ CloseSession
  \/ \E r \in Requests : Timeout(r)
  \/ \E ok \in BOOLEAN : ChildAnswers(ok)

CliSpec == CliInit /\ [][CliNext]_cliVars

-----------------------------------------------------------------------------
\* A request gets its own reply or none, whatever timed out, failed to be written or came
\* late before it; it waits exactly while it is pending, and the replies on their way are
\* for those that wait, in their order.
RepliesMatched ==
  /\ \A r \in 1..cliState.made : LET o == cliOutcome[r] IN
       /\ o \in {Waiting, r, Rejected}
       /\ o = Waiting <=> r \in ToSet(cliPending)
  /\ cliState.available => IsPrefix(cliChild.out, cliPending)
  /\ cliState.available /\ cliChild.running => cliPending = cliChild.out \o cliChild.in
=============================================================================
