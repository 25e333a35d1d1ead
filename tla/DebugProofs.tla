------------------------------ MODULE DebugProofs ------------------------------
(***************************************************************************)
(* Proofs about the debug session and the debug server, for any number of  *)
(* requests, sessions and actions.                                         *)
(*                                                                         *)
(* DebugCliSession: replies carry no id; what makes them match is that the *)
(* requests waiting, the lines the child has not read and the replies      *)
(* nobody has read are one queue cut in two, until the session is torn     *)
(* down and nobody waits.                                                  *)
(*                                                                         *)
(* DebugServer: the run loop is in one place at a time, a request that     *)
(* begins a generation outdates all that came before it, and what the      *)
(* terminal shows is known relative to the offset at every await.          *)
(***************************************************************************)
EXTENDS DebugCliSession, DebugServer, QueueLemmas, FiniteSetTheorems

USE CliAssumption

CliTypes ==
  /\ cliPending \in Seq(Requests)
  /\ cliState \in [made : 0 .. MaxRequests, available : BOOLEAN, closing : BOOLEAN]
  /\ cliChild \in [running : BOOLEAN, in : Seq(Requests), out : Seq(Requests)]
  /\ cliOutcome \in [Requests -> 0 .. MaxRequests + 1]

\* Requests wait once each, those that were made and have no outcome; nobody waits on a
\* session that is unavailable.
WaitersKnown ==
  /\ Distinct(cliPending)
  /\ \A r \in Requests : /\ cliOutcome[r] \in {Waiting, r, Rejected}
                         /\ r > cliState.made => cliOutcome[r] = Waiting
                         /\ r \in ToSet(cliPending) <=> r <= cliState.made /\ cliOutcome[r] = Waiting
  /\ ~cliState.available => cliPending = <<>>

OneQueue ==
  cliState.available =>
    /\ IsPrefix(cliChild.out, cliPending)
    /\ cliChild.running => cliPending = cliChild.out \o cliChild.in

CliInv == CliTypes /\ WaitersKnown /\ OneQueue

LEMMA RequestFacts == /\ Waiting = 0 /\ Rejected = MaxRequests + 1
                      /\ \A r : r \in Requests <=> r \in Nat /\ 1 <= r /\ r <= MaxRequests
BY DEF Waiting, Rejected, Requests

LEMMA InitCliInv == CliInit => CliInv
<1> SUFFICES ASSUME CliInit PROVE CliInv
  OBVIOUS
<1>1. cliPending = <<>> /\ cliState = [made |-> 0, available |-> TRUE, closing |-> FALSE]
      /\ cliChild = [running |-> TRUE, in |-> <<>>, out |-> <<>>] /\ cliOutcome = [r \in Requests |-> 0]
  BY DEF CliInit
<1>2. <<>> \in Seq(Requests)
  OBVIOUS
<1>3. ToSet(<<>>) = {} /\ Distinct(<<>>) /\ IsPrefix(<<>>, <<>> \o <<>>)
  BY <1>2, QueueSet, PrefixConcat
<1>4. CliTypes
  BY <1>1, <1>2 DEF CliTypes
<1>5. WaitersKnown
  BY <1>1, <1>3, RequestFacts DEF WaitersKnown
<1>6. OneQueue
  BY <1>1, <1>2, <1>3 DEF OneQueue
<1> QED BY <1>4, <1>5, <1>6 DEF CliInv

LEMMA SendPreserves == CliInv /\ Send => CliInv'
<1> SUFFICES ASSUME CliInv, Send PROVE CliInv'
  OBVIOUS
<1> DEFINE r == cliState.made + 1
<1>0. CliTypes /\ WaitersKnown /\ OneQueue
  BY DEF CliInv
<1>m. /\ cliState.made \in Nat /\ cliState.made < MaxRequests
      /\ cliState.available \in BOOLEAN /\ cliState.closing \in BOOLEAN
      /\ cliState' = [made |-> r, available |-> cliState.available, closing |-> cliState.closing]
  <2>1. cliState \in [made : 0 .. MaxRequests, available : BOOLEAN, closing : BOOLEAN]
    BY <1>0 DEF CliTypes
  <2>2. cliState.made < MaxRequests /\ cliState' = [cliState EXCEPT !.made = r]
    BY DEF Send
  <2> HIDE DEF r
  <2> QED BY <2>1, <2>2
<1>1. r \in Requests /\ r \notin ToSet(cliPending) /\ cliOutcome[r] = Waiting
  <2>1. r \in Requests /\ r > cliState.made /\ ~(r <= cliState.made)
    BY <1>m, RequestFacts
  <2> QED BY <1>0, <2>1 DEF WaitersKnown
<1>2. /\ cliState' \in [made : 0 .. MaxRequests, available : BOOLEAN, closing : BOOLEAN]
      /\ \A q \in Requests : q <= r <=> q <= cliState.made \/ q = r
  <2>1. r \in 0 .. MaxRequests
    BY <1>m
  <2> QED BY <1>m, <2>1, RequestFacts
<1>3. CASE /\ cliState.available
           /\ cliPending' = Append(cliPending, r)
           /\ cliChild' = [cliChild EXCEPT !.in = Append(@, r)]
           /\ UNCHANGED cliOutcome
  <2>1. /\ cliChild' = [running |-> cliChild.running, in |-> Append(cliChild.in, r), out |-> cliChild.out]
        /\ cliChild.in \in Seq(Requests) /\ cliChild.out \in Seq(Requests)
        /\ cliPending \in Seq(Requests)
    BY <1>0, <1>3 DEF CliTypes
  <2>2. ToSet(cliPending') = ToSet(cliPending) \cup {r} /\ Distinct(cliPending')
    BY <1>0, <1>1, <1>3, <2>1, AppendSet DEF WaitersKnown
  <2>s. Append(cliChild.in, r) \in Seq(Requests) /\ Append(cliPending, r) \in Seq(Requests)
    BY <1>1, <2>1, AppendProperties
  <2>3. CliTypes'
    BY <1>0, <1>1, <1>2, <1>3, <2>1, <2>s DEF CliTypes
  <2>4. WaitersKnown'
    <3>1. \A q \in Requests : q \in ToSet(cliPending') <=> q <= r /\ cliOutcome[q] = Waiting
      BY <1>0, <1>1, <1>2, <2>2 DEF WaitersKnown
    <3>2. \A q \in Requests : q > r => q > cliState.made
      BY <1>m, RequestFacts
    <3> QED BY <1>0, <1>1, <1>m, <1>3, <2>2, <3>1, <3>2 DEF WaitersKnown
  <2>5. OneQueue'
    <3>1. IsPrefix(cliChild.out, Append(cliPending, r))
      BY <1>0, <1>1, <1>3, <2>1, PrefixAppend DEF OneQueue
    <3>2. ASSUME cliPending = cliChild.out \o cliChild.in
          PROVE  Append(cliPending, r) = cliChild.out \o Append(cliChild.in, r)
      <4>1. Cut(cliPending, cliChild.out, cliChild.in)
        BY <3>2 DEF Cut
      <4>2. Cut(Append(cliPending, r), cliChild.out, Append(cliChild.in, r))
        BY <1>1, <2>1, <4>1, AppendCut
      <4> QED BY <4>2 DEF Cut
    <3> QED BY <1>0, <1>m, <1>3, <2>1, <3>1, <3>2 DEF OneQueue
  <2> QED BY <2>3, <2>4, <2>5 DEF CliInv
<1>4. CASE /\ UNCHANGED <<cliPending, cliChild>>
           /\ cliOutcome' = [cliOutcome EXCEPT ![r] = Rejected]
  <2>1. CliTypes'
    BY <1>0, <1>1, <1>2, <1>4, RequestFacts DEF CliTypes
  <2>2. WaitersKnown'
    <3>1. \A q \in Requests : cliOutcome'[q] = IF q = r THEN Rejected ELSE cliOutcome[q]
      BY <1>0, <1>4 DEF CliTypes
    <3>2. Rejected # Waiting
      BY RequestFacts
    <3>3. \A q \in Requests : q \in ToSet(cliPending') <=> q <= r /\ cliOutcome'[q] = Waiting
      BY <1>0, <1>1, <1>2, <1>4, <3>1, <3>2 DEF WaitersKnown
    <3>4. \A q \in Requests : q > r => q > cliState.made /\ q # r
      BY <1>m, RequestFacts
    <3> QED BY <1>0, <1>1, <1>m, <1>4, <3>1, <3>3, <3>4 DEF WaitersKnown
  <2>3. OneQueue'
    BY <1>0, <1>m, <1>4 DEF OneQueue
  <2> QED BY <2>1, <2>2, <2>3 DEF CliInv
<1> QED BY <1>3, <1>4 DEF Send, Unsent

\* A session that is torn down rejects whoever waits: nobody is left for a late reply.
LEMMA TeardownPreserves ==
  ASSUME CliInv, cliPending' = <<>>, UNCHANGED cliChild,
         cliOutcome' = [r \in Requests |->
                          IF r \in ToSet(cliPending) THEN Rejected ELSE cliOutcome[r]],
         NEW closing \in BOOLEAN,
         cliState' = [made |-> cliState.made, available |-> FALSE, closing |-> closing]
  PROVE  CliInv'
<1>0. CliTypes /\ WaitersKnown
  BY DEF CliInv
<1>1. <<>> \in Seq(Requests)
  OBVIOUS
<1>2. ToSet(<<>>) = {} /\ Distinct(<<>>)
  BY <1>1, QueueSet
<1>3. CliTypes'
  BY <1>0, <1>1, RequestFacts DEF CliTypes
<1>4. WaitersKnown'
  <2>1. \A r \in Requests : cliOutcome'[r] = IF r \in ToSet(cliPending) THEN Rejected ELSE cliOutcome[r]
    OBVIOUS
  <2>2. Rejected # Waiting
    BY RequestFacts
  <2>3. \A r \in Requests : r > cliState.made => r \notin ToSet(cliPending)
    BY <1>0, RequestFacts DEF WaitersKnown, CliTypes
  <2> QED BY <1>0, <1>2, <2>1, <2>2, <2>3 DEF WaitersKnown
<1>5. OneQueue'
  BY DEF OneQueue
<1> QED BY <1>3, <1>4, <1>5 DEF CliInv

LEMMA ChildPreserves ==
  ASSUME CliInv, ChildDies \/ \E ok \in BOOLEAN : ChildAnswers(ok)
  PROVE  CliInv'
<1>0. /\ CliTypes /\ WaitersKnown /\ OneQueue
      /\ cliChild.in \in Seq(Requests) /\ cliChild.out \in Seq(Requests)
  BY DEF CliInv, CliTypes
<1>1. CASE ChildDies
  <2>1. cliChild' = [running |-> FALSE, in |-> cliChild.in, out |-> cliChild.out]
        /\ UNCHANGED <<cliPending, cliState, cliOutcome>>
    BY <1>0, <1>1 DEF ChildDies, CliTypes
  <2> QED BY <1>0, <2>1 DEF CliInv, CliTypes, WaitersKnown, OneQueue
<1>2. CASE \E ok \in BOOLEAN : ChildAnswers(ok)
  <2> DEFINE out == Append(cliChild.out, Head(cliChild.in))
             in == Tail(cliChild.in)
  <2>1. PICK ok \in BOOLEAN : ChildAnswers(ok)
    BY <1>2
  <2>2. /\ cliChild' = [running |-> ok, in |-> in, out |-> out] /\ cliChild.running
        /\ UNCHANGED <<cliPending, cliState, cliOutcome>>
    BY <1>0, <2>1 DEF ChildAnswers, CliTypes
  <2>q. cliChild.in # <<>>
    BY <2>1 DEF ChildAnswers
  <2>3. out \in Seq(Requests) /\ in \in Seq(Requests) /\ cliChild.out \o cliChild.in = out \o in
    BY ONLY <1>0, <2>q, MoveHead
  <2> HIDE DEF out, in
  <2>4. IsPrefix(out, out \o in)
    BY <2>3, PrefixConcat
  <2>5. OneQueue'
    BY <1>0, <2>2, <2>3, <2>4 DEF OneQueue
  <2> QED BY <1>0, <2>2, <2>3, <2>5 DEF CliInv, CliTypes, WaitersKnown
<1> QED BY <1>1, <1>2

LEMMA FlushPreserves == CliInv /\ FlushLine => CliInv'
<1> SUFFICES ASSUME CliInv, FlushLine PROVE CliInv'
  OBVIOUS
<1>0. /\ CliTypes /\ WaitersKnown /\ OneQueue /\ cliPending \in Seq(Requests)
      /\ cliChild.in \in Seq(Requests) /\ cliChild.out \in Seq(Requests) /\ cliChild.out # <<>>
  BY DEF CliInv, CliTypes, FlushLine
<1>1. /\ cliChild' = [running |-> cliChild.running, in |-> cliChild.in, out |-> Tail(cliChild.out)]
      /\ cliState' = cliState
  BY <1>0 DEF FlushLine, CliTypes
<1>2. Tail(cliChild.out) \in Seq(Requests) /\ Head(cliChild.out) \in Requests
  BY <1>0
<1>3. CASE cliPending = <<>>
  <2>1. UNCHANGED <<cliPending, cliOutcome>>
    BY <1>3 DEF FlushLine
  <2>2. ~cliState.available
    BY <1>0, <1>3, PrefixTail DEF OneQueue
  <2> QED BY <1>0, <1>1, <1>2, <2>1, <2>2 DEF CliInv, CliTypes, WaitersKnown, OneQueue
<1>4. CASE cliPending # <<>>
  <2> DEFINE r == Head(cliPending)
             rest == Tail(cliPending)
  <2>1. cliPending' = rest /\ cliOutcome' = [cliOutcome EXCEPT ![r] = Head(cliChild.out)]
    BY <1>4 DEF FlushLine
  <2>2. cliState.available
    BY <1>0, <1>4 DEF WaitersKnown
  <2>3. Head(cliChild.out) = r /\ IsPrefix(Tail(cliChild.out), rest)
    BY <1>0, <2>2, PrefixTail DEF OneQueue
  <2>4. /\ rest \in Seq(Requests) /\ ToSet(cliPending) = {r} \cup ToSet(rest)
        /\ Distinct(rest) /\ r \notin ToSet(rest)
    BY <1>0, <1>4, TailSet DEF WaitersKnown
  <2>5. ASSUME cliPending = cliChild.out \o cliChild.in
        PROVE  rest = Tail(cliChild.out) \o cliChild.in
    BY <1>0, <2>5, TailConcat
  <2>6. r \in Requests
    BY <1>2, <2>3
  <2> HIDE DEF r, rest
  <2>7. \A q \in Requests : cliOutcome'[q] = IF q = r THEN r ELSE cliOutcome[q]
    BY <1>0, <2>1, <2>3 DEF CliTypes
  <2>8. CliTypes'
    BY <1>0, <1>1, <1>2, <2>1, <2>3, <2>4, <2>6, RequestFacts DEF CliTypes
  <2>9. WaitersKnown'
    <3>1. r # Waiting /\ r <= cliState.made
      BY <1>0, <2>4, <2>6, RequestFacts DEF WaitersKnown
    <3>2. \A q \in Requests : q > cliState.made => q # r
      BY <1>0, <3>1, RequestFacts DEF CliTypes
    <3> QED BY <1>0, <1>1, <2>1, <2>2, <2>4, <2>7, <3>1, <3>2 DEF WaitersKnown
  <2>10. OneQueue'
    BY <1>0, <1>1, <2>1, <2>3, <2>5 DEF OneQueue
  <2> QED BY <2>8, <2>9, <2>10 DEF CliInv
<1> QED BY <1>3, <1>4

LEMMA NextCliInv == CliInv /\ [CliNext]_cliVars => CliInv'
<1> SUFFICES ASSUME CliInv, [CliNext]_cliVars PROVE CliInv'
  OBVIOUS
<1>0. cliState = [made |-> cliState.made, available |-> cliState.available, closing |-> cliState.closing]
      /\ cliState.closing \in BOOLEAN
  BY DEF CliInv, CliTypes
<1>1. CASE Send
  BY <1>1, SendPreserves
<1>2. CASE FlushLine
  BY <1>2, FlushPreserves
<1>3. CASE ChildDies \/ \E ok \in BOOLEAN : ChildAnswers(ok)
  BY <1>3, ChildPreserves
<1>4. CASE ChildExit \/ \E r \in Requests : Timeout(r)
  <2>1. cliState' = [made |-> cliState.made, available |-> FALSE, closing |-> cliState.closing]
    BY <1>0, <1>4 DEF ChildExit, Timeout, TornDown
  <2> QED BY <1>0, <1>4, <2>1, TeardownPreserves DEF ChildExit, Timeout, TornDown
<1>5. CASE CloseSession
  <2>1. cliState' = [made |-> cliState.made, available |-> FALSE, closing |-> TRUE]
    BY <1>0, <1>5 DEF CloseSession
  <2> QED BY <1>5, <2>1, TeardownPreserves DEF CloseSession
<1>6. CASE UNCHANGED cliVars
  BY <1>6 DEF cliVars, CliInv, CliTypes, WaitersKnown, OneQueue
<1> QED BY <1>1, <1>2, <1>3, <1>4, <1>5, <1>6 DEF CliNext

LEMMA CliInvMatches == CliInv => RepliesMatched
<1> SUFFICES ASSUME CliInv PROVE RepliesMatched
  OBVIOUS
<1>1. \A r \in 1 .. cliState.made : r \in Requests /\ r <= cliState.made
  <2>1. cliState.made \in Nat /\ cliState.made <= MaxRequests
    BY DEF CliInv, CliTypes
  <2> QED BY <2>1, RequestFacts
<1> QED BY <1>1 DEF CliInv, WaitersKnown, OneQueue, RepliesMatched

\* However requests time out, fail to be written, or are answered by a child that dies or was
\* told to end, DebugCliSession hands nobody a reply that belongs to another request.
THEOREM RepliesAreMatched == CliSpec => []RepliesMatched
BY InitCliInv, NextCliInv, CliInvMatches, PTL DEF CliSpec

-----------------------------------------------------------------------------
(* The debug server *)

Queued == [kind : RequestKinds \cup {"tick"}, fresh : BOOLEAN, live : BOOLEAN]
Commands == {"call", "terminal", "reread", "wait", "advance"}

SrvRecords ==
  [session : 0 .. MaxSessions, snapOf : 0 .. MaxSessions, offset : Nat, timer : BOOLEAN]
ActiveRecords ==
  [kind : RequestKinds \cup {"tick", "idle"}, fresh : BOOLEAN, live : BOOLEAN,
   pc : Commands \cup {"none", "init", "closing"}, next : 0 .. MaxSessions,
   prev : 0 .. MaxSessions, from : Nat]
SeenRecords ==
  [of : 0 .. MaxSessions, upto : Nat, torn : BOOLEAN, aborted : BOOLEAN,
   quiet : {"no", "asked", "answered"}]

ServerTypes ==
  /\ srv \in SrvRecords /\ srvQueue \in Seq(Queued) /\ srvActive \in ActiveRecords
  /\ children \in [Ids -> [alive : BOOLEAN, out : Nat]] /\ srvSeen \in SeenRecords

\* What the action that is performed holds at its await.
ActiveAtAwait ==
  /\ srvActive.pc = "none" => srvActive = Idle
  /\ srvActive.pc \in Commands => srv.session # 0 /\ srvActive.next = 0 /\ srvActive.prev = 0
  /\ srvActive.pc = "init" =>
       srvActive.next \in Ids /\ srvActive.next # srv.session /\ srvActive.prev = 0
  /\ srvActive.pc = "closing" => srvActive.prev \in Ids /\ srvActive.next = 0

\* The current run loop is its timer, the tick in the queue or the tick that is performed.
OneLoop ==
  /\ srv.timer => ~srvActive.live /\ \A i \in 1 .. Len(srvQueue) : ~srvQueue[i].live
  /\ srvActive.live => \A i \in 1 .. Len(srvQueue) : ~srvQueue[i].live
  /\ \A i, j \in 1 .. Len(srvQueue) : srvQueue[i].live /\ srvQueue[j].live => i = j

\* None runs without a session, nor while a request that begins a generation waits: what was
\* made before that request cannot start one either.
LoopHasSession ==
  srv.session = 0 =>
    ~srv.timer /\ ~srvActive.live /\ \A i \in 1 .. Len(srvQueue) : ~srvQueue[i].live

Quietened ==
  \A i \in 1 .. Len(srvQueue) : srvQueue[i].kind \in Renewing =>
    /\ ~srv.timer /\ ~srvActive.live
    /\ srvActive.pc # "none" => ~srvActive.fresh
    /\ \A j \in 1 .. Len(srvQueue) : ~srvQueue[j].live /\ (j < i => ~srvQueue[j].fresh)

\* What the terminal shows, relative to the offset, at each await.
TerminalAtAwait ==
  /\ srv.snapOf = srv.session
  /\ ~srvSeen.torn
  /\ ~srvSeen.aborted =>
       /\ srv.session # 0 => srv.offset <= children[srv.session].out
       /\ srvActive.pc # "reread" => srvSeen.of = srv.session
       /\ srvActive.pc \notin {"reread", "advance"} => srvSeen.upto = srv.offset
       /\ srvActive.pc = "wait" => srvActive.from = srv.offset
       /\ srvActive.pc = "advance" =>
            srvSeen.upto = srvActive.from /\ srvActive.from <= children[srv.session].out

ServerInv ==
  /\ ServerTypes /\ ActiveAtAwait /\ OneLoop /\ LoopHasSession /\ Quietened
  /\ NoChildForgotten /\ TerminalAtAwait

LEMMA ServerConstants ==
  /\ MaxSessions \in Nat /\ MaxSessions > 0 /\ Ids = 1 .. MaxSessions
  /\ \A id : id \in Ids <=> id \in 0 .. MaxSessions /\ id # 0
BY ServerAssumption DEF Ids

LEMMA IdleFacts ==
  /\ Idle \in ActiveRecords
  /\ ~Idle.live /\ Idle.pc = "none" /\ Idle.next = 0 /\ Idle.prev = 0
<1>1. Idle = [kind |-> "idle", fresh |-> TRUE, live |-> FALSE, pc |-> "none", next |-> 0,
              prev |-> 0, from |-> 0]
  BY DEF Idle
<1>2. 0 \in 0 .. MaxSessions
  BY ServerConstants
<1> QED BY <1>1, <1>2 DEF ActiveRecords

LEMMA InitServerInv == ServerInit => ServerInv
<1> SUFFICES ASSUME ServerInit PROVE ServerInv
  OBVIOUS
<1>1. /\ srv = [session |-> 0, snapOf |-> 0, offset |-> 0, timer |-> FALSE]
      /\ srvQueue = <<>> /\ srvActive = Idle
      /\ children = [id \in Ids |-> [alive |-> FALSE, out |-> 0]]
      /\ srvSeen = [of |-> 0, upto |-> 0, torn |-> FALSE, aborted |-> FALSE, quiet |-> "no"]
  BY DEF ServerInit
<1>2. srvQueue \in Seq(Queued) /\ Len(srvQueue) = 0
  BY <1>1
<1>3. ServerTypes /\ ActiveAtAwait
  BY <1>1, <1>2, ServerConstants DEF ServerTypes, ActiveAtAwait, Idle, Commands, SrvRecords,
     ActiveRecords, SeenRecords
<1>4. OneLoop /\ LoopHasSession /\ Quietened
  BY <1>1, <1>2 DEF OneLoop, LoopHasSession, Quietened, Idle
<1>5. NoChildForgotten /\ TerminalAtAwait
  BY <1>1 DEF NoChildForgotten, TerminalAtAwait, Idle
<1> QED BY <1>3, <1>4, <1>5 DEF ServerInv

\* A request outdates what was made before it, as far as its kind says.
LEMMA RequestPreserves ==
  ASSUME ServerInv, NEW kind \in RequestKinds, Request(kind)
  PROVE  ServerInv'
<1> DEFINE q == srvQueue
           n == Len(q)
           new == [kind |-> kind, fresh |-> TRUE, live |-> FALSE]
           old == [i \in DOMAIN q |-> Outdated(q[i], kind)]
<1>0. ServerTypes /\ ActiveAtAwait /\ OneLoop /\ LoopHasSession /\ Quietened
      /\ NoChildForgotten /\ TerminalAtAwait
  BY DEF ServerInv
<1>1. /\ srvQueue' = Append(old, new)
      /\ srvActive' = IF srvActive = Idle THEN Idle ELSE Outdated(srvActive, kind)
      /\ srv' = [srv EXCEPT !.timer = @ /\ kind \notin Stopping]
      /\ srvSeen' = [srvSeen EXCEPT !.quiet =
                       CASE kind = "pause" -> "asked" [] kind = "run" -> "no" [] OTHER -> @]
      /\ children' = children
  BY DEF Request
<1>2. Renewing \subseteq Stopping
  BY DEF Stopping
<1>3. /\ n \in Nat /\ DOMAIN q = 1 .. n /\ \A i \in 1 .. n : q[i] \in Queued
      /\ new \in Queued
  <2>1. new \in Queued
    BY DEF Queued
  <2>2. q \in Seq(Queued)
    BY <1>0 DEF ServerTypes
  <2> QED BY <2>1, <2>2
<1>4. \A i \in 1 .. n :
        /\ Outdated(q[i], kind) \in Queued /\ Outdated(q[i], kind).kind = q[i].kind
        /\ Outdated(q[i], kind).fresh = (q[i].fresh /\ kind \notin Renewing)
        /\ Outdated(q[i], kind).live = (q[i].live /\ kind \notin Stopping)
  BY <1>3 DEF Outdated, Queued
<1>5. old \in Seq(Queued) /\ Len(old) = n
  BY <1>3, <1>4
<1> HIDE DEF new
<1>6. /\ srvQueue' \in Seq(Queued) /\ Len(srvQueue') = n + 1 /\ srvQueue'[n + 1] = new
      /\ \A i \in 1 .. n : /\ srvQueue'[i].kind = q[i].kind
                           /\ srvQueue'[i].fresh = (q[i].fresh /\ kind \notin Renewing)
                           /\ srvQueue'[i].live = (q[i].live /\ kind \notin Stopping)
  <2>1. \A i \in 1 .. n : Append(old, new)[i] = Outdated(q[i], kind)
    BY <1>3, <1>5
  <2> QED BY <1>1, <1>3, <1>4, <1>5, <2>1, AppendProperties
<1> USE DEF new
<1>7. /\ srvActive' \in ActiveRecords
      /\ srvActive'.kind = srvActive.kind /\ srvActive'.pc = srvActive.pc
      /\ srvActive'.next = srvActive.next /\ srvActive'.prev = srvActive.prev
      /\ srvActive'.from = srvActive.from
      /\ srvActive'.live = (srvActive.live /\ kind \notin Stopping)
      /\ srvActive.pc # "none" => srvActive'.fresh = (srvActive.fresh /\ kind \notin Renewing)
      /\ srvActive.pc = "none" => srvActive' = Idle
  <2>1. srvActive \in ActiveRecords
    BY <1>0 DEF ServerTypes
  <2>2. CASE srvActive = Idle
    BY <1>1, <2>1, <2>2 DEF Idle
  <2>3. CASE srvActive # Idle
    <3>1. srvActive' = [srvActive EXCEPT !.fresh = @ /\ kind \notin Renewing,
                                         !.live = @ /\ kind \notin Stopping]
      BY <1>1, <2>3 DEF Outdated
    <3>2. srvActive.pc # "none"
      BY <1>0, <2>3 DEF ActiveAtAwait
    <3> QED BY <2>1, <3>1, <3>2 DEF ActiveRecords
  <2> QED BY <2>2, <2>3
<1>8. /\ srv' \in SrvRecords /\ srvSeen' \in SeenRecords
      /\ srv'.session = srv.session /\ srv'.snapOf = srv.snapOf /\ srv'.offset = srv.offset
      /\ srv'.timer = (srv.timer /\ kind \notin Stopping)
      /\ srvSeen'.of = srvSeen.of /\ srvSeen'.upto = srvSeen.upto
      /\ srvSeen'.torn = srvSeen.torn /\ srvSeen'.aborted = srvSeen.aborted
  BY <1>0, <1>1 DEF ServerTypes, SrvRecords, SeenRecords
<1>9. ServerTypes'
  BY <1>0, <1>1, <1>6, <1>7, <1>8 DEF ServerTypes
<1>10. ActiveAtAwait'
  BY <1>0, <1>7, <1>8 DEF ActiveAtAwait, Idle
<1>16. \A i \in 1 .. Len(srvQueue') :
         \/ /\ i \in 1 .. n /\ srvQueue'[i].kind = q[i].kind
            /\ srvQueue'[i].fresh = (q[i].fresh /\ kind \notin Renewing)
            /\ srvQueue'[i].live = (q[i].live /\ kind \notin Stopping)
         \/ /\ i = n + 1 /\ srvQueue'[i].kind = kind /\ ~srvQueue'[i].live
  BY <1>3, <1>6
<1>11. OneLoop'
  <2> USE <1>8, <1>7, <1>16, <1>3
  <2>1. ASSUME srvActive'.live \/ srv'.timer PROVE \A i \in 1 .. Len(srvQueue') : ~srvQueue'[i].live
    BY <1>0, <2>1 DEF OneLoop
  <2>2. \A i, j \in 1 .. Len(srvQueue') : srvQueue'[i].live /\ srvQueue'[j].live => i = j
    BY <1>0 DEF OneLoop
  <2>3. srv'.timer => ~srvActive'.live
    BY <1>0 DEF OneLoop
  <2> QED BY <2>1, <2>2, <2>3 DEF OneLoop
<1>12. LoopHasSession'
  BY <1>0, <1>3, <1>16, <1>7, <1>8 DEF LoopHasSession
<1>13. Quietened'
  <2> SUFFICES ASSUME NEW i \in 1 .. Len(srvQueue'), srvQueue'[i].kind \in Renewing
      PROVE  /\ ~srv'.timer /\ ~srvActive'.live
             /\ srvActive'.pc # "none" => ~srvActive'.fresh
             /\ \A j \in 1 .. Len(srvQueue') :
                  ~srvQueue'[j].live /\ (j < i => ~srvQueue'[j].fresh)
    BY DEF Quietened
  <2>1. CASE i \in 1 .. n
    <3>1. q[i].kind \in Renewing
      BY <1>16, <2>1, <1>3
    <3>2. /\ ~srv.timer /\ ~srvActive.live
          /\ srvActive.pc # "none" => ~srvActive.fresh
          /\ \A j \in 1 .. n : ~q[j].live /\ (j < i => ~q[j].fresh)
      BY <1>0, <2>1, <3>1 DEF Quietened
    <3>3. ASSUME NEW j \in 1 .. Len(srvQueue')
          PROVE  ~srvQueue'[j].live /\ (j < i => ~srvQueue'[j].fresh)
      <4>1. CASE j \in 1 .. n /\ srvQueue'[j].fresh = (q[j].fresh /\ kind \notin Renewing)
                              /\ srvQueue'[j].live = (q[j].live /\ kind \notin Stopping)
        <5>1. ~q[j].live /\ (j < i => ~q[j].fresh)
          BY <3>2, <4>1
        <5> QED BY ONLY <4>1, <5>1
      <4>2. CASE j = n + 1 /\ ~srvQueue'[j].live
        BY <1>3, <2>1, <4>2
      <4> QED BY <1>16, <4>1, <4>2
    <3>4. ~srv'.timer /\ ~srvActive'.live /\ (srvActive'.pc # "none" => ~srvActive'.fresh)
      BY <1>7, <1>8, <3>2
    <3> QED BY <3>3, <3>4
  <2>2. CASE i = n + 1
    <3>1. kind \in Renewing /\ kind \in Stopping
      BY <1>2, <1>3, <1>16, <2>2
    <3>2. ASSUME NEW j \in 1 .. Len(srvQueue')
          PROVE  ~srvQueue'[j].live /\ (j < i => ~srvQueue'[j].fresh)
      <4>1. CASE j \in 1 .. n /\ srvQueue'[j].fresh = (q[j].fresh /\ kind \notin Renewing)
                              /\ srvQueue'[j].live = (q[j].live /\ kind \notin Stopping)
        BY ONLY <3>1, <4>1
      <4>2. CASE j = n + 1 /\ ~srvQueue'[j].live
        BY <1>3, <2>2, <4>2
      <4> QED BY <1>16, <4>1, <4>2
    <3>3. ~srv'.timer /\ ~srvActive'.live /\ (srvActive'.pc # "none" => ~srvActive'.fresh)
      BY <1>7, <1>8, <3>1
    <3> QED BY <3>2, <3>3
  <2> QED BY <1>16, <2>1, <2>2
<1>14. NoChildForgotten'
  BY <1>0, <1>1, <1>7, <1>8 DEF NoChildForgotten
<1>15. TerminalAtAwait'
  BY <1>0, <1>1, <1>7, <1>8 DEF TerminalAtAwait
<1> QED BY <1>9, <1>10, <1>11, <1>12, <1>13, <1>14, <1>15 DEF ServerInv

LEMMA TimerFiresPreserves == ServerInv /\ TimerFires => ServerInv'
<1> SUFFICES ASSUME ServerInv, TimerFires PROVE ServerInv'
  OBVIOUS
<1> DEFINE q == srvQueue
           n == Len(q)
           new == [kind |-> "tick", fresh |-> TRUE, live |-> TRUE]
<1>0. ServerTypes /\ ActiveAtAwait /\ OneLoop /\ LoopHasSession /\ Quietened
      /\ NoChildForgotten /\ TerminalAtAwait
  BY DEF ServerInv
<1>1. /\ srv.timer /\ srv' = [srv EXCEPT !.timer = FALSE]
      /\ srvQueue' = Append(q, new)
      /\ srvActive' = srvActive /\ children' = children /\ srvSeen' = srvSeen
  BY DEF TimerFires
<1>2. q \in Seq(Queued) /\ new \in Queued /\ n \in Nat
  BY <1>0 DEF ServerTypes, Queued
<1>3. /\ srv' \in SrvRecords /\ ~srv'.timer
      /\ srv'.session = srv.session /\ srv'.snapOf = srv.snapOf /\ srv'.offset = srv.offset
  BY <1>0, <1>1 DEF ServerTypes, SrvRecords
<1> HIDE DEF new
<1>4. /\ srvQueue' \in Seq(Queued) /\ Len(srvQueue') = n + 1
      /\ \A i \in 1 .. n : srvQueue'[i] = q[i]
      /\ srvQueue'[n + 1] = new
  BY <1>1, <1>2, AppendProperties
<1>5. \A i \in 1 .. n : ~q[i].live /\ q[i].kind \notin Renewing
  BY <1>0, <1>1 DEF OneLoop, Quietened
<1> USE DEF new
<1>6. \A i \in 1 .. Len(srvQueue') :
        /\ (i \in 1 .. n /\ ~srvQueue'[i].live) \/ i = n + 1
        /\ srvQueue'[i].kind \notin Renewing
  BY <1>2, <1>4, <1>5 DEF Renewing
<1>7. ~srvActive.live /\ srv.session # 0
  BY <1>0, <1>1 DEF OneLoop, LoopHasSession
<1>8. ServerTypes' /\ ActiveAtAwait'
  BY <1>0, <1>1, <1>3, <1>4 DEF ServerTypes, ActiveAtAwait
<1>9. OneLoop'
  BY <1>1, <1>2, <1>3, <1>6, <1>7 DEF OneLoop
<1>10. LoopHasSession' /\ Quietened'
  BY <1>3, <1>6, <1>7 DEF LoopHasSession, Quietened
<1>11. NoChildForgotten' /\ TerminalAtAwait'
  BY <1>0, <1>1, <1>3 DEF NoChildForgotten, TerminalAtAwait
<1> QED BY <1>8, <1>9, <1>10, <1>11 DEF ServerInv

\* An action goes on: only a live and fresh one that ends sets the timer again.
LEMMA LoopKept ==
  ASSUME ServerInv, UNCHANGED srvQueue,
         srv'.timer => srv.timer \/ (srvActive.live /\ srvActive.fresh /\ srvActive.pc # "none"),
         srv'.timer => ~srvActive'.live,
         srvActive'.live => srvActive.live,
         srvActive'.pc # "none" => srvActive'.fresh = srvActive.fresh /\ srvActive.pc # "none",
         srv'.session = 0 => srv.session = 0
  PROVE  OneLoop' /\ LoopHasSession' /\ Quietened'
<1>0. OneLoop /\ LoopHasSession /\ Quietened
  BY DEF ServerInv
<1>1. OneLoop'
  BY <1>0 DEF OneLoop
<1>2. LoopHasSession'
  BY <1>0 DEF LoopHasSession
<1>3. Quietened'
  <2> SUFFICES ASSUME NEW i \in 1 .. Len(srvQueue), srvQueue[i].kind \in Renewing
      PROVE  /\ ~srv'.timer /\ ~srvActive'.live
             /\ srvActive'.pc # "none" => ~srvActive'.fresh
             /\ \A j \in 1 .. Len(srvQueue) :
                  ~srvQueue[j].live /\ (j < i => ~srvQueue[j].fresh)
    BY DEF Quietened
  <2>1. /\ ~srv.timer /\ ~srvActive.live
        /\ srvActive.pc # "none" => ~srvActive.fresh
        /\ \A j \in 1 .. Len(srvQueue) :
             ~srvQueue[j].live /\ (j < i => ~srvQueue[j].fresh)
    BY <1>0 DEF Quietened
  <2> QED BY <2>1
<1> QED BY <1>1, <1>2, <1>3

\* A session that load gave up is the action's to close.
LEMMA GivenUpPreserves ==
  ASSUME ServerInv, srvActive.pc = "init", UNCHANGED <<srv, srvQueue, children, srvSeen>>,
         srvActive' = [srvActive EXCEPT !.pc = "closing", !.prev = srvActive.next, !.next = 0]
  PROVE  ServerInv'
<1>0. ServerTypes /\ ActiveAtAwait /\ NoChildForgotten /\ TerminalAtAwait
  BY DEF ServerInv
<1>1. /\ srvActive.next \in Ids /\ srvActive.next \in 0 .. MaxSessions /\ srvActive.prev = 0
      /\ srvActive.next # 0
  BY <1>0, ServerConstants DEF ActiveAtAwait, ServerTypes
<1>2. /\ srvActive' \in ActiveRecords /\ srvActive'.pc = "closing"
      /\ srvActive'.prev = srvActive.next
      /\ srvActive'.next = 0 /\ srvActive'.fresh = srvActive.fresh
      /\ srvActive'.live = srvActive.live
  BY <1>0, <1>1 DEF ServerTypes, ActiveRecords
<1>3. OneLoop' /\ LoopHasSession' /\ Quietened'
  <2>1. srv'.timer => ~srvActive'.live
    BY <1>2 DEF ServerInv, OneLoop
  <2> QED BY <1>2, <2>1, LoopKept
<1>4. ServerTypes' /\ ActiveAtAwait'
  BY <1>0, <1>1, <1>2 DEF ServerTypes, ActiveAtAwait, Commands
<1>5. NoChildForgotten' /\ TerminalAtAwait'
  BY <1>0, <1>1, <1>2 DEF NoChildForgotten, TerminalAtAwait
<1> QED BY <1>3, <1>4, <1>5 DEF ServerInv

LEMMA InitFailsPreserves == ServerInv /\ InitFails => ServerInv'
BY GivenUpPreserves DEF InitFails

LEMMA InstallPreserves == ServerInv /\ Install => ServerInv'
<1> SUFFICES ASSUME ServerInv, Install PROVE ServerInv'
  OBVIOUS
<1> DEFINE new == srvActive.next
<1>0. ServerTypes /\ ActiveAtAwait /\ NoChildForgotten /\ TerminalAtAwait
  BY DEF ServerInv
<1>1. PICK out \in children[new].out .. MaxText :
        IF srvActive.fresh
        THEN /\ children' = [children EXCEPT ![new].out = out]
             /\ srv' = [srv EXCEPT !.session = new, !.snapOf = new, !.offset = out]
             /\ srvSeen' = ShownAnew(srvSeen, new, out)
             /\ IF srv.session = 0 THEN Done
                ELSE srvActive' = [srvActive EXCEPT !.pc = "closing", !.prev = srv.session,
                                                    !.next = 0]
        ELSE /\ srvActive' = [srvActive EXCEPT !.pc = "closing", !.prev = new, !.next = 0]
             /\ UNCHANGED <<srv, children, srvSeen>>
  BY DEF Install
<1>2. srvActive.pc = "init" /\ UNCHANGED srvQueue
  BY DEF Install
<1>3. /\ new \in Ids /\ new # 0 /\ new # srv.session /\ new \in 0 .. MaxSessions
      /\ children[new] \in [alive : BOOLEAN, out : Nat] /\ out \in Nat
      /\ srv.session \in 0 .. MaxSessions /\ (srv.session # 0 => srv.session \in Ids)
      /\ srvActive.prev = 0
  BY <1>0, <1>1, <1>2, ServerConstants DEF ServerTypes, ActiveAtAwait, SrvRecords
<1>4. CASE srvActive.fresh
  <2>1. /\ children' = [children EXCEPT ![new].out = out]
        /\ srv' = [srv EXCEPT !.session = new, !.snapOf = new, !.offset = out]
        /\ srvSeen' = [srvSeen EXCEPT !.of = new, !.upto = out, !.torn = FALSE, !.aborted = FALSE]
        /\ \/ srv.session = 0 /\ srvActive' = Idle
           \/ /\ srv.session # 0
              /\ srvActive' = [srvActive EXCEPT !.pc = "closing", !.prev = srv.session, !.next = 0]
    BY <1>1, <1>4 DEF ShownAnew, Done
  <2>2. /\ srv' \in SrvRecords /\ srv'.session = new /\ srv'.snapOf = new /\ srv'.offset = out
        /\ srv'.timer = srv.timer
    BY <1>0, <1>3, <2>1 DEF ServerTypes, SrvRecords
  <2>3. /\ srvSeen' \in SeenRecords /\ srvSeen'.of = new /\ srvSeen'.upto = out
        /\ ~srvSeen'.torn
    BY <1>0, <1>3, <2>1 DEF ServerTypes, SeenRecords
  <2>4. /\ children' \in [Ids -> [alive : BOOLEAN, out : Nat]] /\ children'[new].out = out
        /\ \A id \in Ids : children'[id].alive = children[id].alive
    BY <1>0, <1>3, <2>1 DEF ServerTypes
  <2>5. /\ srvActive' \in ActiveRecords
        /\ \/ srv.session = 0 /\ srvActive' = Idle
           \/ /\ srv.session # 0 /\ srvActive'.pc = "closing" /\ srvActive'.prev = srv.session
              /\ srvActive'.next = 0 /\ srvActive'.fresh = srvActive.fresh
              /\ srvActive'.live = srvActive.live
    <3>1. srvActive \in ActiveRecords
      BY <1>0 DEF ServerTypes
    <3>2. CASE srv.session = 0
      BY <2>1, <3>2, IdleFacts
    <3>3. CASE srv.session # 0
      BY <1>3, <2>1, <3>1, <3>3 DEF ActiveRecords
    <3> QED BY <3>2, <3>3
  <2>6. srvActive'.live => srvActive.live
    <3>1. ~Idle.live
      BY DEF Idle
    <3> QED BY ONLY <2>5, <3>1
  <2>7. OneLoop' /\ LoopHasSession' /\ Quietened'
    <3>1. srv'.timer => ~srvActive'.live
      BY <2>2, <2>6 DEF ServerInv, OneLoop
    <3>2. srvActive'.pc # "none" => srvActive'.fresh = srvActive.fresh /\ srvActive.pc # "none"
      BY <1>2, <2>5 DEF Idle
    <3> QED BY <1>2, <1>3, <2>2, <2>6, <3>1, <3>2, LoopKept
  <2>8. ServerTypes'
    BY <1>0, <1>2, <2>2, <2>3, <2>4, <2>5 DEF ServerTypes
  <2>9. ActiveAtAwait'
    BY <1>3, <2>2, <2>5 DEF ActiveAtAwait, Idle, Commands
  <2>10. NoChildForgotten'
    BY <1>0, <1>3, <2>2, <2>4, <2>5 DEF NoChildForgotten, Idle
  <2>11. TerminalAtAwait'
    BY <1>3, <2>2, <2>3, <2>4, <2>5 DEF TerminalAtAwait, Idle
  <2> QED BY <2>7, <2>8, <2>9, <2>10, <2>11 DEF ServerInv
<1>5. CASE ~srvActive.fresh
  <2>1. /\ srvActive' = [srvActive EXCEPT !.pc = "closing", !.prev = new, !.next = 0]
        /\ srv' = srv /\ children' = children /\ srvSeen' = srvSeen
    BY <1>1, <1>5
  <2> QED BY <1>2, <2>1, GivenUpPreserves
<1> QED BY <1>4, <1>5

LEMMA SessionClosedPreserves == ServerInv /\ SessionClosed => ServerInv'
<1> SUFFICES ASSUME ServerInv, SessionClosed PROVE ServerInv'
  OBVIOUS
<1>0. ServerTypes /\ ActiveAtAwait /\ NoChildForgotten /\ TerminalAtAwait
  BY DEF ServerInv
<1>1. /\ srvActive.pc = "closing" /\ srvActive' = Idle
      /\ children' = [children EXCEPT ![srvActive.prev].alive = FALSE]
      /\ srv' = srv /\ srvQueue' = srvQueue /\ srvSeen' = srvSeen
  BY DEF SessionClosed, Done
<1>2. srvActive.prev \in Ids /\ srvActive.next = 0
  BY <1>0, <1>1 DEF ActiveAtAwait
<1>3. /\ children' \in [Ids -> [alive : BOOLEAN, out : Nat]]
      /\ ~children'[srvActive.prev].alive
      /\ \A id \in Ids : /\ children'[id].out = children[id].out
                         /\ id # srvActive.prev => children'[id] = children[id]
  BY <1>0, <1>1, <1>2 DEF ServerTypes
<1>4. srv.session # 0 => srv.session \in Ids
  BY <1>0, ServerConstants DEF ServerTypes, SrvRecords
<1>5. OneLoop' /\ LoopHasSession' /\ Quietened'
  BY <1>1, IdleFacts, LoopKept
<1>6. ServerTypes' /\ ActiveAtAwait'
  BY <1>0, <1>1, <1>3, IdleFacts DEF ServerTypes, ActiveAtAwait, Commands
<1>7. NoChildForgotten' /\ TerminalAtAwait'
  BY <1>0, <1>1, <1>2, <1>3, <1>4, IdleFacts DEF NoChildForgotten, TerminalAtAwait
<1> QED BY <1>5, <1>6, <1>7 DEF ServerInv

\* What every command does: the current session may print, nothing is made or closed, and the
\* action goes on at another await or is over.
LEMMA CommandStep ==
  ASSUME ServerInv, srvActive.pc \in Commands, UNCHANGED srvQueue,
         children' \in [Ids -> [alive : BOOLEAN, out : Nat]],
         \A id \in Ids : children'[id].alive => children[id].alive,
         srv' \in SrvRecords, srv'.session = srv.session,
         srv'.timer => srv.timer \/ (srvActive.live /\ srvActive.fresh),
         srvSeen' \in SeenRecords,
         \/ srvActive' = Idle
         \/ /\ srvActive' \in ActiveRecords /\ srvActive'.pc \in Commands
            /\ srvActive'.next = 0 /\ srvActive'.prev = 0
            /\ srvActive'.fresh = srvActive.fresh /\ srvActive'.live = srvActive.live
            /\ srv'.timer = srv.timer,
         TerminalAtAwait'
  PROVE  ServerInv'
<1>0. ServerTypes /\ ActiveAtAwait /\ NoChildForgotten /\ OneLoop
  BY DEF ServerInv
<1>1. srv.session # 0 /\ srvActive.next = 0 /\ srvActive.prev = 0 /\ srvActive.pc # "none"
  BY <1>0 DEF ActiveAtAwait, Commands
<1>2. srvActive' = Idle => srvActive'.pc = "none" /\ ~srvActive'.live
  BY IdleFacts
<1>3. "none" \notin Commands /\ "init" \notin Commands /\ "closing" \notin Commands
  BY DEF Commands
<1>4. srv'.timer => ~srvActive'.live
  BY <1>0, <1>2 DEF OneLoop
<1>5. OneLoop' /\ LoopHasSession' /\ Quietened'
  BY <1>1, <1>2, <1>4, LoopKept
<1>6. srvActive' \in ActiveRecords /\ srvActive'.next = 0 /\ srvActive'.prev = 0
  BY IdleFacts
<1>7. ServerTypes'
  BY <1>0, <1>6 DEF ServerTypes
<1>8. ActiveAtAwait'
  BY <1>1, <1>2, <1>3, <1>6 DEF ActiveAtAwait
<1>9. NoChildForgotten'
  BY <1>0, <1>1, <1>6 DEF NoChildForgotten
<1> QED BY <1>5, <1>7, <1>8, <1>9 DEF ServerInv

\* What is known of a command's session when it is performed.
LEMMA PerformsFacts ==
  ASSUME ServerInv, srvActive.pc \in Commands, NEW printed \in 0 .. 1, Performs(srv.session, printed)
  PROVE  /\ srv.session \in Ids /\ srv.session # 0
         /\ children' \in [Ids -> [alive : BOOLEAN, out : Nat]]
         /\ \A id \in Ids : children'[id].alive = children[id].alive
         /\ children[srv.session].out \in Nat
         /\ children'[srv.session].out = children[srv.session].out + printed
<1>1. /\ children \in [Ids -> [alive : BOOLEAN, out : Nat]] /\ srv.session \in 0 .. MaxSessions
      /\ srv.session # 0
  BY DEF ServerInv, ServerTypes, SrvRecords, ActiveAtAwait
<1>2. srv.session \in Ids
  BY <1>1, ServerConstants
<1>3. children' = [children EXCEPT ![srv.session].out = @ + printed]
  BY DEF Performs
<1> QED BY <1>1, <1>2, <1>3

LEMMA SteppedPreserves == ServerInv /\ Stepped => ServerInv'
<1> SUFFICES ASSUME ServerInv, Stepped PROVE ServerInv'
  OBVIOUS
<1>0. ServerTypes /\ ActiveAtAwait /\ TerminalAtAwait
  BY DEF ServerInv
<1>1. PICK printed \in 0 .. 1 : Performs(srv.session, printed)
  BY DEF Stepped
<1>2. /\ srvActive.pc = "call" /\ srv' = [srv EXCEPT !.snapOf = srv.session]
      /\ srvActive' = [srvActive EXCEPT !.pc = "terminal"] \/ srvActive' = Idle
      /\ srvQueue' = srvQueue /\ srvSeen' = srvSeen
  BY DEF Stepped, Awaits, Done
<1>3. /\ srv' \in SrvRecords /\ srv'.session = srv.session /\ srv'.snapOf = srv.session
      /\ srv'.offset = srv.offset /\ srv'.timer = srv.timer /\ srv.offset \in Nat
  BY <1>0, <1>2 DEF ServerTypes, SrvRecords
<1>4. \/ srvActive' = Idle
      \/ /\ srvActive' \in ActiveRecords /\ srvActive'.pc = "terminal"
         /\ srvActive'.next = 0 /\ srvActive'.prev = 0
         /\ srvActive'.fresh = srvActive.fresh /\ srvActive'.live = srvActive.live
  <2>1. srvActive \in ActiveRecords /\ srvActive.next = 0 /\ srvActive.prev = 0
    BY <1>0, <1>2 DEF ServerTypes, ActiveAtAwait, Commands
  <2> QED BY <1>2, <2>1 DEF ActiveRecords, Commands
<1>5. srvActive'.pc \in {"none", "terminal"}
  BY <1>4, IdleFacts
<1>6. srvActive.pc \in Commands
  BY <1>2 DEF Commands
<1>7. TerminalAtAwait'
  BY <1>0, <1>1, <1>2, <1>3, <1>5, <1>6, PerformsFacts DEF TerminalAtAwait
<1> QED
  BY <1>0, <1>1, <1>2, <1>3, <1>4, <1>6, <1>7, PerformsFacts, CommandStep DEF ServerTypes, Commands

\* A piece of text that starts where the terminal's text ends is never out of order.
LEMMA ShownInOrder ==
  ASSUME srvSeen \in SeenRecords, NEW id, NEW from \in Nat, NEW to \in Nat, ~srvSeen.torn,
         ~srvSeen.aborted /\ to > from => srvSeen.of = id /\ srvSeen.upto = from
  PROVE  /\ Shown(srvSeen, id, from, to) \in SeenRecords
         /\ Shown(srvSeen, id, from, to).of = srvSeen.of
         /\ Shown(srvSeen, id, from, to).upto = (IF to > from THEN to ELSE srvSeen.upto)
         /\ ~Shown(srvSeen, id, from, to).torn
         /\ Shown(srvSeen, id, from, to).aborted = srvSeen.aborted
<1> DEFINE torn == srvSeen.torn \/ (to > from /\ ~srvSeen.aborted
                                    /\ ~(srvSeen.of = id /\ srvSeen.upto = from))
           upto == IF to > from THEN to ELSE srvSeen.upto
<1>1. Shown(srvSeen, id, from, to) = [srvSeen EXCEPT !.upto = upto, !.torn = torn]
  BY DEF Shown
<1>2. torn = FALSE /\ upto \in Nat
  BY DEF SeenRecords
<1> HIDE DEF torn, upto
<1>3. Shown(srvSeen, id, from, to) = [srvSeen EXCEPT !.upto = upto, !.torn = FALSE]
  BY ONLY <1>1, <1>2
<1>4. /\ Shown(srvSeen, id, from, to) \in SeenRecords
      /\ Shown(srvSeen, id, from, to).of = srvSeen.of
      /\ Shown(srvSeen, id, from, to).upto = upto
      /\ ~Shown(srvSeen, id, from, to).torn
      /\ Shown(srvSeen, id, from, to).aborted = srvSeen.aborted
  BY <1>2, <1>3 DEF SeenRecords
<1> QED BY <1>4 DEF upto

LEMMA TerminalReadPreserves == ServerInv /\ TerminalRead => ServerInv'
<1> SUFFICES ASSUME ServerInv, TerminalRead PROVE ServerInv'
  OBVIOUS
<1> DEFINE to == children[srv.session].out
<1>0. ServerTypes /\ ActiveAtAwait /\ TerminalAtAwait
  BY DEF ServerInv
<1>1. /\ srvActive.pc = "terminal" /\ Performs(srv.session, 0) /\ srvActive' = Idle
      /\ srvQueue' = srvQueue
  BY DEF TerminalRead, Done
<1>2. srvActive.pc \in Commands /\ 0 \in 0 .. 1
  BY <1>1 DEF Commands
<1>3. /\ srv.session \in Ids /\ srv.session # 0
      /\ children' \in [Ids -> [alive : BOOLEAN, out : Nat]]
      /\ \A id \in Ids : children'[id].alive = children[id].alive
      /\ to \in Nat /\ children'[srv.session].out = to
  BY <1>1, <1>2, PerformsFacts
<1>4. srv.offset \in Nat /\ ReadFrom \in Nat /\ (srv.offset <= to => ReadFrom = srv.offset)
  BY <1>0, <1>3 DEF ServerTypes, SrvRecords, ReadFrom
<1>5. CASE srvActive.fresh
  <2>1. /\ srvSeen' = Shown(srvSeen, srv.session, ReadFrom, to)
        /\ \E halted \in BOOLEAN :
             srv' = [srv EXCEPT !.offset = to, !.timer = @ \/ Rescheduled(srvActive, halted)]
    BY <1>5 DEF TerminalRead
  <2>2. PICK halted \in BOOLEAN :
          srv' = [srv EXCEPT !.offset = to, !.timer = @ \/ Rescheduled(srvActive, halted)]
    BY <2>1
  <2>3. /\ srv' \in SrvRecords /\ srv'.session = srv.session /\ srv'.snapOf = srv.snapOf
        /\ srv'.offset = to /\ (srv'.timer => srv.timer \/ (srvActive.live /\ srvActive.fresh))
    BY <1>0, <1>3, <2>2 DEF ServerTypes, SrvRecords, Rescheduled
  <2>4. srvSeen \in SeenRecords /\ ~srvSeen.torn
        /\ (~srvSeen.aborted => /\ srvSeen.of = srv.session /\ srvSeen.upto = srv.offset
                                /\ srv.offset <= to)
    BY <1>0, <1>1, <1>3 DEF ServerTypes, TerminalAtAwait
  <2>5. /\ srvSeen' \in SeenRecords /\ srvSeen'.of = srvSeen.of
        /\ srvSeen'.upto = (IF to > ReadFrom THEN to ELSE srvSeen.upto)
        /\ ~srvSeen'.torn /\ srvSeen'.aborted = srvSeen.aborted
    BY <1>3, <1>4, <2>1, <2>4, ShownInOrder
  <2>6. TerminalAtAwait'
    BY <1>0, <1>1, <1>3, <1>4, <2>3, <2>4, <2>5, IdleFacts DEF TerminalAtAwait
  <2> QED BY <1>1, <1>2, <1>3, <2>3, <2>5, <2>6, CommandStep
<1>6. CASE ~srvActive.fresh
  <2>1. srv' = srv /\ srvSeen' = srvSeen
    BY <1>6 DEF TerminalRead
  <2>2. TerminalAtAwait'
    BY <1>0, <1>1, <1>3, <2>1, IdleFacts DEF TerminalAtAwait
  <2> QED BY <1>0, <1>1, <1>2, <1>3, <2>1, <2>2, CommandStep DEF ServerTypes
<1> QED BY <1>5, <1>6

LEMMA ResetPerformedPreserves == ServerInv /\ ResetPerformed => ServerInv'
<1> SUFFICES ASSUME ServerInv, ResetPerformed PROVE ServerInv'
  OBVIOUS
<1>0. ServerTypes /\ ActiveAtAwait /\ TerminalAtAwait
  BY DEF ServerInv
<1>1. /\ srvActive.pc = "call"
      /\ children' = [children EXCEPT ![srv.session].out = 0]
      /\ srv' = [srv EXCEPT !.snapOf = srv.session, !.offset = IF srvActive.fresh THEN 0 ELSE @]
      /\ srvSeen' = [srvSeen EXCEPT !.aborted = @ \/ ~srvActive.fresh]
      /\ IF srvActive.fresh THEN srvActive' = [srvActive EXCEPT !.pc = "reread"]
         ELSE srvActive' = Idle
      /\ srvQueue' = srvQueue
  BY DEF ResetPerformed, Awaits, Done
<1>2. srvActive.pc \in Commands
  BY <1>1 DEF Commands
<1>3. srv.session \in Ids /\ srv.session # 0 /\ srvActive.next = 0 /\ srvActive.prev = 0
  BY <1>0, <1>2, ServerConstants DEF ServerTypes, SrvRecords, ActiveAtAwait
<1>4. /\ children' \in [Ids -> [alive : BOOLEAN, out : Nat]]
      /\ \A id \in Ids : children'[id].alive = children[id].alive
      /\ children'[srv.session].out = 0
  BY <1>0, <1>1, <1>3 DEF ServerTypes
<1>5. /\ srv' \in SrvRecords /\ srv'.session = srv.session /\ srv'.snapOf = srv.session
      /\ srv'.timer = srv.timer /\ (srvActive.fresh => srv'.offset = 0)
  BY <1>0, <1>1 DEF ServerTypes, SrvRecords
<1>6. /\ srvSeen' \in SeenRecords /\ srvSeen'.of = srvSeen.of /\ srvSeen'.upto = srvSeen.upto
      /\ srvSeen'.torn = srvSeen.torn
      /\ srvSeen'.aborted = (srvSeen.aborted \/ ~srvActive.fresh)
  BY <1>0, <1>1 DEF ServerTypes, SeenRecords
<1>7. \/ ~srvActive.fresh /\ srvActive' = Idle
      \/ /\ srvActive.fresh /\ srvActive' \in ActiveRecords /\ srvActive'.pc = "reread"
         /\ srvActive'.next = 0 /\ srvActive'.prev = 0
         /\ srvActive'.fresh = srvActive.fresh /\ srvActive'.live = srvActive.live
  BY <1>0, <1>1, <1>3 DEF ServerTypes, ActiveRecords, Commands
<1>8. TerminalAtAwait'
  <2>1. CASE ~srvActive.fresh
    <3>1. srvSeen'.aborted /\ ~srvSeen'.torn /\ srv'.snapOf = srv'.session
      BY <1>0, <1>5, <1>6, <2>1 DEF TerminalAtAwait
    <3> QED BY <3>1 DEF TerminalAtAwait
  <2>2. CASE srvActive.fresh
    <3>1. /\ srvActive'.pc = "reread" /\ ~srvSeen'.torn /\ srv'.offset = 0
          /\ srv'.snapOf = srv'.session
      BY <1>0, <1>5, <1>6, <1>7, <2>2 DEF TerminalAtAwait
    <3> QED BY <1>4, <1>5, <3>1 DEF TerminalAtAwait
  <2> QED BY <2>1, <2>2
<1>9. srvActive' = Idle \/ srvActive'.pc \in Commands
  BY <1>7 DEF Commands
<1> QED BY <1>1, <1>2, <1>4, <1>5, <1>6, <1>7, <1>8, <1>9, CommandStep

LEMMA ResetReadPreserves == ServerInv /\ ResetRead => ServerInv'
<1> SUFFICES ASSUME ServerInv, ResetRead PROVE ServerInv'
  OBVIOUS
<1>0. ServerTypes /\ TerminalAtAwait
  BY DEF ServerInv
<1>1. PICK printed \in 0 .. 1 :
        /\ Performs(srv.session, printed)
        /\ IF srvActive.fresh
           THEN /\ srv' = [srv EXCEPT !.offset = children[srv.session].out + printed]
                /\ srvSeen' = ShownAnew(srvSeen, srv.session, children[srv.session].out + printed)
           ELSE srvSeen' = [srvSeen EXCEPT !.aborted = TRUE] /\ UNCHANGED srv
  BY DEF ResetRead
<1>2. srvActive.pc = "reread" /\ srvActive.pc \in Commands /\ srvActive' = Idle /\ srvQueue' = srvQueue
  BY DEF ResetRead, Commands, Done
<1>3. /\ srv.session \in Ids /\ srv.session # 0
      /\ children' \in [Ids -> [alive : BOOLEAN, out : Nat]]
      /\ \A id \in Ids : children'[id].alive = children[id].alive
      /\ children[srv.session].out \in Nat
      /\ children'[srv.session].out = children[srv.session].out + printed
  BY <1>1, <1>2, PerformsFacts
<1> DEFINE to == children[srv.session].out + printed
<1>4. to \in Nat
  BY <1>3
<1>5. /\ srv' \in SrvRecords /\ srv'.session = srv.session /\ srv'.snapOf = srv.snapOf
      /\ srv'.timer = srv.timer /\ (srvActive.fresh => srv'.offset = to)
  BY <1>0, <1>1, <1>4 DEF ServerTypes, SrvRecords
<1>6. /\ srvSeen' \in SeenRecords /\ ~srvSeen'.torn
      /\ srvActive.fresh => srvSeen'.of = srv.session /\ srvSeen'.upto = to
      /\ ~srvActive.fresh => srvSeen'.aborted
  <2>1. srvSeen \in SeenRecords /\ ~srvSeen.torn /\ srv.session \in 0 .. MaxSessions
    BY <1>0 DEF ServerTypes, TerminalAtAwait, SrvRecords
  <2> QED BY <1>1, <1>4, <2>1 DEF SeenRecords, ShownAnew
<1>7. TerminalAtAwait'
  BY <1>0, <1>2, <1>3, <1>4, <1>5, <1>6, IdleFacts DEF TerminalAtAwait
<1> QED BY <1>2, <1>3, <1>5, <1>6, <1>7, CommandStep

LEMMA InputTakenPreserves == ServerInv /\ InputTaken => ServerInv'
<1> SUFFICES ASSUME ServerInv, InputTaken PROVE ServerInv'
  OBVIOUS
<1>0. ServerTypes /\ ActiveAtAwait /\ TerminalAtAwait
  BY DEF ServerInv
<1>1. /\ srvActive.pc = "call" /\ Performs(srv.session, 0)
      /\ srvQueue' = srvQueue /\ srv' = srv /\ srvSeen' = srvSeen
      /\ \/ srvActive' = Idle
         \/ srvActive' = [srvActive EXCEPT !.pc = "terminal"]
         \/ \E pc \in {"wait", "advance"} :
              srvActive' = [srvActive EXCEPT !.pc = pc, !.from = ReadFrom]
  BY DEF InputTaken, Awaits, Done
<1>2. srvActive.pc \in Commands /\ 0 \in 0 .. 1
  BY <1>1 DEF Commands
<1>3. /\ srv.session \in Ids /\ srv.session # 0
      /\ children' \in [Ids -> [alive : BOOLEAN, out : Nat]]
      /\ \A id \in Ids : children'[id].alive = children[id].alive
      /\ children[srv.session].out \in Nat
      /\ children'[srv.session].out = children[srv.session].out
  BY <1>1, <1>2, PerformsFacts
<1>4. /\ srv.offset \in Nat /\ ReadFrom \in Nat
      /\ (srv.offset <= children[srv.session].out => ReadFrom = srv.offset)
  BY <1>0, <1>3 DEF ServerTypes, SrvRecords, ReadFrom
<1>5. \/ srvActive' = Idle
      \/ /\ srvActive' \in ActiveRecords /\ srvActive'.next = 0 /\ srvActive'.prev = 0
         /\ srvActive'.fresh = srvActive.fresh /\ srvActive'.live = srvActive.live
         /\ \/ srvActive'.pc = "terminal"
            \/ srvActive'.pc \in {"wait", "advance"} /\ srvActive'.from = ReadFrom
  <2>1. srvActive \in ActiveRecords /\ srvActive.next = 0 /\ srvActive.prev = 0
    BY <1>0, <1>2 DEF ServerTypes, ActiveAtAwait
  <2>2. CASE srvActive' = [srvActive EXCEPT !.pc = "terminal"]
    BY <2>1, <2>2 DEF ActiveRecords, Commands
  <2>3. CASE \E pc \in {"wait", "advance"} :
               srvActive' = [srvActive EXCEPT !.pc = pc, !.from = ReadFrom]
    BY <1>4, <2>1, <2>3 DEF ActiveRecords, Commands
  <2> QED BY <1>1, <2>2, <2>3
<1>6. srvActive' = Idle \/ srvActive'.pc \in Commands
  BY <1>5 DEF Commands
<1>7. TerminalAtAwait'
  BY <1>0, <1>1, <1>3, <1>4, <1>5, IdleFacts DEF TerminalAtAwait
<1> QED BY <1>0, <1>1, <1>2, <1>3, <1>5, <1>6, <1>7, CommandStep DEF ServerTypes

LEMMA InputWaitedPreserves == ServerInv /\ InputWaited => ServerInv'
<1> SUFFICES ASSUME ServerInv, InputWaited PROVE ServerInv'
  OBVIOUS
<1>0. ServerTypes /\ ActiveAtAwait /\ TerminalAtAwait
  BY DEF ServerInv
<1>1. PICK printed \in 0 .. 1 :
        /\ Performs(srv.session, printed)
        /\ srv' = [srv EXCEPT !.offset = children[srv.session].out + printed,
                              !.snapOf = srv.session]
        /\ srvSeen' = Shown(srvSeen, srv.session, srvActive.from,
                            children[srv.session].out + printed)
  BY DEF InputWaited
<1> DEFINE to == children[srv.session].out + printed
<1>2. srvActive.pc = "wait" /\ srvActive.pc \in Commands /\ srvActive' = Idle /\ srvQueue' = srvQueue
  BY DEF InputWaited, Commands, Done
<1>3. /\ srv.session \in Ids /\ srv.session # 0
      /\ children' \in [Ids -> [alive : BOOLEAN, out : Nat]]
      /\ \A id \in Ids : children'[id].alive = children[id].alive
      /\ children[srv.session].out \in Nat
      /\ children'[srv.session].out = to
  BY <1>1, <1>2, PerformsFacts
<1>4. to \in Nat /\ srvActive.from \in Nat /\ to >= children[srv.session].out
  BY <1>0, <1>3 DEF ServerTypes, ActiveRecords
<1>5. /\ srv' \in SrvRecords /\ srv'.session = srv.session /\ srv'.snapOf = srv.session
      /\ srv'.timer = srv.timer /\ srv'.offset = to
  BY <1>0, <1>1, <1>4 DEF ServerTypes, SrvRecords
<1>6. /\ srvSeen \in SeenRecords /\ ~srvSeen.torn /\ srv.offset \in Nat
      /\ ~srvSeen.aborted => /\ srvSeen.of = srv.session /\ srvSeen.upto = srvActive.from
                             /\ srvActive.from <= to
  BY <1>0, <1>2, <1>3, <1>4 DEF ServerTypes, TerminalAtAwait, SrvRecords
<1>7. /\ srvSeen' \in SeenRecords /\ srvSeen'.of = srvSeen.of
      /\ srvSeen'.upto = (IF to > srvActive.from THEN to ELSE srvSeen.upto)
      /\ ~srvSeen'.torn /\ srvSeen'.aborted = srvSeen.aborted
  BY <1>1, <1>4, <1>6, ShownInOrder
<1>8. TerminalAtAwait'
  BY <1>3, <1>4, <1>5, <1>6, <1>7, <1>2, IdleFacts DEF TerminalAtAwait
<1> QED BY <1>2, <1>3, <1>5, <1>7, <1>8, CommandStep

LEMMA InputAdvancedPreserves == ServerInv /\ InputAdvanced => ServerInv'
<1> SUFFICES ASSUME ServerInv, InputAdvanced PROVE ServerInv'
  OBVIOUS
<1>0. ServerTypes /\ ActiveAtAwait /\ TerminalAtAwait
  BY DEF ServerInv
<1>1. PICK printed \in 0 .. 1 :
        /\ Performs(srv.session, printed)
        /\ IF ~srvActive.fresh
           THEN /\ srv' = [srv EXCEPT !.snapOf = srv.session]
                /\ srvSeen' = [srvSeen EXCEPT !.aborted = TRUE]
                /\ srvActive' = Idle
           ELSE /\ srv' = [srv EXCEPT !.offset = children[srv.session].out + printed,
                                      !.snapOf = srv.session]
                /\ \/ srvActive' = srvActive /\ srvSeen' = srvSeen
                   \/ /\ srvSeen' = Shown(srvSeen, srv.session, srvActive.from,
                                          children[srv.session].out + printed)
                      /\ srvActive' = Idle
  BY DEF InputAdvanced, Done
<1> DEFINE to == children[srv.session].out + printed
<1>2. srvActive.pc = "advance" /\ srvActive.pc \in Commands /\ srvQueue' = srvQueue
  BY DEF InputAdvanced, Commands
<1>3. /\ srv.session \in Ids /\ srv.session # 0
      /\ children' \in [Ids -> [alive : BOOLEAN, out : Nat]]
      /\ \A id \in Ids : children'[id].alive = children[id].alive
      /\ children[srv.session].out \in Nat
      /\ children'[srv.session].out = to
  BY <1>1, <1>2, PerformsFacts
<1>4. to \in Nat /\ srvActive.from \in Nat /\ to >= children[srv.session].out
  BY <1>0, <1>3 DEF ServerTypes, ActiveRecords
<1>5. /\ srv' \in SrvRecords /\ srv'.session = srv.session /\ srv'.snapOf = srv.session
      /\ srv'.timer = srv.timer /\ (srvActive.fresh => srv'.offset = to)
  BY <1>0, <1>1, <1>4 DEF ServerTypes, SrvRecords
<1>6. /\ srvSeen \in SeenRecords /\ ~srvSeen.torn /\ srv.offset \in Nat
      /\ ~srvSeen.aborted => /\ srvSeen.of = srv.session /\ srvSeen.upto = srvActive.from
                             /\ srvActive.from <= to
  BY <1>0, <1>2, <1>3, <1>4 DEF ServerTypes, TerminalAtAwait, SrvRecords
<1>7. CASE ~srvActive.fresh
  <2>1. srvSeen' \in SeenRecords /\ srvSeen'.aborted /\ ~srvSeen'.torn /\ srvActive' = Idle
    BY <1>1, <1>6, <1>7 DEF SeenRecords
  <2>2. TerminalAtAwait'
    BY <1>5, <2>1 DEF TerminalAtAwait
  <2> QED BY <1>2, <1>3, <1>5, <2>1, <2>2, CommandStep
<1>8. CASE srvActive.fresh /\ srvActive' = srvActive /\ srvSeen' = srvSeen
  <2>1. /\ srvActive' \in ActiveRecords /\ srvActive'.pc = "advance"
        /\ srvActive'.next = 0 /\ srvActive'.prev = 0
    BY <1>0, <1>2, <1>8 DEF ServerTypes, ActiveAtAwait
  <2>2. TerminalAtAwait'
    BY <1>3, <1>4, <1>5, <1>6, <1>8, <2>1 DEF TerminalAtAwait
  <2> QED BY <1>2, <1>3, <1>5, <1>6, <1>8, <2>1, <2>2, CommandStep
<1>9. CASE /\ srvActive.fresh /\ srvActive' = Idle
           /\ srvSeen' = Shown(srvSeen, srv.session, srvActive.from, to)
  <2>1. /\ srvSeen' \in SeenRecords /\ srvSeen'.of = srvSeen.of
        /\ srvSeen'.upto = (IF to > srvActive.from THEN to ELSE srvSeen.upto)
        /\ ~srvSeen'.torn /\ srvSeen'.aborted = srvSeen.aborted
    BY <1>4, <1>6, <1>9, ShownInOrder
  <2>2. TerminalAtAwait'
    BY <1>3, <1>4, <1>5, <1>6, <1>9, <2>1, IdleFacts DEF TerminalAtAwait
  <2> QED BY <1>2, <1>3, <1>5, <1>9, <2>1, <2>2, CommandStep
<1> QED BY <1>1, <1>7, <1>8, <1>9

LEMMA CommandFailsPreserves == ServerInv /\ CommandFails => ServerInv'
<1> SUFFICES ASSUME ServerInv, CommandFails PROVE ServerInv'
  OBVIOUS
<1>0. ServerTypes /\ ActiveAtAwait /\ TerminalAtAwait
  BY DEF ServerInv
<1>1. PICK alive \in {FALSE, children[srv.session].alive} :
        children' = [children EXCEPT ![srv.session].alive = alive]
  BY DEF CommandFails
<1>2. /\ srvActive.pc \in Commands
      /\ srvSeen' = [srvSeen EXCEPT !.aborted = @ \/ srvActive.pc \in {"reread", "advance"}]
      /\ srv' = [srv EXCEPT !.timer = @ /\ srvActive.kind # "tick"]
      /\ srvActive' = Idle /\ srvQueue' = srvQueue
  BY DEF CommandFails, Done, Commands
<1>3. srv.session \in Ids /\ srv.session # 0
  BY <1>0, <1>2, ServerConstants DEF ServerTypes, SrvRecords, ActiveAtAwait
<1>4. /\ children' \in [Ids -> [alive : BOOLEAN, out : Nat]]
      /\ \A id \in Ids : /\ children'[id].alive => children[id].alive
                         /\ children'[id].out = children[id].out
  BY <1>0, <1>1, <1>3 DEF ServerTypes
<1>5. /\ srv' \in SrvRecords /\ srv'.session = srv.session /\ srv'.snapOf = srv.snapOf
      /\ srv'.offset = srv.offset /\ (srv'.timer => srv.timer)
  BY <1>0, <1>2 DEF ServerTypes, SrvRecords
<1>6. /\ srvSeen' \in SeenRecords /\ srvSeen'.of = srvSeen.of /\ srvSeen'.upto = srvSeen.upto
      /\ srvSeen'.torn = srvSeen.torn
      /\ ~srvSeen'.aborted => ~srvSeen.aborted /\ srvActive.pc \notin {"reread", "advance"}
  BY <1>0, <1>2 DEF ServerTypes, SeenRecords
<1>7. TerminalAtAwait'
  BY <1>0, <1>2, <1>3, <1>4, <1>5, <1>6, IdleFacts DEF TerminalAtAwait
<1> QED BY <1>2, <1>4, <1>5, <1>6, <1>7, CommandStep

LEMMA ChildEndsPreserves ==
  ASSUME ServerInv, NEW id \in Ids, ChildEnds(id)
  PROVE  ServerInv'
<1>0. ServerTypes /\ ActiveAtAwait /\ OneLoop /\ NoChildForgotten /\ TerminalAtAwait
  BY DEF ServerInv
<1>1. /\ children' = [children EXCEPT ![id].alive = FALSE]
      /\ srv' = srv /\ srvQueue' = srvQueue /\ srvActive' = srvActive /\ srvSeen' = srvSeen
  BY DEF ChildEnds
<1>2. /\ children' \in [Ids -> [alive : BOOLEAN, out : Nat]]
      /\ \A k \in Ids : /\ children'[k].alive => children[k].alive
                        /\ children'[k].out = children[k].out
  BY <1>0, <1>1 DEF ServerTypes
<1>3. srv.session # 0 => srv.session \in Ids
  BY <1>0, ServerConstants DEF ServerTypes, SrvRecords
<1>4. OneLoop' /\ LoopHasSession' /\ Quietened'
  BY <1>0, <1>1 DEF ServerInv, OneLoop, LoopHasSession, Quietened
<1>5. ServerTypes' /\ ActiveAtAwait'
  BY <1>0, <1>1, <1>2 DEF ServerTypes, ActiveAtAwait
<1>6. NoChildForgotten' 
  BY <1>0, <1>1, <1>2 DEF NoChildForgotten
<1>7. TerminalAtAwait'
  <2>1. srvActive.pc = "advance" => srv.session \in Ids
    BY <1>0, <1>3 DEF ActiveAtAwait, Commands
  <2> QED BY <1>0, <1>1, <1>2, <1>3, <2>1 DEF TerminalAtAwait
<1> QED BY <1>4, <1>5, <1>6, <1>7 DEF ServerInv

\* The first action leaves the queue: what it becomes is as live and fresh as it was, and only
\* a fresh run sets the timer, after the queue's ticks were disowned.
LEMMA LoopAdvances ==
  ASSUME ServerInv, srvQueue # <<>>, srvQueue' \in Seq(Queued),
         Len(srvQueue') = Len(srvQueue) - 1,
         \A i \in 1 .. Len(srvQueue') : /\ srvQueue'[i].kind = srvQueue[i + 1].kind
                                        /\ srvQueue'[i].fresh = srvQueue[i + 1].fresh
                                        /\ srvQueue'[i].live => srvQueue[i + 1].live,
         \/ srv'.timer => srv.timer
         \/ /\ srvQueue[1].fresh /\ srv'.session # 0 /\ ~srvActive'.live
            /\ \A i \in 1 .. Len(srvQueue') : ~srvQueue'[i].live,
         srvActive'.live => srvQueue[1].live,
         srvActive'.pc # "none" => srvActive'.fresh = srvQueue[1].fresh,
         srv'.session = 0 => srv.session = 0 \/ srvQueue[1].kind \in Renewing
  PROVE  OneLoop' /\ LoopHasSession' /\ Quietened'
<1> DEFINE q == srvQueue
           n == Len(srvQueue')
<1>0. OneLoop /\ LoopHasSession /\ Quietened
  BY DEF ServerInv
<1>1. n \in Nat /\ Len(q) = n + 1 /\ 1 \in 1 .. Len(q) /\ \A i \in 1 .. n : i + 1 \in 1 .. Len(q)
  <2>1. Len(q) \in Nat
    BY DEF ServerInv, ServerTypes
  <2> QED BY <2>1
<1>2. OneLoop'
  <2>1. ASSUME srv'.timer PROVE ~srvActive'.live /\ \A i \in 1 .. n : ~srvQueue'[i].live
    <3>1. CASE srv.timer
      BY <1>0, <1>1, <3>1 DEF OneLoop
    <3>2. CASE ~srv.timer
      BY <2>1, <3>2
    <3> QED BY <3>1, <3>2
  <2>2. ASSUME srvActive'.live, NEW i \in 1 .. n PROVE ~srvQueue'[i].live
    <3>1. q[1].live /\ i + 1 # 1
      BY <2>2, <1>1
    <3>2. ~q[i + 1].live
      BY <1>0, <1>1, <3>1 DEF OneLoop
    <3> QED BY <3>2
  <2>3. ASSUME NEW i \in 1 .. n, NEW j \in 1 .. n, srvQueue'[i].live, srvQueue'[j].live
        PROVE  i = j
    <3>1. i + 1 = j + 1
      BY <1>0, <1>1, <2>3 DEF OneLoop
    <3> QED BY <3>1, <1>1
  <2> QED BY <2>1, <2>2, <2>3 DEF OneLoop
<1>3. LoopHasSession'
  <2> SUFFICES ASSUME srv'.session = 0
      PROVE  ~srv'.timer /\ ~srvActive'.live /\ \A i \in 1 .. n : ~srvQueue'[i].live
    BY DEF LoopHasSession
  <2>1. ~srv.timer /\ \A i \in 1 .. n + 1 : ~q[i].live
    BY <1>0, <1>1 DEF LoopHasSession, Quietened
  <2> QED BY <1>1, <2>1
<1>4. Quietened'
  <2> SUFFICES ASSUME NEW i \in 1 .. n, srvQueue'[i].kind \in Renewing
      PROVE  /\ ~srv'.timer /\ ~srvActive'.live
             /\ srvActive'.pc # "none" => ~srvActive'.fresh
             /\ \A j \in 1 .. n : ~srvQueue'[j].live /\ (j < i => ~srvQueue'[j].fresh)
    BY DEF Quietened
  <2>1. /\ ~srv.timer /\ \A j \in 1 .. n + 1 : ~q[j].live /\ (j < i + 1 => ~q[j].fresh)
    BY <1>0, <1>1 DEF Quietened
  <2>2. ~q[1].fresh /\ ~q[1].live
    BY <1>1, <2>1
  <2>3. ASSUME NEW j \in 1 .. n PROVE ~srvQueue'[j].live /\ (j < i => ~srvQueue'[j].fresh)
    <3>1. ~q[j + 1].live /\ (j < i => ~q[j + 1].fresh)
      BY <1>1, <2>1
    <3> QED BY <3>1
  <2> QED BY <2>2, <2>3, <2>1
<1> QED BY <1>2, <1>3, <1>4

LEMMA UnusedFacts ==
  ASSUME UnusedIds # {}
  PROVE  Min(UnusedIds) \in UnusedIds
<1>1. UnusedIds \in SUBSET Nat
  BY ServerConstants DEF UnusedIds
<1>2. \E x \in UnusedIds : \A y \in UnusedIds : x <= y
  BY <1>1, LeastOf
<1> QED BY <1>2 DEF Min

LEMMA BeginPreserves == ServerInv /\ Begin => ServerInv'
<1> SUFFICES ASSUME ServerInv, Begin PROVE ServerInv'
  OBVIOUS
<1> DEFINE q == srvQueue
           h == Head(srvQueue)
           a == [Idle EXCEPT !.kind = h.kind, !.fresh = h.fresh, !.live = h.live]
           new == Min(UnusedIds)
<1>0. ServerTypes /\ NoChildForgotten /\ TerminalAtAwait /\ LoopHasSession
  BY DEF ServerInv
<1>1. q \in Seq(Queued) /\ q # <<>> /\ srvActive = Idle
  BY <1>0 DEF ServerTypes, Begin
<1>2. /\ h \in Queued /\ h = q[1] /\ Len(q) \in Nat \ {0}
      /\ Tail(q) \in Seq(Queued) /\ Len(Tail(q)) = Len(q) - 1
      /\ \A i \in 1 .. Len(q) - 1 : Tail(q)[i] = q[i + 1]
  BY <1>1
<1>3. /\ a \in ActiveRecords /\ a.kind = h.kind /\ a.fresh = h.fresh /\ a.live = h.live
      /\ a.next = 0 /\ a.prev = 0 /\ a.pc = "none"
  BY <1>2, IdleFacts DEF Queued, ActiveRecords
<1>4. srv.session \in 0 .. MaxSessions /\ (srv.session # 0 => srv.session \in Ids)
  BY <1>0, ServerConstants DEF ServerTypes, SrvRecords
<1> HIDE DEF a
<1>5. CASE srvQueue' = Tail(q) /\ srv' = srv /\ srvActive' = srvActive /\ children' = children
           /\ srvSeen' \in SeenRecords /\ srvSeen'.of = srvSeen.of
           /\ srvSeen'.upto = srvSeen.upto /\ srvSeen'.torn = srvSeen.torn
           /\ srvSeen'.aborted = srvSeen.aborted
  <2>1. OneLoop' /\ LoopHasSession' /\ Quietened'
    BY <1>1, <1>2, <1>5, IdleFacts, LoopAdvances
  <2>2. ServerTypes' /\ ActiveAtAwait'
    BY <1>0, <1>1, <1>2, <1>5, IdleFacts DEF ServerTypes, ActiveAtAwait, Commands
  <2>3. NoChildForgotten' /\ TerminalAtAwait'
    BY <1>0, <1>5 DEF NoChildForgotten, TerminalAtAwait
  <2> QED BY <2>1, <2>2, <2>3 DEF ServerInv
<1>6. ASSUME h.kind = "run", ~Refused(a), StartRunLoop, UNCHANGED <<srvActive, children, srvSeen>>
      PROVE  ServerInv'
  <2>1. /\ srv' = [srv EXCEPT !.timer = TRUE]
        /\ srvQueue' = [i \in DOMAIN Tail(q) |-> [Tail(q)[i] EXCEPT !.live = FALSE]]
    BY <1>6 DEF StartRunLoop
  <2>2. h.fresh /\ srv.session # 0
    BY <1>3, <1>6 DEF Refused, NeedsSession, RequestKinds
  <2>3. /\ srv' \in SrvRecords /\ srv'.session = srv.session /\ srv'.snapOf = srv.snapOf
        /\ srv'.offset = srv.offset
    BY <1>0, <2>1 DEF ServerTypes, SrvRecords
  <2>4. \A i \in 1 .. Len(q) - 1 :
          /\ [Tail(q)[i] EXCEPT !.live = FALSE] \in Queued
          /\ [Tail(q)[i] EXCEPT !.live = FALSE].kind = q[i + 1].kind
          /\ [Tail(q)[i] EXCEPT !.live = FALSE].fresh = q[i + 1].fresh
          /\ ~[Tail(q)[i] EXCEPT !.live = FALSE].live
    <3>1. \A i \in 1 .. Len(q) - 1 : Tail(q)[i] \in Queued /\ Tail(q)[i] = q[i + 1]
      BY <1>2
    <3> QED BY <3>1 DEF Queued
  <2>5. DOMAIN Tail(q) = 1 .. Len(q) - 1
    BY <1>2
  <2>6. /\ srvQueue' \in Seq(Queued) /\ Len(srvQueue') = Len(q) - 1
        /\ \A i \in 1 .. Len(q) - 1 : srvQueue'[i] = [Tail(q)[i] EXCEPT !.live = FALSE]
    BY <1>2, <2>1, <2>4, <2>5
  <2>7. \A i \in 1 .. Len(q) - 1 : /\ srvQueue'[i].kind = q[i + 1].kind
                                   /\ srvQueue'[i].fresh = q[i + 1].fresh
                                   /\ ~srvQueue'[i].live
    BY <2>4, <2>6
  <2>8. OneLoop' /\ LoopHasSession' /\ Quietened'
    BY <1>1, <1>2, <1>6, <2>2, <2>3, <2>6, <2>7, IdleFacts, LoopAdvances
  <2>9. ServerTypes' /\ ActiveAtAwait'
    BY <1>0, <1>1, <1>6, <2>3, <2>6, IdleFacts DEF ServerTypes, ActiveAtAwait, Commands
  <2>10. NoChildForgotten' /\ TerminalAtAwait'
    BY <1>0, <1>6, <2>3 DEF NoChildForgotten, TerminalAtAwait
  <2> QED BY <2>8, <2>9, <2>10 DEF ServerInv
<1>7. ASSUME UnusedIds # {}, srvActive' = [a EXCEPT !.pc = "init", !.next = new],
             children' = [children EXCEPT ![new] = [alive |-> TRUE, out |-> 0]],
             srvQueue' = Tail(q), UNCHANGED <<srv, srvSeen>>
      PROVE  ServerInv'
  <2>1. new \in Ids /\ new # srv.session /\ new \in 0 .. MaxSessions
    BY <1>7, UnusedFacts, ServerConstants DEF UnusedIds
  <2>2. /\ srvActive' \in ActiveRecords /\ srvActive'.pc = "init" /\ srvActive'.next = new
        /\ srvActive'.prev = 0 /\ srvActive'.fresh = h.fresh /\ srvActive'.live = h.live
    BY <1>3, <1>7, <2>1 DEF ActiveRecords
  <2>3. /\ children' \in [Ids -> [alive : BOOLEAN, out : Nat]]
        /\ \A id \in Ids : id # new => children'[id] = children[id]
    BY <1>0, <1>7, <2>1 DEF ServerTypes
  <2>4. OneLoop' /\ LoopHasSession' /\ Quietened'
    BY <1>1, <1>2, <1>7, <2>2, LoopAdvances
  <2>5. ServerTypes' /\ ActiveAtAwait'
    BY <1>0, <1>2, <1>7, <2>1, <2>2, <2>3 DEF ServerTypes, ActiveAtAwait, Commands
  <2>6. NoChildForgotten'
    BY <1>0, <1>1, <1>7, <2>2, <2>3, IdleFacts DEF NoChildForgotten
  <2>7. TerminalAtAwait'
    BY <1>0, <1>1, <1>4, <1>7, <2>1, <2>2, <2>3, IdleFacts DEF TerminalAtAwait
  <2> QED BY <2>4, <2>5, <2>6, <2>7 DEF ServerInv
<1>8. ASSUME h.kind = "terminate", ~Refused(a),
             srv' = [srv EXCEPT !.session = 0, !.snapOf = 0, !.offset = 0],
             srvSeen' = ShownAnew(srvSeen, 0, 0),
             srvActive' = [a EXCEPT !.pc = "closing", !.prev = srv.session],
             srvQueue' = Tail(q), UNCHANGED children
      PROVE  ServerInv'
  <2>1. srv.session \in Ids /\ h.kind \in Renewing
    BY <1>3, <1>4, <1>8 DEF Refused, NeedsSession, RequestKinds, Stopping, Renewing
  <2>0. 0 \in 0 .. MaxSessions
    BY ServerConstants
  <2>2. /\ srv' \in SrvRecords /\ srv'.session = 0 /\ srv'.snapOf = 0 /\ srv'.offset = 0
        /\ srv'.timer = srv.timer
    BY <1>0, <1>8, <2>0 DEF ServerTypes, SrvRecords
  <2>3. srvSeen' \in SeenRecords /\ srvSeen'.of = 0 /\ srvSeen'.upto = 0 /\ ~srvSeen'.torn
    BY <1>0, <1>8, <2>0 DEF ServerTypes, SeenRecords, ShownAnew
  <2>4. /\ srvActive' \in ActiveRecords /\ srvActive'.pc = "closing"
        /\ srvActive'.next = 0 /\ srvActive'.prev = srv.session
        /\ srvActive'.fresh = h.fresh /\ srvActive'.live = h.live
    BY <1>3, <1>4, <1>8 DEF ActiveRecords
  <2>5. OneLoop' /\ LoopHasSession' /\ Quietened'
    BY <1>1, <1>2, <1>8, <2>1, <2>2, <2>4, LoopAdvances
  <2>6. ServerTypes' /\ ActiveAtAwait'
    BY <1>0, <1>2, <1>8, <2>1, <2>2, <2>3, <2>4 DEF ServerTypes, ActiveAtAwait, Commands
  <2>7. NoChildForgotten' /\ TerminalAtAwait'
    BY <1>0, <1>1, <1>8, <2>2, <2>3, <2>4, IdleFacts DEF NoChildForgotten, TerminalAtAwait
  <2> QED BY <2>5, <2>6, <2>7 DEF ServerInv
<1>9. ASSUME h.kind \notin {"pause", "run", "load", "terminate"}, ~Refused(a),
             h.kind = "tick" => h.live, srvActive' = [a EXCEPT !.pc = "call"],
             srvQueue' = Tail(q), UNCHANGED <<srv, children, srvSeen>>
      PROVE  ServerInv'
  <2>1. srv.session # 0
    <3>1. CASE h.kind = "tick"
      BY <1>0, <1>2, <1>9, <3>1 DEF LoopHasSession
    <3>2. CASE h.kind # "tick"
      <4>1. h.kind \in NeedsSession
        BY <1>2, <1>9, <3>2 DEF Queued, NeedsSession
      <4> QED BY <1>3, <1>9, <4>1 DEF Refused
    <3> QED BY <3>1, <3>2
  <2>2. /\ srvActive' \in ActiveRecords /\ srvActive'.pc = "call"
        /\ srvActive'.next = 0 /\ srvActive'.prev = 0
        /\ srvActive'.fresh = h.fresh /\ srvActive'.live = h.live
    BY <1>3, <1>9 DEF ActiveRecords, Commands
  <2>3. OneLoop' /\ LoopHasSession' /\ Quietened'
    BY <1>1, <1>2, <1>9, <2>2, LoopAdvances
  <2>4. ServerTypes' /\ ActiveAtAwait'
    BY <1>0, <1>2, <1>9, <2>1, <2>2 DEF ServerTypes, ActiveAtAwait, Commands
  <2>5. NoChildForgotten' /\ TerminalAtAwait'
    BY <1>0, <1>1, <1>9, <2>2, IdleFacts DEF NoChildForgotten, TerminalAtAwait
  <2> QED BY <2>3, <2>4, <2>5 DEF ServerInv
<1>10. CASE Refused(a) \/ (h.kind = "tick" /\ ~h.live)
  <2>1. srvQueue' = Tail(q) /\ UNCHANGED <<srv, srvActive, children, srvSeen>>
    BY <1>10 DEF Begin, a
  <2> QED BY <1>0, <1>5, <2>1 DEF ServerTypes
<1>11. CASE h.kind = "pause" /\ ~Refused(a)
  <2>1. /\ srvSeen' = [srvSeen EXCEPT !.quiet = IF @ = "asked" THEN "answered" ELSE @]
        /\ srvQueue' = Tail(q) /\ UNCHANGED <<srv, srvActive, children>>
    BY <1>11 DEF Begin, a
  <2>2. /\ srvSeen' \in SeenRecords /\ srvSeen'.of = srvSeen.of /\ srvSeen'.upto = srvSeen.upto
        /\ srvSeen'.torn = srvSeen.torn /\ srvSeen'.aborted = srvSeen.aborted
    BY <1>0, <2>1 DEF ServerTypes, SeenRecords
  <2> QED BY <1>5, <2>1, <2>2
<1>12. CASE h.kind = "run" /\ ~Refused(a)
  BY <1>6, <1>12 DEF Begin, a
<1>13. CASE h.kind = "load" /\ ~Refused(a)
  BY <1>7, <1>13 DEF Begin, a
<1>14. CASE h.kind = "terminate" /\ ~Refused(a)
  BY <1>8, <1>14 DEF Begin, a
<1>15. CASE /\ h.kind \notin {"pause", "run", "load", "terminate"} /\ ~Refused(a)
            /\ h.kind = "tick" => h.live
  BY <1>9, <1>15 DEF Begin, Awaits, a
<1> QED BY <1>10, <1>11, <1>12, <1>13, <1>14, <1>15

LEMMA StutterServer == ServerInv /\ UNCHANGED serverVars => ServerInv'
BY DEF ServerInv, serverVars, ServerTypes, ActiveAtAwait, OneLoop, LoopHasSession, Quietened,
       NoChildForgotten, TerminalAtAwait

LEMMA ServerNextPreserves == ServerInv /\ [ServerNext]_serverVars => ServerInv'
BY RequestPreserves, TimerFiresPreserves, BeginPreserves, InstallPreserves, InitFailsPreserves,
   SessionClosedPreserves, SteppedPreserves, TerminalReadPreserves, ResetPerformedPreserves,
   ResetReadPreserves, InputTakenPreserves, InputWaitedPreserves, InputAdvancedPreserves,
   CommandFailsPreserves, ChildEndsPreserves, StutterServer
DEF ServerNext

LEMMA OneLoopAtMost == ServerTypes /\ OneLoop => Loops <= 1
<1> SUFFICES ASSUME ServerTypes, OneLoop PROVE Loops <= 1
  OBVIOUS
<1> DEFINE live == {i \in DOMAIN srvQueue : srvQueue[i].live}
<1>1. Len(srvQueue) \in Nat /\ DOMAIN srvQueue = 1 .. Len(srvQueue)
  BY DEF ServerTypes
<1>2. CASE live = {}
  <2>1. Cardinality(live) = 0
    BY <1>2, FS_EmptySet
  <2> QED BY <2>1 DEF Loops, OneLoop
<1>3. CASE live # {}
  <2>1. PICK i \in live : TRUE
    BY <1>3
  <2>2. live = {i}
    BY <1>1, <2>1 DEF OneLoop
  <2>3. Cardinality(live) = 1
    BY <2>2, FS_Singleton
  <2>4. ~srvActive.live /\ ~srv.timer
    BY <1>1, <2>1 DEF OneLoop
  <2> QED BY <2>3, <2>4 DEF Loops
<1> QED BY <1>2, <1>3

\* Whatever requests come while others wait or are performed, at every await: one run loop
\* at most, no child forgotten, a snapshot of the current session, and a terminal in order.
THEOREM ServerIsSound == ServerSpec => []ServerSound
<1>1. ServerInv => ServerSound
  <2> SUFFICES ASSUME ServerInv PROVE ServerSound
    OBVIOUS
  <2>1. ServerTypes /\ OneLoop /\ NoChildForgotten /\ TerminalAtAwait
    BY DEF ServerInv
  <2>2. TerminalInOrder
    BY <2>1, IdleFacts DEF TerminalAtAwait, TerminalInOrder
  <2> QED BY <2>1, <2>2, OneLoopAtMost DEF ServerSound, TerminalAtAwait
<1> QED BY <1>1, InitServerInv, ServerNextPreserves, PTL DEF ServerSpec
=============================================================================
