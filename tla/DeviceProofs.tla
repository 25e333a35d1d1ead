----------------------------- MODULE DeviceProofs -----------------------------
(***************************************************************************)
(* Proofs about the units around the hart: the interrupt controller for    *)
(* any number of sources and any wiring, the trap controller whatever CSRs *)
(* software writes, the memory path for any number of pages, frames, TLB   *)
(* entries and cache lines, the split virtqueue of any size, the console's *)
(* ring of any size, whenever its handler interrupts, and the              *)
(* accelerator's queues of any size, with counters of any width.           *)
(***************************************************************************)
EXTENDS Plic, TrapController, AddressSpace, Virtio, Console, AiAccelerator, QueueLemmas,
        FiniteSetTheorems, FunctionTheorems

-----------------------------------------------------------------------------
(* The interrupt controller *)

\* Whatever the search of the sources returns: where it is no source nothing changes.
LEMMA PlicStep == DeliveredOnce /\ [PlicNext]_plic => DeliveredOnce'
<1> SUFFICES ASSUME DeliveredOnce, [PlicNext]_plic PROVE DeliveredOnce'
  OBVIOUS
<1> USE DEF DeliveredOnce, PlicTypeOK, LevelsDeliveredOnce
<1>1. ASSUME NEW s \in Sources, NEW on \in BOOLEAN, SetSourceLevel(s, on)
      PROVE  DeliveredOnce'
  BY <1>1 DEF SetSourceLevel
<1>2. ASSUME NEW s \in Sources, NEW p \in 0 .. (MaxPriority + 1), WritePriority(s, p)
      PROVE  DeliveredOnce'
  <2>1. Masked(p) \in 0 .. MaxPriority
    BY PlicAssumption DEF Masked
  <2> QED BY <1>2, <2>1 DEF WritePriority
<1>3. ASSUME NEW ctx \in Contexts, NEW set \in SUBSET Sources, WriteEnables(ctx, set)
      PROVE  DeliveredOnce'
  BY <1>3 DEF WriteEnables
<1>4. ASSUME NEW ctx \in Contexts, NEW v \in 0 .. (MaxPriority + 1), WriteThreshold(ctx, v)
      PROVE  DeliveredOnce'
  <2>1. Masked(v) \in 0 .. MaxPriority
    BY PlicAssumption DEF Masked
  <2> QED BY <1>4, <2>1 DEF WriteThreshold
<1>5. ASSUME NEW ctx \in Contexts, Claim(ctx)
      PROVE  DeliveredOnce'
  <2>1. PICK s : plic' = [plic EXCEPT !.pending[s] = FALSE, !.claimedBy[s] = ctx]
    BY <1>5 DEF Claim
  <2>2. plic' = [level |-> plic.level, pending |-> [plic.pending EXCEPT ![s] = FALSE],
                 claimedBy |-> [plic.claimedBy EXCEPT ![s] = ctx], priority |-> plic.priority,
                 enables |-> plic.enables, threshold |-> plic.threshold]
    BY <2>1
  <2>3. /\ [plic.pending EXCEPT ![s] = FALSE] \in [Sources -> BOOLEAN]
        /\ [plic.claimedBy EXCEPT ![s] = ctx] \in [Sources -> Contexts \cup {Unclaimed}]
    OBVIOUS
  <2>4. PlicTypeOK'
    BY <2>2, <2>3
  <2>5. \A r \in Sources : /\ plic'.level[r] = plic.level[r]
                           /\ plic'.pending[r] = (r # s /\ plic.pending[r])
                           /\ plic'.claimedBy[r] = IF r = s THEN ctx ELSE plic.claimedBy[r]
    BY <2>2
  <2>6. ctx # Unclaimed
    BY DEF Contexts, Unclaimed
  <2>7. LevelsDeliveredOnce'
    BY <2>5, <2>6
  <2> QED BY <2>4, <2>7
<1>6. ASSUME NEW ctx \in Contexts, NEW s \in Sources, Complete(ctx, s)
      PROVE  DeliveredOnce'
  BY <1>6 DEF Complete
<1>7. CASE UNCHANGED plic
  BY <1>7
<1> QED BY <1>1, <1>2, <1>3, <1>4, <1>5, <1>6, <1>7 DEF PlicNext

\* However lines rise and fall while sources are claimed and completed, and whatever the guest
\* writes to the registers, no level is lost and none is pending while it is being handled.
THEOREM LevelsAreDelivered == PlicSpec => []DeliveredOnce
<1>1. PlicInit => DeliveredOnce
  BY PlicAssumption DEF PlicInit, DeliveredOnce, PlicTypeOK, LevelsDeliveredOnce, Unclaimed, Contexts
<1> QED BY <1>1, PlicStep, PTL DEF PlicSpec

\* What the search finds among the first i sources: an eligible one, unless there is none, and
\* the others are less urgent or come later.
BestAmong(ctx, i, b) ==
  /\ b \in 0 .. i /\ (b # 0 => Eligible(ctx, b))
  /\ \A t \in 1 .. i : Eligible(ctx, t) =>
       /\ b # 0
       /\ \/ plic.priority[t] < plic.priority[b]
          \/ plic.priority[t] = plic.priority[b] /\ b <= t

LEMMA BestPending ==
  ASSUME PlicTypeOK, NEW ctx \in Contexts
  PROVE  BestAmong(ctx, NumSources, BestPendingSource(ctx))
<1> DEFINE N == NumSources
           S == 0 .. N
           Visit(s, b) == IF Eligible(ctx, s) /\ plic.priority[s] > PriorityOf(b) THEN s ELSE b
           best == CHOOSE f : f = [s \in 0 .. N |-> IF s = 0 THEN 0 ELSE Visit(s, f[s - 1])]
           G == [i \in Nat |-> [b \in S |-> IF i \in S THEN Visit(i, b) ELSE b]]
<1>1. BestPendingSource(ctx) = best[N]
  BY DEF BestPendingSource
<1>2. N \in Nat
  BY PlicAssumption
<1>3. G \in [Nat -> [S -> S]] /\ \A i \in S, b \in S : G[i][b] = Visit(i, b)
  BY <1>2
<1> HIDE DEF N, G
<1>4. PICK f \in [0 .. N -> S] : Orbit(f, N, 0, G)
  <2>1. 0 \in S
    BY <1>2
  <2> HIDE DEF S
  <2>2. \A n \in Nat : \E f \in [0 .. n -> S] : Orbit(f, n, 0, G)
    BY ONLY <1>3, <2>1, Iterates
  <2> QED BY <1>2, <2>2
<1> HIDE DEF Visit
<1>5. f = [s \in 0 .. N |-> IF s = 0 THEN 0 ELSE Visit(s, f[s - 1])]
  <2>1. ASSUME NEW s \in 0 .. N PROVE f[s] = IF s = 0 THEN 0 ELSE Visit(s, f[s - 1])
    <3>1. s # 0 => s - 1 \in 0 .. N
      BY <1>2
    <3> QED BY <1>3, <1>4, <3>1 DEF Orbit
  <2> QED BY <1>4, <2>1
<1>6. best = [s \in 0 .. N |-> IF s = 0 THEN 0 ELSE Visit(s, best[s - 1])]
  BY <1>5
<1> HIDE DEF best, S
<1>7. \A s \in 0 .. N : best[s] = IF s = 0 THEN 0 ELSE Visit(s, best[s - 1])
  BY ONLY <1>6
<1> DEFINE Bad == {s \in 0 .. N : ~BestAmong(ctx, s, best[s])}
<1>8. Bad = {}
  <2>1. SUFFICES ASSUME Bad # {} PROVE FALSE
    OBVIOUS
  <2>2. PICK x \in Bad : \A y \in Bad : x <= y
    <3>1. Bad \in SUBSET Nat
      BY <1>2
    <3> HIDE DEF Bad
    <3> QED BY ONLY <2>1, <3>1, LeastOf
  <2>3. CASE x = 0
    <3>1. best[0] = 0
      BY <1>2, <1>7
    <3> QED BY <2>2, <2>3, <3>1 DEF BestAmong
  <2>4. CASE x # 0
    <3>1. x \in 0 .. N /\ x \in Nat /\ x - 1 \in 0 .. N /\ x - 1 < x
      BY <1>2, <2>2, <2>4
    <3>2. BestAmong(ctx, x - 1, best[x - 1])
      <4>1. x - 1 \notin Bad
        <5> HIDE DEF Bad
        <5> QED BY <2>2, <3>1
      <4> QED BY <3>1, <4>1
    <3> DEFINE b == best[x - 1]
               c == Visit(x, b)
    <3>3. best[x] = c
      BY <1>7, <2>4, <3>1
    <3>4. /\ b \in 0 .. (x - 1) /\ (b # 0 => Eligible(ctx, b))
          /\ \A t \in 1 .. (x - 1) : Eligible(ctx, t) =>
               /\ b # 0
               /\ \/ plic.priority[t] < plic.priority[b]
                  \/ plic.priority[t] = plic.priority[b] /\ b <= t
      BY <3>2 DEF BestAmong
    <3>5. \A t \in 1 .. x : plic.priority[t] \in Nat
      BY <1>2, <3>1, PlicAssumption DEF PlicTypeOK, Sources, N
    <3>6. c = IF Eligible(ctx, x) /\ plic.priority[x] > PriorityOf(b) THEN x ELSE b
      BY DEF Visit
    <3>7. Eligible(ctx, x) => plic.priority[x] > 0
      BY <2>4, <3>1, <3>5 DEF Eligible
    <3>8. PriorityOf(b) = (IF b = 0 THEN 0 ELSE plic.priority[b]) /\ (b # 0 => b \in 1 .. x)
      BY <3>1, <3>4 DEF PriorityOf
    <3> HIDE DEF b, c
    <3>9. c \in 0 .. x /\ (c # 0 => Eligible(ctx, c))
      BY ONLY <3>1, <3>4, <3>6
    <3>10. ASSUME NEW t \in 1 .. x, Eligible(ctx, t)
           PROVE  /\ c # 0
                  /\ \/ plic.priority[t] < plic.priority[c]
                     \/ plic.priority[t] = plic.priority[c] /\ c <= t
      <4>1. CASE t = x /\ c = x
        BY ONLY <2>4, <3>1, <4>1
      <4>2. CASE t = x /\ c # x
        <5>1. c = b /\ ~(plic.priority[x] > PriorityOf(b))
          BY ONLY <3>6, <3>10, <4>2
        <5>2. b # 0
          BY ONLY <3>5, <3>7, <3>8, <3>10, <4>2, <5>1, t \in 1 .. x
        <5>3. plic.priority[x] <= plic.priority[b]
          BY ONLY <3>5, <3>8, <4>2, <5>1, <5>2, t \in 1 .. x
        <5>4. plic.priority[x] \in Nat /\ plic.priority[b] \in Nat /\ b <= x
          BY ONLY <3>1, <3>5, <3>8, <4>2, <5>2, t \in 1 .. x
        <5> QED BY ONLY <4>2, <5>1, <5>2, <5>3, <5>4
      <4>3. CASE t # x
        <5>1. t \in 1 .. (x - 1)
          BY ONLY <3>1, <4>3, t \in 1 .. x
        <5>2. /\ b # 0
              /\ \/ plic.priority[t] < plic.priority[b]
                 \/ plic.priority[t] = plic.priority[b] /\ b <= t
          BY ONLY <3>4, <3>10, <5>1
        <5>3. plic.priority[t] \in Nat /\ plic.priority[b] \in Nat /\ plic.priority[x] \in Nat
          BY ONLY <2>4, <3>1, <3>5, <3>8, <5>2, t \in 1 .. x
        <5>4. CASE Eligible(ctx, x) /\ plic.priority[x] > PriorityOf(b)
          BY ONLY <2>4, <3>6, <3>8, <5>2, <5>3, <5>4
        <5>5. CASE ~(Eligible(ctx, x) /\ plic.priority[x] > PriorityOf(b))
          BY ONLY <3>6, <5>2, <5>5
        <5> QED BY <5>4, <5>5
      <4> QED BY <4>1, <4>2, <4>3
    <3>11. BestAmong(ctx, x, c)
      BY ONLY <3>9, <3>10 DEF BestAmong
    <3> QED BY <2>2, <3>3, <3>11
  <2> QED BY <2>3, <2>4
<1> QED BY <1>1, <1>2, <1>8 DEF N

\* A source that becomes claimed is the most urgent one (best_pending_source, read at the claim).
LEMMA ClaimedIsBest ==
  ASSUME PlicTypeOK, PlicNext, NEW ctx \in Contexts, NEW s \in Sources,
         plic.claimedBy[s] # ctx, plic'.claimedBy[s] = ctx
  PROVE  s = BestPendingSource(ctx)
<1>1. ASSUME NEW r \in Sources, NEW on \in BOOLEAN, SetSourceLevel(r, on)
      PROVE  FALSE
  BY <1>1 DEF SetSourceLevel, PlicTypeOK
<1>2. ASSUME NEW r \in Sources, NEW p \in 0 .. (MaxPriority + 1), WritePriority(r, p)
      PROVE  FALSE
  BY <1>2 DEF WritePriority, PlicTypeOK
<1>3. ASSUME NEW c \in Contexts, NEW set \in SUBSET Sources, WriteEnables(c, set)
      PROVE  FALSE
  BY <1>3 DEF WriteEnables, PlicTypeOK
<1>4. ASSUME NEW c \in Contexts, NEW v \in 0 .. (MaxPriority + 1), WriteThreshold(c, v)
      PROVE  FALSE
  BY <1>4 DEF WriteThreshold, PlicTypeOK
<1>5. ASSUME NEW c \in Contexts, Claim(c)
      PROVE  s = BestPendingSource(ctx)
  <2> DEFINE b == BestPendingSource(c)
  <2>1. plic' = [plic EXCEPT !.pending[b] = FALSE, !.claimedBy[b] = c]
    BY <1>5 DEF Claim
  <2> HIDE DEF b
  <2>2. plic'.claimedBy[s] = IF s = b THEN c ELSE plic.claimedBy[s]
    BY <2>1 DEF PlicTypeOK
  <2> QED BY <2>2 DEF b
<1>6. ASSUME NEW c \in Contexts, NEW r \in Sources, Complete(c, r)
      PROVE  FALSE
  <2>1. plic'.claimedBy[s] = IF s = r THEN Unclaimed ELSE plic.claimedBy[s]
    BY <1>6 DEF Complete, PlicTypeOK
  <2> QED BY <2>1 DEF Contexts, Unclaimed
<1> QED BY <1>1, <1>2, <1>3, <1>4, <1>5, <1>6 DEF PlicNext

\* A claim takes the most urgent source of its context, the one with the lowest number among
\* equals (devices/plic.cpp, best_pending_source).
THEOREM ClaimsAreMostUrgent == PlicSpec => ClaimTakesMostUrgent
<1>1. ASSUME DeliveredOnce, PlicNext, NEW ctx \in Contexts, NEW s \in Sources,
             plic.claimedBy[s] # ctx, plic'.claimedBy[s] = ctx,
             NEW t \in Sources \ {s}, Eligible(ctx, t)
      PROVE  \/ plic.priority[t] < plic.priority[s]
             \/ plic.priority[t] = plic.priority[s] /\ s < t
  <2>1. s = BestPendingSource(ctx)
    BY <1>1, ClaimedIsBest DEF DeliveredOnce
  <2>2. BestAmong(ctx, NumSources, s)
    BY <1>1, <2>1, BestPending DEF DeliveredOnce
  <2>3. t \in 1 .. NumSources /\ t # s /\ s \in 1 .. NumSources
    BY DEF Sources
  <2> QED BY <1>1, <2>2, <2>3, PlicAssumption DEF BestAmong
<1>2. DeliveredOnce /\ [PlicNext]_plic =>
        [\A ctx \in Contexts, s \in Sources :
           plic.claimedBy[s] # ctx /\ plic'.claimedBy[s] = ctx =>
             \A t \in Sources \ {s} :
               Eligible(ctx, t) =>
                 \/ plic.priority[t] < plic.priority[s]
                 \/ plic.priority[t] = plic.priority[s] /\ s < t]_plic
  BY <1>1
<1> QED BY <1>2, LevelsAreDelivered, PTL DEF PlicSpec, ClaimTakesMostUrgent

-----------------------------------------------------------------------------
(* The trap controller: which bits of mip are pending *)

HartType ==
  [mode : Modes, mie_ : BOOLEAN, mpie_ : BOOLEAN, mpp : Modes, sie_ : BOOLEAN,
   spie_ : BOOLEAN, spp : {"U", "S"}, mip : SUBSET Interrupts,
   mie : SUBSET Interrupts, mideleg : SUBSET Delegable, medeleg : BOOLEAN,
   timerMask : SUBSET {"MTI", "STI"}]

LineType == [timer : BOOLEAN, mext : BOOLEAN, sext : BOOLEAN, sstc : {"idle", "due"}]

Frame == [to : {"M", "S"}, mode : Modes, mie_ : BOOLEAN, sie_ : BOOLEAN]

TrapTypes ==
  /\ hart \in HartType /\ lines \in LineType
  /\ lines.mext => "MEI" \in Wired
  /\ lines.sext => "SEI" \in Wired
  /\ phase \in {"tick", "synced", "committed"} /\ backend \in {"functional", "pipeline"}
  /\ posted \subseteq Interrupts
  /\ taken \in Seq(Frame) /\ Len(taken) <= MaxNesting

Timers == {"MTI", "STI"}

\* A timer bit of mip was posted or put there by the last synchronisation, which remembers
\* it; between the servicing of an interrupt and the next tick one may come from stimecmp.
TimersAccounted ==
  /\ \A i \in hart.mip \cap Timers :
       i \in posted \cup hart.timerMask \/ (phase = "tick" /\ i = "STI" /\ lines.sstc = "due")
  /\ phase = "synced" /\ backend = "functional" /\ lines.sstc = "due" => "STI" \in posted

\* From the synchronisation to the servicing, the lines are up or the bits were posted.
BitsJustified ==
  phase = "synced" \/ (phase = "committed" /\ backend = "pipeline") =>
    \A i \in hart.mip : \/ i \in posted
                        \/ i = "MEI" /\ lines.mext
                        \/ i = "SEI" /\ lines.sext
                        \/ i \in Timers /\ lines.timer

MipInv == TrapTypes /\ TimersAccounted /\ BitsJustified

LEMMA InterruptNames ==
  /\ Interrupts \subseteq {"MEI", "SEI", "MTI", "STI"} /\ Timers \subseteq Interrupts
  /\ "MEI" \in Wired => "MEI" \in Interrupts
  /\ "SEI" \in Wired => "SEI" \in Interrupts
  /\ Delegable \subseteq {"SEI", "STI"} /\ Modes = {"U", "S", "M"}
BY TrapAssumption DEF Interrupts, Timers, Delegable, Modes, Level

\* What a synchronisation leaves in the hart, bit by bit.
SyncedTo(h, l, s) ==
  /\ s = [h EXCEPT !.mip = s.mip, !.timerMask = s.timerMask]
  /\ s \in HartType
  /\ \A i \in s.mip : \/ i = "MEI" /\ l.mext
                      \/ i = "SEI" /\ l.sext
                      \/ i \in Timers /\ l.timer /\ (i \in s.timerMask \/ (i = "STI" /\ l.sstc = "due"))
                      \/ i = "STI" /\ l.sstc = "due"
                      \/ i \in Timers /\ ~l.timer /\ i \in h.mip /\ i \notin h.timerMask
  /\ l.sstc = "due" => "STI" \in s.mip

LEMMA SyncedFacts ==
  ASSUME NEW h \in HartType, NEW l \in LineType,
         l.mext => "MEI" \in Wired, l.sext => "SEI" \in Wired, NEW s, s = Synced(h, l)
  PROVE  SyncedTo(h, l, s)
<1> DEFINE bit == IF "STI" \in h.mideleg THEN "STI" ELSE "MTI"
           due == IF l.sstc = "due" THEN {"STI"} ELSE {}
           mip1 == IF l.timer THEN ((h.mip \cup due) \cup {bit}) \ ({"MTI", "STI"} \ {bit})
                   ELSE IF h.timerMask = {} THEN h.mip ELSE (h.mip \cup due) \ h.timerMask
           mask == IF l.timer THEN {bit} ELSE {}
           ext == (IF l.mext THEN {"MEI"} ELSE {}) \cup (IF l.sext THEN {"SEI"} ELSE {})
           mip2 == ((mip1 \cup due) \ {"MEI", "SEI"}) \cup ext
<1>1. PICK timed : timed = [h EXCEPT !.mip = mip1, !.timerMask = mask]
  OBVIOUS
<1>2. timed.mip = mip1
  BY <1>1 DEF HartType
<1>3. s = [timed EXCEPT !.mip = mip2]
  BY <1>1, <1>2 DEF Synced, ReadMip
<1>4. s = [h EXCEPT !.mip = mip2, !.timerMask = mask]
  BY <1>1, <1>3 DEF HartType
<1>5. mip2 \subseteq Interrupts /\ mask \subseteq Timers
  BY InterruptNames DEF HartType, Timers
<1>6. s.mip = mip2 /\ s.timerMask = mask
  BY <1>4 DEF HartType
<1>7. s \in HartType
  <2> HIDE DEF mip2, mask
  <2>1. s = [mode |-> h.mode, mie_ |-> h.mie_, mpie_ |-> h.mpie_, mpp |-> h.mpp, sie_ |-> h.sie_,
             spie_ |-> h.spie_, spp |-> h.spp, mip |-> mip2, mie |-> h.mie, mideleg |-> h.mideleg,
             medeleg |-> h.medeleg, timerMask |-> mask]
    BY <1>4 DEF HartType
  <2> QED BY <1>5, <2>1 DEF HartType, Timers
<1>8. /\ \A i \in mip2 : \/ i = "MEI" /\ l.mext
                         \/ i = "SEI" /\ l.sext
                         \/ i \in Timers /\ l.timer /\ (i \in mask \/ (i = "STI" /\ l.sstc = "due"))
                         \/ i = "STI" /\ l.sstc = "due"
                         \/ i \in Timers /\ ~l.timer /\ i \in h.mip /\ i \notin h.timerMask
      /\ l.sstc = "due" => "STI" \in mip2
  BY InterruptNames DEF Timers, HartType
<1> QED BY <1>4, <1>6, <1>7, <1>8 DEF SyncedTo

\* A trap touches the modes and enables only.
LEMMA EnteredFacts ==
  ASSUME NEW h \in HartType, NEW d, NEW e, e = Entered(h, d)
  PROVE  /\ e \in HartType /\ e.mip = h.mip /\ e.timerMask = h.timerMask
         /\ e.mode = IF ToSupervisor(h, d) THEN "S" ELSE "M"
BY InterruptNames DEF Entered, ToSupervisor, HartType

-----------------------------------------------------------------------------
(* The traps remembered *)

OnePerLevel(q) == \A n, m \in 1 .. Len(q) : q[n].to = q[m].to => n = m

LEMMA OverwrittenFacts ==
  ASSUME taken \in Seq(Frame), NEW to
  PROVE  /\ Overwritten(to) \in Seq(Frame) /\ Len(Overwritten(to)) <= Len(taken)
         /\ OnePerLevel(taken) =>
              /\ OnePerLevel(Overwritten(to))
              /\ \A n \in 1 .. Len(Overwritten(to)) :
                   /\ Overwritten(to)[n].to # to
                   /\ \E m \in 1 .. Len(taken) : Overwritten(to)[n] = taken[m]
<1> DEFINE w == Overwritten(to)
<1>0. DOMAIN taken = 1 .. Len(taken) /\ Len(taken) \in Nat
  OBVIOUS
<1>1. CASE \A n \in DOMAIN taken : taken[n].to # to
  <2>1. w = taken
    BY <1>1 DEF Overwritten
  <2> HIDE DEF w
  <2> QED BY <1>0, <1>1, <2>1 DEF w
<1>2. CASE \E n \in DOMAIN taken : taken[n].to = to
  <2>1. PICK k : k = CHOOSE n \in DOMAIN taken : taken[n].to = to
    OBVIOUS
  <2>2. k \in 1 .. Len(taken) /\ taken[k].to = to
    BY <1>0, <1>2, <2>1
  <2>3. w = RemoveAt(taken, k)
    BY <1>2, <2>1 DEF Overwritten
  <2>4. w \in Seq(Frame) /\ Len(w) = Len(taken) - 1
        /\ \A n \in 1 .. Len(taken) - 1 : w[n] = IF n < k THEN taken[n] ELSE taken[n + 1]
    BY <2>2, <2>3, RemoveAtFacts
  <2>5. ASSUME OnePerLevel(taken)
        PROVE  /\ OnePerLevel(w)
               /\ \A n \in 1 .. Len(w) : w[n].to # to /\ \E m \in 1 .. Len(taken) : w[n] = taken[m]
    <3> HIDE DEF w
    <3> DEFINE at(n) == IF n < k THEN n ELSE n + 1
    <3>1. \A n \in 1 .. Len(w) : at(n) \in 1 .. Len(taken) /\ at(n) # k /\ w[n] = taken[at(n)]
      <4> TAKE n \in 1 .. Len(w)
      <4>1. n \in Int /\ k \in Int /\ n >= 1 /\ n <= Len(taken) - 1
        BY <1>0, <2>2, <2>4
      <4>2. n < k => k <= Len(taken)
        BY <2>2
      <4> QED BY <1>0, <2>4, <4>1, <4>2
    <3>2. \A n, m \in 1 .. Len(w) : at(n) = at(m) => n = m
      BY <1>0, <2>2, <2>4
    <3> HIDE DEF at
    <3>3. \A n \in 1 .. Len(w) : w[n].to # to
      BY <2>2, <2>5, <3>1 DEF OnePerLevel
    <3>4. OnePerLevel(w)
      BY <2>5, <3>1, <3>2 DEF OnePerLevel
    <3> QED BY <3>1, <3>3, <3>4
  <2> HIDE DEF w
  <2> QED BY <1>0, <2>4, <2>5 DEF w
<1> QED BY <1>1, <1>2

LEMMA RememberFacts ==
  ASSUME taken \in Seq(Frame), NEW h \in HartType, NEW d, Remember(h, d)
  PROVE  /\ taken' \in Seq(Frame) /\ Len(taken') <= MaxNesting
         /\ taken' = Append(Overwritten(IF ToSupervisor(h, d) THEN "S" ELSE "M"),
                            [to |-> IF ToSupervisor(h, d) THEN "S" ELSE "M",
                             mode |-> h.mode, mie_ |-> h.mie_, sie_ |-> h.sie_])
<1> DEFINE to == IF ToSupervisor(h, d) THEN "S" ELSE "M"
           frame == [to |-> to, mode |-> h.mode, mie_ |-> h.mie_, sie_ |-> h.sie_]
           w == Overwritten(to)
<1>1. taken' = Append(w, frame) /\ Len(taken) < MaxNesting
  BY DEF Remember
<1>2. frame \in Frame
  BY DEF Frame, HartType
<1>3. w \in Seq(Frame) /\ Len(w) <= Len(taken) /\ Len(taken) \in Nat /\ Len(w) \in Nat
  BY OverwrittenFacts
<1>4. Append(w, frame) \in Seq(Frame) /\ Len(Append(w, frame)) = Len(w) + 1
  BY <1>2, <1>3, AppendProperties
<1> QED BY <1>1, <1>3, <1>4, TrapAssumption

LEMMA ReturnedFacts ==
  ASSUME taken \in Seq(Frame), Len(taken) <= MaxNesting, NEW to, Returned(to)
  PROVE  /\ taken' \in Seq(Frame) /\ Len(taken') <= MaxNesting
         /\ \/ taken' = <<>>
            \/ /\ taken # <<>> /\ Last(taken).to = to /\ Len(taken') = Len(taken) - 1
               /\ \A n \in 1 .. Len(taken) - 1 : taken'[n] = taken[n]
<1>1. CASE taken # <<>> /\ Last(taken).to = to
  <2> DEFINE u == SubSeq(taken, 1, Len(taken) - 1)
  <2>1. taken' = u
    BY <1>1 DEF Returned, Front
  <2>2. Len(taken) \in Nat /\ Len(taken) > 0
    BY <1>1
  <2>3. /\ u \in Seq(Frame) /\ Len(u) = Len(taken) - 1
        /\ \A n \in 1 .. Len(taken) - 1 : u[n] = taken[n]
    <3>1. \A n \in 1 .. Len(taken) - 1 : n \in 1 .. Len(taken)
      BY <2>2
    <3>2. \A n \in 1 .. Len(taken) - 1 : taken[n] \in Frame
      BY <3>1, ElementOfSeq
    <3>3. PICK k \in Nat : k = Len(taken) - 1
      BY <2>2
    <3>4. u = SubSeq(taken, 1, k)
      BY <3>3
    <3>5. /\ u \in Seq(Frame) /\ Len(u) = IF 1 <= k THEN k - 1 + 1 ELSE 0
          /\ \A n \in 1 .. k - 1 + 1 : u[n] = taken[1 + n - 1]
      BY <3>2, <3>3, <3>4, SubSeqProperties
    <3> HIDE DEF u
    <3>6. Len(u) = k /\ \A n \in 1 .. k : u[n] = taken[n]
      BY <3>3, <3>5
    <3> QED BY <3>3, <3>5, <3>6
  <2> HIDE DEF u
  <2> QED BY <1>1, <2>1, <2>2, <2>3, TrapAssumption
<1>2. CASE ~(taken # <<>> /\ Last(taken).to = to)
  <2>1. taken' = <<>> /\ Len(<<>>) = 0 /\ <<>> \in Seq(Frame)
    BY <1>2 DEF Returned
  <2> QED BY <2>1, TrapAssumption
<1> QED BY <1>1, <1>2

-----------------------------------------------------------------------------
(* Pending bits are justified *)

LEMMA LinesFacts ==
  ASSUME TrapTypes, TimePasses
  PROVE  /\ lines' \in LineType
         /\ lines'.mext => "MEI" \in Wired
         /\ lines'.sext => "SEI" \in Wired
         /\ lines.sstc = "due" => lines'.sstc = "due"
<1>1. CASE LinesChange
  <2>1. PICK t \in BOOLEAN, m \in BOOLEAN, s \in BOOLEAN :
          /\ m => "MEI" \in Wired
          /\ s => "SEI" \in Wired
          /\ lines' = [timer |-> t, mext |-> m, sext |-> s, sstc |-> lines.sstc]
    BY <1>1 DEF LinesChange
  <2> QED BY <2>1 DEF TrapTypes, LineType
<1>2. CASE lines.sstc = "idle" /\ lines' = [lines EXCEPT !.sstc = "due"]
  BY <1>2 DEF TrapTypes, LineType
<1> QED BY <1>1, <1>2 DEF TimePasses

\* A synchronisation accounts for every bit, if the bits before it were accounted for.
SyncStep ==
  /\ TimePasses /\ hart' = Synced(hart, lines') /\ posted' = Unaccounted(hart', lines')
  /\ UNCHANGED <<backend, taken>>
  /\ phase' \in {"tick", "synced", "committed"}

LEMMA SyncStepFacts ==
  ASSUME TrapTypes, TimersAccounted, SyncStep
  PROVE  MipInv'
<1>1. /\ lines' \in LineType /\ (lines'.mext => "MEI" \in Wired) /\ (lines'.sext => "SEI" \in Wired)
      /\ (lines.sstc = "due" => lines'.sstc = "due")
  BY LinesFacts DEF SyncStep
<1>2. SyncedTo(hart, lines', hart')
  BY <1>1, SyncedFacts DEF SyncStep, TrapTypes
<1>3. hart' \in HartType
  BY <1>2 DEF SyncedTo
<1>4. posted' = ((posted \cup (IF lines'.sstc = "due" THEN {"STI"} ELSE {})) \ {"MEI", "SEI"}) \cap hart'.mip
  BY DEF SyncStep, Unaccounted
<1>5. posted' \subseteq Interrupts
  BY <1>3, <1>4 DEF HartType
<1>6. TrapTypes'
  BY <1>1, <1>3, <1>5 DEF TrapTypes, SyncStep
<1>7. lines'.sstc = "due" => "STI" \in posted'
  BY <1>2, <1>4 DEF SyncedTo
<1>8. ASSUME NEW i \in hart'.mip, i \in Timers
      PROVE  i \in posted' \/ (i \in hart'.timerMask /\ lines'.timer)
  <2>1. CASE i \in hart.mip /\ i \notin hart.timerMask
    <3>1. i \in posted \/ (i = "STI" /\ lines'.sstc = "due")
      BY <1>1, <1>8, <2>1 DEF TimersAccounted
    <3> QED BY <1>4, <1>8, <3>1 DEF Timers
  <2>2. CASE ~(i \in hart.mip /\ i \notin hart.timerMask)
    BY <1>2, <1>7, <1>8, <2>2 DEF SyncedTo, Timers
  <2> QED BY <2>1, <2>2
<1>9. TimersAccounted'
  BY <1>7, <1>8 DEF TimersAccounted
<1>10. ASSUME NEW i \in hart'.mip
       PROVE  \/ i \in posted'
              \/ i = "MEI" /\ lines'.mext
              \/ i = "SEI" /\ lines'.sext
              \/ i \in Timers /\ lines'.timer
  <2>1. CASE i \in Timers
    BY <1>8, <2>1
  <2>2. CASE i \notin Timers
    BY <1>2, <2>2 DEF SyncedTo, Timers
  <2> QED BY <2>1, <2>2
<1>11. BitsJustified'
  BY <1>10 DEF BitsJustified
<1> QED BY <1>6, <1>9, <1>11 DEF MipInv

\* Most instructions move neither bits nor lines.
QuietStep ==
  /\ phase = IF backend = "functional" THEN "committed" ELSE "synced"
  /\ phase' = IF backend = "functional" THEN "tick" ELSE "committed"
  /\ backend' = backend /\ posted' = posted
  /\ hart'.mip = hart.mip /\ hart'.timerMask = hart.timerMask

LEMMA QuietFacts ==
  ASSUME MipInv, QuietStep, TrapTypes'
  PROVE  /\ TimersAccounted'
         /\ lines' = lines \/ backend = "functional" => BitsJustified'
<1>1. \A i \in hart.mip \cap Timers : i \in posted \cup hart.timerMask
  BY DEF MipInv, TimersAccounted, QuietStep
<1>2. TimersAccounted'
  BY <1>1 DEF TimersAccounted, QuietStep
<1>3. CASE backend = "functional"
  BY <1>2, <1>3 DEF BitsJustified, QuietStep
<1>4. CASE backend = "pipeline" /\ lines' = lines
  BY <1>2, <1>4 DEF BitsJustified, QuietStep, MipInv
<1> QED BY <1>2, <1>3, <1>4 DEF MipInv, TrapTypes

LEMMA ServiceMip ==
  ASSUME MipInv, Service
  PROVE  MipInv'
<1> DEFINE ready == Serviceable(hart, lines)
<1>1. /\ phase = IF backend = "functional" THEN "synced" ELSE "committed"
      /\ phase' = IF backend = "functional" THEN "committed" ELSE "tick"
      /\ lines' = lines /\ backend' = backend
  BY DEF Service
<1>2. CASE UNCHANGED <<hart, posted, taken>>
  <2>1. TrapTypes'
    BY <1>1, <1>2 DEF MipInv, TrapTypes
  <2>2. TimersAccounted'
    BY <1>1, <1>2 DEF MipInv, TimersAccounted
  <2>3. BitsJustified'
    BY <1>1, <1>2 DEF MipInv, BitsJustified, TrapTypes
  <2> QED BY <2>1, <2>2, <2>3 DEF MipInv
<1>3. ASSUME NEW i \in ready, NEW h, h = [hart EXCEPT !.mip = ReadMip(hart, lines) \ {i}],
             hart' = Entered(h, i \in h.mideleg), Remember(h, i \in h.mideleg),
             posted' = posted \ {i}
      PROVE  MipInv'
  <2>1. ReadMip(hart, lines) \subseteq Interrupts /\ i \in Interrupts
    BY <1>3 DEF MipInv, TrapTypes, HartType, Serviceable, ReadMip, Interrupts
  <2>2. h \in HartType /\ h.mip = ReadMip(hart, lines) \ {i} /\ h.timerMask = hart.timerMask
    BY <1>3, <2>1 DEF MipInv, TrapTypes, HartType
  <2>3. hart' \in HartType /\ hart'.mip = ReadMip(hart, lines) \ {i} /\ hart'.timerMask = hart.timerMask
    BY <1>3, <2>2, EnteredFacts
  <2>4. taken' \in Seq(Frame) /\ Len(taken') <= MaxNesting
    BY <1>3, <2>2, RememberFacts DEF MipInv, TrapTypes
  <2>5. TrapTypes'
    BY <1>1, <1>3, <2>3, <2>4 DEF MipInv, TrapTypes
  <2>6. TimersAccounted'
    <3>1. \A j \in hart.mip \cap Timers : j \in posted \cup hart.timerMask
      BY <1>1 DEF MipInv, TimersAccounted
    <3>2. ASSUME NEW j \in hart'.mip \cap Timers
          PROVE  j \in posted' \cup hart'.timerMask \/ (phase' = "tick" /\ j = "STI" /\ lines'.sstc = "due")
      <4>1. j # i /\ (j \in hart.mip \/ (j = "STI" /\ lines.sstc = "due"))
        BY <2>3, <3>2 DEF ReadMip
      <4>2. CASE j \in hart.mip
        BY <1>3, <2>3, <3>1, <3>2, <4>1, <4>2
      <4>3. CASE j = "STI" /\ lines.sstc = "due"
        BY <1>1, <1>3, <2>3, <4>1, <4>3 DEF MipInv, TrapTypes, TimersAccounted
      <4> QED BY <4>1, <4>2, <4>3
    <3> QED BY <1>1, <3>2 DEF TimersAccounted
  <2>7. BitsJustified'
    BY <1>1 DEF MipInv, TrapTypes, BitsJustified
  <2> QED BY <2>5, <2>6, <2>7 DEF MipInv
<1> QED BY <1>2, <1>3 DEF Service

LEMMA WriteMipMip ==
  ASSUME MipInv, WriteMip
  PROVE  MipInv'
<1>1. /\ phase = IF backend = "functional" THEN "committed" ELSE "synced"
      /\ phase' = IF backend = "functional" THEN "tick" ELSE "committed"
      /\ lines' = lines /\ backend' = backend /\ taken' = taken
  BY DEF WriteMip, Phase
<1> DEFINE wanted(on, i) == IF on THEN ReadMip(hart, lines) \cup {i} ELSE ReadMip(hart, lines) \ {i}
<1>a. PICK mask \in {Interrupts, hart.mideleg} : \E i \in mask, on \in BOOLEAN :
        /\ hart' = [hart EXCEPT !.mip = (@ \ mask) \cup (wanted(on, i) \cap mask)]
        /\ posted' = (IF on THEN posted \cup {i} ELSE posted \ {i})
                       \cup ((ReadMip(hart, lines) \ hart.mip) \cap hart'.mip)
  BY DEF WriteMip, Phase
<1>b. PICK i \in mask, on \in BOOLEAN :
        /\ hart' = [hart EXCEPT !.mip = (@ \ mask) \cup (wanted(on, i) \cap mask)]
        /\ posted' = (IF on THEN posted \cup {i} ELSE posted \ {i})
                       \cup ((ReadMip(hart, lines) \ hart.mip) \cap hart'.mip)
  BY <1>a
<1>c. PICK value : value = wanted(on, i)
  OBVIOUS
<1>2. /\ value = IF on THEN ReadMip(hart, lines) \cup {i} ELSE ReadMip(hart, lines) \ {i}
      /\ hart' = [hart EXCEPT !.mip = (@ \ mask) \cup (value \cap mask)]
      /\ posted' = (IF on THEN posted \cup {i} ELSE posted \ {i})
                       \cup ((ReadMip(hart, lines) \ hart.mip) \cap hart'.mip)
  BY <1>b, <1>c
<1>3. mask \subseteq Interrupts
  BY InterruptNames DEF MipInv, TrapTypes, HartType, Delegable, Interrupts, Level
<1>4. PICK bits : bits = (hart.mip \ mask) \cup (value \cap mask)
  OBVIOUS
<1>5. bits \subseteq Interrupts
  BY <1>3, <1>4 DEF MipInv, TrapTypes, HartType
<1>6. hart' = [hart EXCEPT !.mip = bits]
  BY <1>2, <1>4
<1>7. hart' \in HartType /\ hart'.mip = bits /\ hart'.timerMask = hart.timerMask
  BY <1>5, <1>6 DEF MipInv, TrapTypes, HartType
<1>8. posted' \subseteq Interrupts
  BY <1>2, <1>3, <1>5, <1>7 DEF MipInv, TrapTypes
<1>9. TrapTypes'
  BY <1>1, <1>7, <1>8 DEF MipInv, TrapTypes
<1>10. ASSUME NEW j \in hart'.mip
       PROVE  j \in posted' \/ (j \in hart.mip /\ j \notin posted)
              \/ (j \in hart.mip /\ j \in posted /\ j # i)
  BY <1>2, <1>4, <1>7 DEF ReadMip
<1>11. \A j \in hart'.mip : j \in posted' \/ (j \in hart.mip /\ j \notin posted)
  BY <1>2, <1>10
<1>12. TimersAccounted'
  BY <1>1, <1>7, <1>11 DEF MipInv, TimersAccounted, TrapTypes
<1>13. BitsJustified'
  BY <1>1, <1>7, <1>11 DEF MipInv, BitsJustified, TrapTypes
<1> QED BY <1>9, <1>12, <1>13 DEF MipInv

LEMMA TypesKept ==
  ASSUME TrapTypes, Other \/ Exception \/ Mret \/ Sret \/ WriteMstatus \/ WriteSstatus
                    \/ WriteEnableOrDelegation
  PROVE  QuietStep /\ TrapTypes' /\ lines' = lines
<1>0. taken' = <<>> => taken' \in Seq(Frame) /\ Len(taken') <= MaxNesting
  BY EmptySeq, TrapAssumption
<1> USE DEF Phase, QuietStep, TrapTypes
<1>1. CASE Other
  BY <1>1 DEF Other
<1>2. CASE Exception
  <2>1. hart' \in HartType /\ hart'.mip = hart.mip /\ hart'.timerMask = hart.timerMask
    BY <1>2, EnteredFacts DEF Exception
  <2>2. taken' \in Seq(Frame) /\ Len(taken') <= MaxNesting
    BY <1>2, RememberFacts DEF Exception
  <2>3. /\ phase = IF backend = "functional" THEN "committed" ELSE "synced"
        /\ phase' = IF backend = "functional" THEN "tick" ELSE "committed"
        /\ UNCHANGED <<lines, backend, posted>>
    BY <1>2 DEF Exception
  <2> QED BY <2>1, <2>2, <2>3
<1>3. CASE Mret
  <2>1. hart' \in HartType /\ hart'.mip = hart.mip /\ hart'.timerMask = hart.timerMask
    BY <1>3, InterruptNames DEF Mret, HartType
  <2>2. taken' \in Seq(Frame) /\ Len(taken') <= MaxNesting
    BY <1>3, ReturnedFacts DEF Mret
  <2> QED BY <1>3, <2>1, <2>2 DEF Mret
<1>4. CASE Sret
  <2>1. hart' \in HartType /\ hart'.mip = hart.mip /\ hart'.timerMask = hart.timerMask
    BY <1>4, InterruptNames DEF Sret, HartType
  <2>2. taken' \in Seq(Frame) /\ Len(taken') <= MaxNesting
    BY <1>4, ReturnedFacts DEF Sret
  <2> QED BY <1>4, <2>1, <2>2 DEF Sret
<1>5. CASE WriteMstatus
  <2>1. hart' \in HartType /\ hart'.mip = hart.mip /\ hart'.timerMask = hart.timerMask
    BY <1>5, InterruptNames DEF WriteMstatus, HartType, SanitizedMpp
  <2>2. taken' = <<>>
    BY <1>5 DEF WriteMstatus
  <2> QED BY <1>5, <2>1, <2>2, <1>0 DEF WriteMstatus
<1>6. CASE WriteSstatus
  <2>1. hart' \in HartType /\ hart'.mip = hart.mip /\ hart'.timerMask = hart.timerMask
    BY <1>6 DEF WriteSstatus, HartType
  <2>2. taken' = <<>>
    BY <1>6 DEF WriteSstatus
  <2> QED BY <1>6, <2>1, <2>2, <1>0 DEF WriteSstatus
<1>7. CASE WriteEnableOrDelegation
  <2>1. hart' \in HartType /\ hart'.mip = hart.mip /\ hart'.timerMask = hart.timerMask
    BY <1>7 DEF WriteEnableOrDelegation, HartType
  <2> QED BY <1>7, <2>1 DEF WriteEnableOrDelegation
<1> QED BY <1>1, <1>2, <1>3, <1>4, <1>5, <1>6, <1>7

\* Every pending bit stays accounted for.
LEMMA MipKept ==
  ASSUME MipInv, [TrapNext]_trapVars
  PROVE  MipInv'
<1>1. CASE Tick
  <2>1. SyncStep
    BY <1>1 DEF Tick, SyncStep
  <2> QED BY <2>1, SyncStepFacts DEF MipInv
<1>2. CASE Service
  BY <1>2, ServiceMip
<1>3. CASE WriteMip
  BY <1>3, WriteMipMip
<1>4. CASE Other \/ Exception \/ Mret \/ Sret \/ WriteMstatus \/ WriteSstatus \/ WriteEnableOrDelegation
  <2>1. QuietStep /\ TrapTypes' /\ lines' = lines
    BY <1>4, TypesKept DEF MipInv
  <2> QED BY <2>1, QuietFacts DEF MipInv
<1>5. CASE WriteStimecmp
  <2>1. PICK t \in {"idle", "due"} : lines' = [lines EXCEPT !.sstc = t]
    BY <1>5 DEF WriteStimecmp, Phase
  <2>2. TrapTypes' /\ QuietStep
    BY <1>5, <2>1 DEF WriteStimecmp, Phase, MipInv, TrapTypes, LineType, QuietStep
  <2>3. lines'.timer = lines.timer /\ lines'.mext = lines.mext /\ lines'.sext = lines.sext
    BY <2>1 DEF MipInv, TrapTypes, LineType
  <2>4. BitsJustified'
    BY <2>2, <2>3 DEF MipInv, BitsJustified, QuietStep, TrapTypes
  <2> QED BY <2>2, <2>4, QuietFacts DEF MipInv
<1>6. CASE DeviceStore
  <2>1. TimePasses /\ Phase(TRUE)
    BY <1>6 DEF DeviceStore, TimePasses, Phase
  <2>2. CASE backend = "pipeline"
    <3>1. SyncStep
      BY <1>6, <2>1, <2>2 DEF DeviceStore, SyncStep, Phase
    <3> QED BY <3>1, SyncStepFacts DEF MipInv
  <2>3. CASE backend = "functional"
    <3>1. QuietStep /\ UNCHANGED <<hart, taken>>
      BY <1>6, <2>3 DEF DeviceStore, Phase, QuietStep
    <3>2. TrapTypes'
      BY <2>1, <2>3, <3>1, LinesFacts DEF MipInv, TrapTypes, QuietStep
    <3> QED BY <2>3, <3>1, <3>2, QuietFacts DEF MipInv
  <2> QED BY <2>2, <2>3 DEF MipInv, TrapTypes
<1>7. CASE UNCHANGED trapVars
  BY <1>7 DEF trapVars, MipInv, TrapTypes, TimersAccounted, BitsJustified
<1> QED BY <1>1, <1>2, <1>3, <1>4, <1>5, <1>6, <1>7 DEF TrapNext

LEMMA MipInitially == TrapInit => MipInv
BY InterruptNames, TrapAssumption DEF TrapInit, MipInv, TrapTypes, HartType, LineType, TimersAccounted, BitsJustified

\* At the moment interrupts are serviced, every pending bit is justified by a line or a write.
LEMMA MipJustified == MipInv => PendingIsJustified
<1> SUFFICES ASSUME MipInv PROVE PendingIsJustified
  OBVIOUS
<1>1. TrapTypeOK
  BY DEF MipInv, TrapTypes, TrapTypeOK, HartType
<1>2. ASSUME phase = (IF backend = "functional" THEN "synced" ELSE "committed"),
             NEW i \in ReadMip(hart, lines)
      PROVE  Justified(i)
  BY <1>2 DEF MipInv, BitsJustified, TrapTypes, ReadMip, Justified, Timers
<1> QED BY <1>1, <1>2 DEF PendingIsJustified, NoStaleInterrupt

\* On either backend, however lines, delegation and mip change inside and between cycles, no
\* interrupt is serviced that no line holds up and no write posted.
THEOREM NothingStaleIsServiced == TrapSpec => []PendingIsJustified
<1>1. MipInv /\ [TrapNext]_trapVars => MipInv'
  BY MipKept
<1> QED BY <1>1, MipInitially, MipJustified, PTL DEF TrapSpec

-----------------------------------------------------------------------------
(* Traps nest *)

\* The hart h still holds what the traps of q saved, and no handler is interruptible.
Held(h, q) ==
  /\ OnePerLevel(q)
  /\ \A n \in 1 .. Len(q) :
       /\ q[n].to = "M" => /\ n = Len(q) /\ h.mode = "M" /\ ~h.mie_
                           /\ h.mpp = q[n].mode /\ h.mpie_ = q[n].mie_
       /\ q[n].to = "S" => /\ h.mode # "U" /\ ~h.sie_
                           /\ h.spp = q[n].mode /\ h.spie_ = q[n].sie_
  /\ \A n, m \in 1 .. Len(q) : q[n].to = "M" /\ q[m].to = "S" => q[n].mode # "U"

NestInv == MipInv /\ Held(hart, taken)

SameLevels(h, s) ==
  /\ s.mode = h.mode /\ s.mie_ = h.mie_ /\ s.mpie_ = h.mpie_ /\ s.mpp = h.mpp
  /\ s.sie_ = h.sie_ /\ s.spie_ = h.spie_ /\ s.spp = h.spp

LEMMA HeldBySame ==
  ASSUME NEW h, NEW s, NEW q, Held(h, q), SameLevels(h, s)
  PROVE  Held(s, q)
BY DEF Held, SameLevels

LEMMA HeldByNone == \A h : Held(h, <<>>)
BY DEF Held, OnePerLevel

\* A trap saves the mode and enable it finds and leaves those of the other level.
LEMMA HeldOnEntry ==
  ASSUME taken \in Seq(Frame), NEW h \in HartType, Held(h, taken), NEW d,
         hart' = Entered(h, d), Remember(h, d)
  PROVE  Held(hart', taken')
<1> DEFINE to == IF ToSupervisor(h, d) THEN "S" ELSE "M"
           w == Overwritten(to)
           frame == [to |-> to, mode |-> h.mode, mie_ |-> h.mie_, sie_ |-> h.sie_]
<1>1. taken' = Append(w, frame) /\ frame \in Frame
  BY RememberFacts DEF Frame, HartType
<1>2. /\ w \in Seq(Frame) /\ OnePerLevel(w)
      /\ \A n \in 1 .. Len(w) : w[n].to # to /\ \E m \in 1 .. Len(taken) : w[n] = taken[m]
  BY OverwrittenFacts DEF Held
<1> HIDE DEF w
<1>3. /\ Len(taken') = Len(w) + 1 /\ Len(w) \in Nat /\ taken'[Len(w) + 1] = frame
      /\ \A n \in 1 .. Len(w) : taken'[n] = w[n]
  <2> HIDE DEF frame
  <2> QED BY <1>1, <1>2, AppendProperties
<1>4. \A n \in 1 .. Len(taken') : n \in 1 .. Len(w) \/ n = Len(w) + 1
  BY <1>3
<1>5. \A n \in 1 .. Len(taken') : taken'[n].to = to <=> n = Len(w) + 1
  <2> TAKE n \in 1 .. Len(taken')
  <2>1. CASE n \in 1 .. Len(w)
    BY <1>2, <1>3, <2>1
  <2>2. CASE n = Len(w) + 1
    BY <1>3, <2>2
  <2> QED BY <1>4, <2>1, <2>2
<1>6. OnePerLevel(taken')
  <2> SUFFICES ASSUME NEW n \in 1 .. Len(taken'), NEW m \in 1 .. Len(taken'), taken'[n].to = taken'[m].to
               PROVE  n = m
    BY DEF OnePerLevel
  <2>1. CASE n = Len(w) + 1 \/ m = Len(w) + 1
    BY <1>5, <2>1
  <2>2. CASE n \in 1 .. Len(w) /\ m \in 1 .. Len(w)
    BY <1>2, <1>3, <2>2 DEF OnePerLevel
  <2> QED BY <1>4, <2>1, <2>2
<1>7. CASE ToSupervisor(h, d)
  <2>1. to = "S" /\ h.mode # "M" /\ h.mode \in {"U", "S"}
    BY <1>7, InterruptNames DEF ToSupervisor, HartType
  <2>2. /\ hart'.mode = "S" /\ hart'.sie_ = FALSE /\ hart'.spie_ = h.sie_
        /\ hart'.spp = IF h.mode = "S" THEN "S" ELSE "U"
    BY <1>7 DEF Entered, HartType
  <2>3. \A n \in 1 .. Len(w) : w[n].to # "M"
    BY <1>2, <2>1 DEF Held
  <2>4. \A n \in 1 .. Len(w) : w[n].to \in {"M", "S"}
    <3>1. \A n \in 1 .. Len(w) : w[n] \in Frame
      BY <1>2, ElementOfSeq
    <3> QED BY <3>1 DEF Frame
  <2>5. Len(w) = 0
    BY <1>2, <1>3, <2>1, <2>3, <2>4
  <2>6. \A n \in 1 .. Len(taken') : taken'[n] = frame
    BY <1>3, <1>4, <2>5
  <2> QED BY <1>6, <2>1, <2>2, <2>6 DEF Held
<1>8. CASE ~ToSupervisor(h, d)
  <2>1. to = "M"
    BY <1>8
  <2>2. /\ hart'.mode = "M" /\ hart'.mie_ = FALSE /\ hart'.mpp = h.mode /\ hart'.mpie_ = h.mie_
        /\ hart'.sie_ = h.sie_ /\ hart'.spie_ = h.spie_ /\ hart'.spp = h.spp
    BY <1>8 DEF Entered, HartType
  <2>3. \A n \in 1 .. Len(w) : /\ w[n].to # "M"
                               /\ w[n].to = "S" => /\ h.mode # "U" /\ ~h.sie_
                                                   /\ h.spp = w[n].mode /\ h.spie_ = w[n].sie_
    BY <1>2, <2>1 DEF Held
  <2>4. ASSUME NEW n \in 1 .. Len(taken')
        PROVE  /\ taken'[n].to = "M" => /\ n = Len(taken') /\ hart'.mode = "M" /\ ~hart'.mie_
                                        /\ hart'.mpp = taken'[n].mode /\ hart'.mpie_ = taken'[n].mie_
                                        /\ taken'[n].mode = h.mode
               /\ taken'[n].to = "S" => /\ hart'.mode # "U" /\ ~hart'.sie_
                                        /\ hart'.spp = taken'[n].mode /\ hart'.spie_ = taken'[n].sie_
                                        /\ h.mode # "U"
    <3>1. CASE n \in 1 .. Len(w)
      BY <1>3, <2>2, <2>3, <3>1
    <3>2. CASE n = Len(w) + 1
      BY <1>3, <2>1, <2>2, <3>2
    <3> QED BY <1>4, <3>1, <3>2
  <2> QED BY <1>6, <2>4 DEF Held
<1> QED BY <1>7, <1>8

LEMMA HeldOnMret ==
  ASSUME MipInv, Held(hart, taken), Mret
  PROVE  Held(hart', taken')
<1>1. /\ hart'.mode = hart.mpp /\ hart'.sie_ = hart.sie_ /\ hart'.spie_ = hart.spie_ /\ hart'.spp = hart.spp
      /\ Returned("M")
  BY DEF Mret, Phase, MipInv, TrapTypes, HartType
<1>2. CASE taken' = <<>>
  BY <1>2, HeldByNone
<1>3. CASE /\ taken # <<>> /\ Last(taken).to = "M" /\ Len(taken') = Len(taken) - 1
           /\ \A n \in 1 .. Len(taken) - 1 : taken'[n] = taken[n]
  <2>1. Len(taken) \in Nat /\ Len(taken) > 0 /\ taken[Len(taken)].to = "M"
    BY <1>3 DEF MipInv, TrapTypes, Last
  <2>2. \A n \in 1 .. Len(taken') :
          /\ n \in 1 .. Len(taken) /\ n # Len(taken) /\ taken'[n] = taken[n] /\ taken[n].to # "M"
    BY <1>3, <2>1 DEF Held, OnePerLevel
  <2>3. \A n \in 1 .. Len(taken') : taken[n].to = "S" => hart.mpp # "U"
    BY <2>1, <2>2 DEF Held
  <2>4. OnePerLevel(taken')
    BY <2>2 DEF Held, OnePerLevel
  <2> QED BY <1>1, <2>2, <2>3, <2>4 DEF Held
<1> QED BY <1>1, <1>2, <1>3, ReturnedFacts DEF MipInv, TrapTypes

LEMMA HeldOnSret ==
  ASSUME MipInv, Held(hart, taken), Sret
  PROVE  Held(hart', taken')
<1>1. Returned("S")
  BY DEF Sret, Phase
<1>2. CASE taken' = <<>>
  BY <1>2, HeldByNone
<1>3. CASE /\ taken # <<>> /\ Last(taken).to = "S" /\ Len(taken') = Len(taken) - 1
           /\ \A n \in 1 .. Len(taken) - 1 : taken'[n] = taken[n]
  <2>1. Len(taken) \in Nat /\ Len(taken) > 0 /\ taken[Len(taken)].to = "S"
    BY <1>3 DEF MipInv, TrapTypes, Last
  <2>2. \A n \in 1 .. Len(taken') :
          n \in 1 .. Len(taken) /\ n # Len(taken) /\ taken[n].to \in {"M", "S"}
    <3>1. \A n \in 1 .. Len(taken) : taken[n] \in Frame
      BY ElementOfSeq DEF MipInv, TrapTypes
    <3>2. \A n \in 1 .. Len(taken) : taken[n].to \in {"M", "S"}
      BY <3>1 DEF Frame
    <3> QED BY <1>3, <2>1, <3>2
  <2>3. \A n \in 1 .. Len(taken') : FALSE
    BY <2>1, <2>2 DEF Held, OnePerLevel
  <2> QED BY <2>3 DEF Held, OnePerLevel
<1> QED BY <1>1, <1>2, <1>3, ReturnedFacts DEF MipInv, TrapTypes

LEMMA HeldKept ==
  ASSUME NestInv, [TrapNext]_trapVars
  PROVE  Held(hart', taken')
<1> USE DEF NestInv, MipInv, TrapTypes
<1>1. CASE Tick
  <2>1. SyncedTo(hart, lines', hart')
    BY <1>1, LinesFacts, SyncedFacts DEF Tick
  <2>2. PICK s : s = hart'
    OBVIOUS
  <2>3. SameLevels(hart, hart')
    BY <2>1, <2>2 DEF SyncedTo, SameLevels, HartType
  <2> QED BY <1>1, <2>3, HeldBySame DEF Tick
<1>2. CASE DeviceStore
  <2>1. TimePasses /\ taken' = taken
    BY <1>2 DEF DeviceStore, TimePasses, Phase
  <2>2. SameLevels(hart, hart')
    <3>1. CASE backend = "pipeline"
      <4>1. SyncedTo(hart, lines', hart')
        BY <1>2, <2>1, <3>1, LinesFacts, SyncedFacts DEF DeviceStore, Phase
      <4> QED BY <4>1 DEF SyncedTo, SameLevels, HartType
    <3>2. CASE backend # "pipeline"
      BY <1>2, <3>2 DEF DeviceStore, Phase, SameLevels
    <3> QED BY <3>1, <3>2
  <2> QED BY <2>1, <2>2, HeldBySame
<1>3. CASE Service
  <2>1. CASE UNCHANGED <<hart, posted, taken>>
    BY <2>1
  <2>2. ASSUME NEW i \in Serviceable(hart, lines), NEW h,
               h = [hart EXCEPT !.mip = ReadMip(hart, lines) \ {i}],
               hart' = Entered(h, i \in h.mideleg), Remember(h, i \in h.mideleg)
        PROVE  Held(hart', taken')
    <3>1. ReadMip(hart, lines) \subseteq Interrupts
      BY DEF HartType, ReadMip, Interrupts
    <3>2. h \in HartType /\ SameLevels(hart, h)
      BY <2>2, <3>1 DEF HartType, SameLevels
    <3>3. Held(h, taken)
      BY <3>2, HeldBySame
    <3> QED BY <2>2, <3>2, <3>3, HeldOnEntry
  <2> QED BY <1>3, <2>1, <2>2 DEF Service
<1>4. CASE Exception
  BY <1>4, HeldOnEntry DEF Exception, Phase
<1>5. CASE Mret
  BY <1>5, HeldOnMret
<1>6. CASE Sret
  BY <1>6, HeldOnSret
<1>7. CASE WriteMstatus \/ WriteSstatus
  BY <1>7, HeldByNone DEF WriteMstatus, WriteSstatus, Phase
<1>8. CASE WriteEnableOrDelegation \/ WriteMip \/ WriteStimecmp \/ Other
  <2>1. SameLevels(hart, hart') /\ taken' = taken
    BY <1>8 DEF WriteEnableOrDelegation, WriteMip, WriteStimecmp, Other, Phase, SameLevels, HartType
  <2> QED BY <2>1, HeldBySame
<1>9. CASE UNCHANGED trapVars
  BY <1>9 DEF trapVars
<1> QED BY <1>1, <1>2, <1>3, <1>4, <1>5, <1>6, <1>7, <1>8, <1>9 DEF TrapNext

\* The three parts of TrapsNest, of one step.
LEMMA ServicedByEnabled ==
  ASSUME TrapTypes, Service, taken' # taken
  PROVE  \E h \in HartType, i \in Interrupts :
           /\ SameLevels(hart, h) /\ hart' = Entered(h, i \in h.mideleg) /\ Remember(h, i \in h.mideleg)
           /\ IF ToSupervisor(h, i \in h.mideleg) THEN SupervisorEnabled(hart) ELSE MachineEnabled(hart)
<1>1. PICK i \in Serviceable(hart, lines) :
        LET h == [hart EXCEPT !.mip = ReadMip(hart, lines) \ {i}]
        IN  hart' = Entered(h, i \in h.mideleg) /\ Remember(h, i \in h.mideleg)
  BY DEF Service
<1>2. PICK h : h = [hart EXCEPT !.mip = ReadMip(hart, lines) \ {i}]
  OBVIOUS
<1>3. ReadMip(hart, lines) \subseteq Interrupts
  BY DEF TrapTypes, HartType, ReadMip, Interrupts
<1>4. h \in HartType /\ SameLevels(hart, h) /\ h.mideleg = hart.mideleg
  BY <1>2, <1>3 DEF TrapTypes, HartType, SameLevels
<1>5. i \in Interrupts /\ hart.mideleg \subseteq Delegable
  BY <1>3 DEF Serviceable, TrapTypes, HartType
<1>6. hart.mode = "M" => ~SupervisorEnabled(hart)
  BY DEF SupervisorEnabled
<1>7. IF ToSupervisor(h, i \in h.mideleg) THEN SupervisorEnabled(hart) ELSE MachineEnabled(hart)
  BY <1>4, <1>5, <1>6 DEF ToSupervisor, Serviceable, SameLevels
<1> QED BY <1>1, <1>2, <1>4, <1>5, <1>7

LEMMA NestStep ==
  ASSUME NestInv, TrapNext
  PROVE  NeverLowers /\ Restores /\ HandlerKept
<1> USE DEF NestInv, MipInv, TrapTypes
<1>1. NeverLowers
  <2> SUFFICES ASSUME Service \/ Exception PROVE Level[hart'.mode] >= Level[hart.mode]
    BY DEF NeverLowers
  <2>1. hart.mode \in {"U", "S", "M"} /\ Level["U"] = 0 /\ Level["S"] = 1 /\ Level["M"] = 3
    BY InterruptNames DEF HartType, Level
  <2>2. CASE hart'.mode = hart.mode
    BY <2>1, <2>2
  <2>3. ASSUME NEW h \in HartType, NEW d, h.mode = hart.mode, hart' = Entered(h, d)
        PROVE  hart'.mode = "M" \/ (hart'.mode = "S" /\ hart.mode # "M")
    <3>1. hart'.mode = IF ToSupervisor(h, d) THEN "S" ELSE "M"
      BY <2>3, EnteredFacts
    <3>2. CASE ToSupervisor(h, d)
      BY <2>3, <3>1, <3>2 DEF ToSupervisor
    <3>3. CASE ~ToSupervisor(h, d)
      BY <3>1, <3>3
    <3> QED BY <3>2, <3>3
  <2>4. CASE Service
    <3>1. CASE taken' = taken /\ hart' = hart
      BY <2>2, <3>1
    <3>2. ASSUME NEW i \in Serviceable(hart, lines),
                 hart' = Entered([hart EXCEPT !.mip = ReadMip(hart, lines) \ {i}],
                                 i \in [hart EXCEPT !.mip = ReadMip(hart, lines) \ {i}].mideleg)
          PROVE  hart'.mode = "M" \/ (hart'.mode = "S" /\ hart.mode # "M")
      <4>1. ReadMip(hart, lines) \subseteq Interrupts
        BY DEF HartType, ReadMip, Interrupts
      <4>2. PICK h : h = [hart EXCEPT !.mip = ReadMip(hart, lines) \ {i}]
        OBVIOUS
      <4>3. h \in HartType /\ h.mode = hart.mode
        BY <4>1, <4>2 DEF HartType
      <4> QED BY <2>3, <3>2, <4>2, <4>3
    <3>3. \/ taken' = taken /\ hart' = hart
          \/ \E i \in Serviceable(hart, lines) :
               hart' = Entered([hart EXCEPT !.mip = ReadMip(hart, lines) \ {i}],
                               i \in [hart EXCEPT !.mip = ReadMip(hart, lines) \ {i}].mideleg)
      BY <2>4 DEF Service
    <3>4. hart' = hart \/ hart'.mode = "M" \/ (hart'.mode = "S" /\ hart.mode # "M")
      BY ONLY <3>2, <3>3, Zenon
    <3> QED BY <2>1, <3>4
  <2>5. CASE Exception
    <3>1. hart' = Entered(hart, hart.medeleg)
      BY <2>5 DEF Exception, Phase
    <3>2. hart'.mode = "M" \/ (hart'.mode = "S" /\ hart.mode # "M")
      BY <2>3, <3>1
    <3> QED BY <2>1, <3>2
  <2> QED BY <2>4, <2>5
<1>2. Restores
  <2>1. Len(taken) \in Nat /\ (taken # <<>> => Len(taken) \in 1 .. Len(taken)) /\ Last(taken) = taken[Len(taken)]
    BY DEF Last
  <2>2. ASSUME Mret, taken # <<>>, Last(taken).to = "M"
        PROVE  hart'.mode = Last(taken).mode /\ hart'.mie_ = Last(taken).mie_
    <3>1. hart.mpp = Last(taken).mode /\ hart.mpie_ = Last(taken).mie_
      BY <2>1, <2>2 DEF Held
    <3> QED BY <2>2, <3>1 DEF Mret, Phase, HartType
  <2>3. ASSUME Sret, taken # <<>>, Last(taken).to = "S"
        PROVE  hart'.mode = Last(taken).mode /\ hart'.sie_ = Last(taken).sie_
    <3>1. hart.spp = Last(taken).mode /\ hart.spie_ = Last(taken).sie_
      BY <2>1, <2>3 DEF Held
    <3> QED BY <2>3, <3>1 DEF Sret, Phase, HartType
  <2> QED BY <2>2, <2>3 DEF Restores
<1>3. HandlerKept
  <2> SUFFICES ASSUME Service, taken' # taken, NEW n \in DOMAIN taken, Last(taken').to = taken[n].to
               PROVE  FALSE
    BY DEF HandlerKept
  <2>1. PICK h \in HartType, i \in Interrupts :
          /\ SameLevels(hart, h) /\ hart' = Entered(h, i \in h.mideleg) /\ Remember(h, i \in h.mideleg)
          /\ IF ToSupervisor(h, i \in h.mideleg) THEN SupervisorEnabled(hart) ELSE MachineEnabled(hart)
    BY ServicedByEnabled
  <2> DEFINE to == IF ToSupervisor(h, i \in h.mideleg) THEN "S" ELSE "M"
             w == Overwritten(to)
             frame == [to |-> to, mode |-> h.mode, mie_ |-> h.mie_, sie_ |-> h.sie_]
  <2>2. taken' = Append(w, frame) /\ w \in Seq(Frame) /\ frame \in Frame
    BY <2>1, RememberFacts, OverwrittenFacts DEF Frame, HartType
  <2>3. Last(taken') = frame
    <3> HIDE DEF w, frame
    <3>1. Len(taken') = Len(w) + 1 /\ taken'[Len(w) + 1] = frame
      BY <2>2, AppendProperties
    <3> QED BY <3>1 DEF Last
  <2>4. n \in 1 .. Len(taken) /\ taken[n].to = to
    BY <2>3
  <2> QED BY <2>1, <2>4 DEF Held, SupervisorEnabled, MachineEnabled, SameLevels
<1> QED BY <1>1, <1>2, <1>3

\* Whatever traps, returns and writes to the trap registers come in whatever order: a trap
\* never lowers the privilege, a return restores what its trap found, and no handler is
\* interrupted to its own level before it returned or enabled interrupts.
THEOREM TrapsNestAndUnwind == TrapSpec => TrapsNest
<1>1. TrapInit => NestInv
  <2> SUFFICES ASSUME TrapInit PROVE NestInv
    OBVIOUS
  <2>1. taken = <<>>
    BY DEF TrapInit
  <2> QED BY <2>1, MipInitially, HeldByNone DEF NestInv
<1>2. NestInv /\ [TrapNext]_trapVars => NestInv'
  BY MipKept, HeldKept DEF NestInv
<1>3. NestInv /\ [TrapNext]_trapVars => [NeverLowers /\ Restores /\ HandlerKept]_trapVars
  BY NestStep
<1> QED BY <1>1, <1>2, <1>3, PTL DEF TrapSpec, TrapsNest

-----------------------------------------------------------------------------
(* The data cache *)

Pte == [valid : BOOLEAN, frame : Cells, perms : SUBSET {"r", "w", "x"},
        user : BOOLEAN, a : BOOLEAN, d : BOOLEAN]

\* A cache of at most L1Lines lines, each cell in one of them.
CacheOK(l1) ==
  /\ l1 = [recent |-> l1.recent, copy |-> l1.copy]
  /\ l1.recent \in Seq(Cells) /\ Distinct(l1.recent) /\ Len(l1.recent) <= L1Lines
  /\ l1.copy = [c \in DOMAIN l1.copy |-> l1.copy[c]]
  /\ DOMAIN l1.copy = ToSet(l1.recent)

LEMMA HeldAt ==
  ASSUME NEW l1, CacheOK(l1), NEW c, Holds(l1, c)
  PROVE  Position(l1, c) \in 1 .. Len(l1.recent) /\ l1.recent[Position(l1, c)] = c
<1>1. DOMAIN l1.recent = 1 .. Len(l1.recent)
  BY DEF CacheOK
<1>2. ToSet(l1.recent) = {l1.recent[i] : i \in 1 .. Len(l1.recent)}
  BY QueueSet DEF CacheOK
<1>3. \E n \in DOMAIN l1.recent : l1.recent[n] = c
  BY <1>1, <1>2 DEF CacheOK, Holds
<1> QED BY <1>1, <1>3 DEF Position

\* A line is dropped, and the others are as they were.
LEMMA WithoutFacts ==
  ASSUME NEW l1, CacheOK(l1), NEW c
  PROVE  /\ CacheOK(Without(l1, c))
         /\ DOMAIN Without(l1, c).copy = DOMAIN l1.copy \ {c}
         /\ \A k \in DOMAIN l1.copy \ {c} : Without(l1, c).copy[k] = l1.copy[k]
         /\ Holds(l1, c) => Len(Without(l1, c).recent) = Len(l1.recent) - 1
<1>1. CASE ~Holds(l1, c)
  BY <1>1 DEF Without, Holds, CacheOK
<1>2. CASE Holds(l1, c)
  <2> DEFINE q == l1.recent
             k == Position(l1, c)
             r == RemoveAt(q, k)
             f == Restrict(l1.copy, DOMAIN l1.copy \ {c})
  <2>1. k \in 1 .. Len(q) /\ q[k] = c
    BY <1>2, HeldAt
  <2>2. q \in Seq(Cells) /\ Distinct(q) /\ Len(q) \in Nat /\ Len(q) <= L1Lines
    BY DEF CacheOK
  <2> HIDE DEF k, q
  <2>3. /\ r \in Seq(Cells) /\ Len(r) = Len(q) - 1 /\ Distinct(r)
        /\ ToSet(r) = ToSet(q) \ {c}
    BY <2>1, <2>2, RemoveAtFacts, RemoveAtSet
  <2>4. /\ DOMAIN f = DOMAIN l1.copy \ {c}
        /\ f = [x \in DOMAIN f |-> f[x]]
        /\ \A x \in DOMAIN l1.copy \ {c} : f[x] = l1.copy[x]
    BY DEF Restrict
  <2>5. Without(l1, c) = [recent |-> r, copy |-> f]
    BY <1>2 DEF Without, q, k
  <2>6. DOMAIN l1.copy = ToSet(q)
    BY DEF CacheOK, q
  <2>7. L1Lines \in Nat
    BY AddressSpaceAssumption
  <2> HIDE DEF r, f
  <2>8. CacheOK([recent |-> r, copy |-> f])
    BY <2>2, <2>3, <2>4, <2>6, <2>7 DEF CacheOK
  <2> QED BY <2>3, <2>4, <2>5, <2>8 DEF q
<1> QED BY <1>1, <1>2

\* A line that is used moves to the end.
LEMMA TouchFacts ==
  ASSUME NEW l1, CacheOK(l1), NEW c \in Cells, Holds(l1, c)
  PROVE  CacheOK(Touch(l1, c)) /\ Touch(l1, c).copy = l1.copy
<1> DEFINE w == Without(l1, c)
<1>1. CacheOK(w) /\ DOMAIN w.copy = DOMAIN l1.copy \ {c} /\ Len(w.recent) = Len(l1.recent) - 1
  BY WithoutFacts
<1>2. Touch(l1, c) = [recent |-> Append(w.recent, c), copy |-> l1.copy]
  <2>1. PICK q, f : l1 = [recent |-> q, copy |-> f]
    BY DEF CacheOK
  <2>2. Touch(l1, c) = [l1 EXCEPT !.recent = Append(w.recent, c)]
    BY DEF Touch
  <2> HIDE DEF w
  <2> QED BY <2>1, <2>2
<1> HIDE DEF w
<1>3. /\ w.recent \in Seq(Cells) /\ Distinct(w.recent)
      /\ ToSet(w.recent) = DOMAIN l1.copy \ {c}
  BY <1>1 DEF CacheOK
<1>4. /\ Append(w.recent, c) \in Seq(Cells) /\ Distinct(Append(w.recent, c))
      /\ ToSet(Append(w.recent, c)) = DOMAIN l1.copy
      /\ Len(Append(w.recent, c)) = Len(l1.recent)
  <2>1. ToSet(Append(w.recent, c)) = ToSet(w.recent) \cup {c} /\ Distinct(Append(w.recent, c))
    BY <1>3, AppendSet
  <2>2. Len(Append(w.recent, c)) = Len(w.recent) + 1 /\ Append(w.recent, c) \in Seq(Cells)
    BY <1>3, AppendProperties
  <2>3. Len(l1.recent) \in Nat /\ c \in DOMAIN l1.copy
    BY DEF CacheOK, Holds
  <2> QED BY <1>1, <1>3, <2>1, <2>2, <2>3
<1> DEFINE q == Append(w.recent, c)
<1> HIDE DEF q
<1>5. CacheOK([recent |-> q, copy |-> l1.copy])
  BY <1>4 DEF CacheOK, q
<1> QED BY <1>2, <1>5 DEF q

\* A line that is filled is added to the others.
LEMMA FilledFacts ==
  ASSUME NEW l1, CacheOK(l1), NEW c \in Cells, ~Holds(l1, c), Len(l1.recent) < L1Lines, NEW v
  PROVE  /\ CacheOK(Filled(l1, c, v))
         /\ DOMAIN Filled(l1, c, v).copy = DOMAIN l1.copy \cup {c}
         /\ Filled(l1, c, v).copy[c] = v
         /\ \A k \in DOMAIN l1.copy : Filled(l1, c, v).copy[k] = l1.copy[k]
<1> DEFINE q == Append(l1.recent, c)
           f == [k \in DOMAIN l1.copy \cup {c} |-> IF k = c THEN v ELSE l1.copy[k]]
<1>1. /\ q \in Seq(Cells) /\ Distinct(q) /\ ToSet(q) = DOMAIN l1.copy \cup {c} /\ Len(q) <= L1Lines
  <2>1. l1.recent \in Seq(Cells) /\ Distinct(l1.recent) /\ ToSet(l1.recent) = DOMAIN l1.copy
    BY DEF CacheOK
  <2>2. c \notin ToSet(l1.recent)
    BY <2>1 DEF Holds
  <2>3. ToSet(q) = ToSet(l1.recent) \cup {c} /\ Distinct(q)
    BY <2>1, <2>2, AppendSet
  <2>4. Len(q) = Len(l1.recent) + 1 /\ q \in Seq(Cells) /\ Len(l1.recent) \in Nat
    BY <2>1, AppendProperties
  <2>5. L1Lines \in Nat
    BY AddressSpaceAssumption
  <2> HIDE DEF q
  <2> QED BY <2>1, <2>3, <2>4, <2>5
<1>2. /\ DOMAIN f = DOMAIN l1.copy \cup {c} /\ f = [k \in DOMAIN f |-> f[k]]
      /\ f[c] = v /\ \A k \in DOMAIN l1.copy : f[k] = l1.copy[k]
  BY DEF Holds
<1>3. Filled(l1, c, v) = [recent |-> q, copy |-> f]
  BY DEF Filled
<1> HIDE DEF q, f
<1>4. CacheOK([recent |-> q, copy |-> f])
  BY <1>1, <1>2 DEF CacheOK
<1> QED BY <1>2, <1>3, <1>4

\* A load leaves the cache with lines it had, and with the one read from memory m.
LEMMA L1LoadFacts ==
  ASSUME NEW l1, CacheOK(l1), NEW c \in Cells, NEW m
  PROVE  /\ CacheOK(L1Load(l1, c, m))
         /\ \A k \in DOMAIN L1Load(l1, c, m).copy :
              \/ k \in DOMAIN l1.copy /\ L1Load(l1, c, m).copy[k] = l1.copy[k]
              \/ k \notin DOMAIN l1.copy /\ k = c /\ L1Load(l1, c, m).copy[k] = m[c]
<1>1. CASE L1Lines = 0
  BY <1>1 DEF L1Load
<1>2. CASE L1Lines # 0 /\ Holds(l1, c)
  <2>1. L1Load(l1, c, m) = Touch(l1, c)
    BY <1>2 DEF L1Load
  <2> QED BY <1>2, <2>1, TouchFacts
<1>3. CASE L1Lines # 0 /\ ~Holds(l1, c)
  <2> DEFINE room == IF Len(l1.recent) < L1Lines THEN l1 ELSE Without(l1, Head(l1.recent))
             w == Filled(room, c, m[c])
  <2>1. L1Load(l1, c, m) = w
    BY <1>3 DEF L1Load
  <2>2. l1.recent \in Seq(Cells) /\ Len(l1.recent) \in Nat /\ Len(l1.recent) <= L1Lines
        /\ L1Lines \in Nat
    BY AddressSpaceAssumption DEF CacheOK
  <2>3. /\ CacheOK(room) /\ Len(room.recent) < L1Lines
        /\ DOMAIN room.copy \subseteq DOMAIN l1.copy
        /\ \A k \in DOMAIN room.copy : room.copy[k] = l1.copy[k]
    <3>1. CASE Len(l1.recent) < L1Lines
      BY <3>1
    <3>2. CASE ~(Len(l1.recent) < L1Lines)
      <4>1. l1.recent # <<>> /\ Len(l1.recent) = L1Lines
        BY <1>3, <2>2, <3>2
      <4>2. Holds(l1, Head(l1.recent))
        BY <2>2, <4>1, TailSet DEF Holds, CacheOK
      <4>3. room = Without(l1, Head(l1.recent))
        BY <3>2
      <4> HIDE DEF room
      <4> QED BY <2>2, <4>1, <4>2, <4>3, WithoutFacts
    <3> QED BY <3>1, <3>2
  <2> HIDE DEF room
  <2>4. ~Holds(room, c)
    BY <1>3, <2>3 DEF Holds
  <2>5. /\ CacheOK(w) /\ DOMAIN w.copy = DOMAIN room.copy \cup {c} /\ w.copy[c] = m[c]
        /\ \A k \in DOMAIN room.copy : w.copy[k] = room.copy[k]
    BY <2>3, <2>4, FilledFacts
  <2> HIDE DEF w
  <2> QED BY <1>3, <2>1, <2>3, <2>5 DEF Holds
<1> QED BY <1>1, <1>2, <1>3

\* A store writes the line of its cell, if there is one.
LEMMA L1StoreFacts ==
  ASSUME NEW l1, CacheOK(l1), NEW c \in Cells, NEW v
  PROVE  /\ CacheOK(L1Store(l1, c, v))
         /\ DOMAIN L1Store(l1, c, v).copy = DOMAIN l1.copy
         /\ \A k \in DOMAIN l1.copy : L1Store(l1, c, v).copy[k] = IF k = c THEN v ELSE l1.copy[k]
<1>1. CASE ~Holds(l1, c)
  BY <1>1 DEF L1Store, Holds
<1>2. CASE Holds(l1, c)
  <2> DEFINE w == Touch(l1, c)
             f == [l1.copy EXCEPT ![c] = v]
  <2>1. CacheOK(w) /\ w.copy = l1.copy
    BY <1>2, TouchFacts
  <2>2. L1Store(l1, c, v) = [w EXCEPT !.copy[c] = v]
    BY <1>2 DEF L1Store
  <2> HIDE DEF w
  <2>3. L1Store(l1, c, v) = [recent |-> w.recent, copy |-> f]
    BY <2>1, <2>2 DEF CacheOK
  <2>4. /\ DOMAIN f = DOMAIN l1.copy /\ f = [k \in DOMAIN f |-> f[k]]
        /\ \A k \in DOMAIN l1.copy : f[k] = IF k = c THEN v ELSE l1.copy[k]
    BY DEF CacheOK
  <2> HIDE DEF f
  <2>5. CacheOK([recent |-> w.recent, copy |-> f])
    BY <2>1, <2>4 DEF CacheOK
  <2> QED BY <2>3, <2>4, <2>5
<1> QED BY <1>1, <1>2
-----------------------------------------------------------------------------
(* Translation *)

TlbEntry == [page : {None}] \cup [page : Pages, pte : Pte]
PathType ==
  [mode : {"U", "S", "M"}, sum : BOOLEAN, satp : {"bare", "sv39"}, tlb : [1 .. TlbSize -> TlbEntry],
   victim : 1 .. TlbSize, l1 : {path.l1}, reservation : Cells \cup {None}]

\* Types, with the cache as CacheOK says.
SpaceTypes ==
  /\ path \in PathType
  /\ CacheOK(path.l1)
  /\ ram = [c \in Cells |-> ram[c]] /\ \A p \in Pages : ram[p] \in Pte
  /\ changed \subseteq Pages /\ dirtied \subseteq Pages

\* What makes MemoryCoherent inductive: a page that was stored through since software wrote
\* its entry is not one whose entry the TLB may have wrong.
SpaceInv ==
  /\ SpaceTypes
  /\ TlbShowsPageTable
  /\ StoresLeaveDirtyBit /\ dirtied \cap changed = {}
  /\ LinesAgree
  /\ ReservationIntact

\* The cells: entries and frames are apart, and None is neither.
LEMMA CellFacts ==
  /\ \A c \in Pages : c \in Cells /\ c \notin Frames /\ c # None
  /\ \A c \in Frames : c \in Cells /\ c \notin Pages /\ c # None
  /\ TlbSize \in Nat \ {0} /\ None \notin Cells
BY AddressSpaceAssumption DEF Cells, None

LEMMA ContentsFacts == \A c \in Cells : c \notin Frames => Contents(c) \subseteq Pte
BY AddressSpaceAssumption DEF Contents, Pte, Cells

\* The entry a translation uses is the page table's, unless software wrote that one.
LEMMA EntryFacts ==
  ASSUME SpaceTypes, TlbShowsPageTable, NEW p \in Pages
  PROVE  /\ Entry(p) \in Pte
         /\ p \notin changed => Entry(p) = ram[p]
         /\ \A n \in TlbSlots(p) : n \in 1 .. TlbSize /\ path.tlb[n].page = p /\ Entry(p) = path.tlb[n].pte
<1>1. \A n \in TlbSlots(p) : n \in 1 .. TlbSize /\ path.tlb[n].page = p
  BY DEF TlbSlots
<1>2. \A n \in 1 .. TlbSize : path.tlb[n].page = p => path.tlb[n].pte \in Pte
  <2> TAKE n \in 1 .. TlbSize
  <2>1. path.tlb[n] \in TlbEntry
    BY DEF SpaceTypes, PathType
  <2> QED BY <2>1, CellFacts DEF TlbEntry
<1>3. CASE TlbSlots(p) = {}
  BY <1>3 DEF Entry, SpaceTypes
<1>4. CASE TlbSlots(p) # {}
  <2>1. PICK m \in TlbSlots(p) : m = CHOOSE n \in TlbSlots(p) : TRUE
    BY <1>4
  <2>2. Entry(p) = path.tlb[m].pte
    BY <1>4, <2>1 DEF Entry
  <2>3. \A n \in TlbSlots(p) : n = m
    BY <1>1, <2>1, CellFacts DEF TlbShowsPageTable
  <2>4. p \notin changed => path.tlb[m].pte = ram[p]
    BY <1>1, CellFacts DEF TlbShowsPageTable
  <2> QED BY <1>1, <1>2, <2>2, <2>3, <2>4
<1> QED BY <1>3, <1>4

LEMMA AccessBits ==
  ASSUME NEW pte \in Pte, NEW type
  PROVE  /\ WithAccessBits(pte, type) \in Pte
         /\ WithAccessBits(pte, type).a
         /\ pte.d \/ type = "store" => WithAccessBits(pte, type).d
BY DEF WithAccessBits, Pte

\* What a walk leaves of path: all but the TLB.
LEMMA WalkedFacts ==
  ASSUME SpaceTypes, TlbShowsPageTable, NEW x \in Addresses, NEW type
  PROVE  /\ Walked(x, type) = [path EXCEPT !.tlb = Walked(x, type).tlb, !.victim = Walked(x, type).victim]
         /\ Walked(x, type).tlb \in [1 .. TlbSize -> TlbEntry]
         /\ Walked(x, type).victim \in 1 .. TlbSize
         /\ RamWalked(x, type) = [c \in Cells |-> RamWalked(x, type)[c]]
         /\ \A p \in Pages : RamWalked(x, type)[p] \in Pte
         /\ \A c \in Cells : c \notin WalkWrote(x, type) => RamWalked(x, type)[c] = ram[c]
         /\ WalkWrote(x, type) \subseteq Pages
         /\ Cell(x) \in Cells
<1>1. CASE ~Translated
  <2>1. Walked(x, type) = path /\ RamWalked(x, type) = ram /\ Cell(x) = x /\ x \in Cells
    BY <1>1 DEF Walked, RamWalked, Cell, Addresses
  <2>2. path = [path EXCEPT !.tlb = path.tlb, !.victim = path.victim]
    BY DEF SpaceTypes, PathType
  <2>3. path.tlb \in [1 .. TlbSize -> TlbEntry] /\ path.victim \in 1 .. TlbSize
    BY DEF SpaceTypes, PathType
  <2>4. WalkWrote(x, type) = {}
    BY <2>1 DEF WalkWrote
  <2> QED BY <2>1, <2>2, <2>3, <2>4 DEF SpaceTypes
<1>2. CASE Translated
  <2>1. x \in Pages
    BY <1>2 DEF Addresses
  <2> DEFINE e == WithAccessBits(Entry(x), type)
             tlb == TlbAfter(x, type)
             victim == VictimAfter(x)
             r == RamAfter(x, type)
  <2>2. Walked(x, type) = [path EXCEPT !.tlb = tlb, !.victim = victim] /\ RamWalked(x, type) = r
        /\ Cell(x) = Entry(x).frame
    BY <1>2 DEF Walked, RamWalked, Cell
  <2>3. e \in Pte /\ Entry(x) \in Pte
    BY <2>1, EntryFacts, AccessBits
  <2>4. Cell(x) \in Cells
    BY <2>2, <2>3 DEF Pte
  <2>5. /\ r = [c \in Cells |-> r[c]] /\ \A p \in Pages : r[p] \in Pte
        /\ \A c \in Cells : c # x => r[c] = ram[c]
    <3>1. r = IF e = Entry(x) THEN ram ELSE [ram EXCEPT ![x] = e]
      BY DEF RamAfter
    <3> HIDE DEF r, e
    <3> QED BY <2>1, <2>3, <3>1 DEF SpaceTypes
  <2>6. path.tlb \in [1 .. TlbSize -> TlbEntry] /\ path.victim \in 1 .. TlbSize /\ TlbSize \in Nat \ {0}
    BY CellFacts DEF SpaceTypes, PathType
  <2>7. [page |-> x, pte |-> e] \in TlbEntry
    BY <2>1, <2>3 DEF TlbEntry
  <2>8. tlb \in [1 .. TlbSize -> TlbEntry]
    <3> HIDE DEF e
    <3>1. tlb = IF TlbSlots(x) # {}
                THEN [n \in 1 .. TlbSize |-> IF n \in TlbSlots(x) THEN [page |-> x, pte |-> e] ELSE path.tlb[n]]
                ELSE [path.tlb EXCEPT ![path.victim] = [page |-> x, pte |-> e]]
      BY DEF TlbAfter, e
    <3> HIDE DEF tlb
    <3> QED BY <2>6, <2>7, <3>1
  <2>9. victim \in 1 .. TlbSize
    <3>1. path.victim % TlbSize \in 0 .. TlbSize - 1
      BY <2>6
    <3> QED BY <2>6, <3>1 DEF VictimAfter
  <2>10. WalkWrote(x, type) = IF r = ram THEN {} ELSE {x}
    BY <2>2 DEF WalkWrote
  <2>11. \A c \in Cells : c \notin WalkWrote(x, type) => r[c] = ram[c]
    BY <2>5, <2>10
  <2>12. Walked(x, type).tlb = tlb /\ Walked(x, type).victim = victim
    BY <2>2 DEF SpaceTypes, PathType
  <2> HIDE DEF tlb, victim, r, e
  <2>13. WalkWrote(x, type) \subseteq Pages
    BY <2>1, <2>10
  <2> QED BY <2>2, <2>4, <2>5, <2>8, <2>9, <2>11, <2>12, <2>13
<1> QED BY <1>1, <1>2

\* After a walk the TLB shows the page table that the walk leaves.
LEMMA WalkKeepsTlb ==
  ASSUME SpaceTypes, TlbShowsPageTable, NEW x \in Addresses, NEW type,
         NEW m \in 1 .. TlbSize, NEW n \in 1 .. TlbSize, Walked(x, type).tlb[n].page # None
  PROVE  /\ Walked(x, type).tlb[n].page \in Pages
         /\ Walked(x, type).tlb[n].page \notin changed =>
              Walked(x, type).tlb[n].pte = RamWalked(x, type)[Walked(x, type).tlb[n].page]
         /\ Walked(x, type).tlb[m].page = Walked(x, type).tlb[n].page => m = n
<1>0. path.tlb \in [1 .. TlbSize -> TlbEntry] /\ path.victim \in 1 .. TlbSize
  BY DEF SpaceTypes, PathType
<1>1. \A k \in 1 .. TlbSize : path.tlb[k].page \in Pages \cup {None}
  BY <1>0 DEF TlbEntry
<1>2. CASE ~Translated
  <2>1. Walked(x, type) = path /\ RamWalked(x, type) = ram
    BY <1>2 DEF Walked, RamWalked
  <2> QED BY <1>1, <2>1 DEF TlbShowsPageTable
<1>3. CASE Translated
  <2> DEFINE e == WithAccessBits(Entry(x), type)
             tlb == TlbAfter(x, type)
             r == RamAfter(x, type)
  <2>1. x \in Pages /\ x # None
    BY <1>3, CellFacts DEF Addresses
  <2>2. Walked(x, type).tlb = tlb /\ RamWalked(x, type) = r
    BY <1>3 DEF Walked, RamWalked, SpaceTypes, PathType
  <2>3. r = IF e = Entry(x) THEN ram ELSE [ram EXCEPT ![x] = e]
    BY DEF RamAfter
  <2>4. x \notin changed => r[x] = e
    <3>1. x \notin changed => Entry(x) = ram[x]
      BY <2>1, EntryFacts
    <3>2. x \in DOMAIN ram
      BY <2>1, CellFacts DEF SpaceTypes
    <3> QED BY <2>3, <3>1, <3>2
  <2>5. \A p \in Pages : p # x => r[p] = ram[p]
    BY <2>3
  <2>6. \A k \in 1 .. TlbSize : path.tlb[k].page = x <=> k \in TlbSlots(x)
    BY DEF TlbSlots
  <2> HIDE DEF r
  <2>7. CASE TlbSlots(x) # {}
    <3>1. \A k \in 1 .. TlbSize : tlb[k] = IF k \in TlbSlots(x) THEN [page |-> x, pte |-> e] ELSE path.tlb[k]
      BY <2>7 DEF TlbAfter
    <3> HIDE DEF tlb, e
    <3>2. \A k \in 1 .. TlbSize : tlb[k].page = path.tlb[k].page
      BY <2>6, <3>1
    <3> QED BY <1>1, <2>1, <2>2, <2>4, <2>5, <2>6, <3>1, <3>2 DEF TlbShowsPageTable
  <2>8. CASE TlbSlots(x) = {}
    <3>1. \A k \in 1 .. TlbSize : tlb[k] = IF k = path.victim THEN [page |-> x, pte |-> e] ELSE path.tlb[k]
      BY <1>0, <2>8 DEF TlbAfter
    <3> HIDE DEF tlb, e
    <3>2. \A k \in 1 .. TlbSize : path.tlb[k].page # x
      BY <2>6, <2>8
    <3> QED BY <1>1, <2>1, <2>2, <2>4, <2>5, <3>1, <3>2 DEF TlbShowsPageTable
  <2> QED BY <2>7, <2>8
<1> QED BY <1>2, <1>3
\* After a walk the pages stored through have their dirty bits in memory, and so does the
\* page that is being stored through.
LEMMA WalkKeepsBits ==
  ASSUME SpaceInv, NEW x \in Addresses, NEW type
  PROVE  /\ \A p \in dirtied : RamWalked(x, type)[p].d /\ RamWalked(x, type)[p].a
         /\ Translated /\ type = "store" /\ x \notin changed =>
              RamWalked(x, type)[x].d /\ RamWalked(x, type)[x].a
<1>1. CASE ~Translated
  BY <1>1 DEF RamWalked, SpaceInv, StoresLeaveDirtyBit
<1>2. CASE Translated
  <2> DEFINE e == WithAccessBits(Entry(x), type)
  <2>1. x \in Pages /\ x \in DOMAIN ram
    BY <1>2, CellFacts DEF Addresses, SpaceInv, SpaceTypes
  <2>2. RamWalked(x, type) = IF e = Entry(x) THEN ram ELSE [ram EXCEPT ![x] = e]
    BY <1>2 DEF RamWalked, RamAfter
  <2>3. Entry(x) \in Pte /\ (x \notin changed => Entry(x) = ram[x])
    BY <2>1, EntryFacts DEF SpaceInv
  <2>4. e.a /\ (Entry(x).d \/ type = "store" => e.d)
    BY <2>3, AccessBits
  <2> HIDE DEF e
  <2>5. \A p \in Pages : p # x => RamWalked(x, type)[p] = ram[p]
    BY <2>2
  <2>6. x \notin changed => RamWalked(x, type)[x] = e
    BY <2>1, <2>2, <2>3
  <2>7. \A p \in dirtied : p \in Pages /\ p \notin changed /\ ram[p].d /\ ram[p].a
    BY DEF SpaceInv, SpaceTypes, StoresLeaveDirtyBit
  <2> QED BY <2>3, <2>4, <2>5, <2>6, <2>7
<1> QED BY <1>1, <1>2

\* An access: its walk, what becomes of the cache and the reservation, and stores after it.
LEMMA AccessKeepsTlb ==
  ASSUME SpaceTypes, TlbShowsPageTable, NEW x \in Addresses, NEW type,
         NEW L, CacheOK(L), NEW R \in Cells \cup {None},
         path' = After(x, type, L, R),
         ram' = [c \in Cells |-> ram'[c]], \A p \in Pages : ram'[p] \in Pte,
         changed \subseteq changed', changed' \subseteq Pages, dirtied' \subseteq Pages,
         \A p \in Pages : p \in changed' \/ ram'[p] = RamWalked(x, type)[p]
  PROVE  SpaceTypes' /\ TlbShowsPageTable' /\ path'.l1 = L /\ path'.reservation = R
<1> DEFINE w == Walked(x, type)
<1>1. /\ w = [path EXCEPT !.tlb = w.tlb, !.victim = w.victim]
      /\ w.tlb \in [1 .. TlbSize -> TlbEntry] /\ w.victim \in 1 .. TlbSize
  BY WalkedFacts
<1>2. \A m, n \in 1 .. TlbSize : w.tlb[n].page # None =>
        /\ w.tlb[n].page \in Pages
        /\ w.tlb[n].page \notin changed => w.tlb[n].pte = RamWalked(x, type)[w.tlb[n].page]
        /\ w.tlb[m].page = w.tlb[n].page => m = n
  BY WalkKeepsTlb
<1>3. path' = [w EXCEPT !.l1 = L, !.reservation = R]
  BY DEF After
<1> HIDE DEF w
<1>4. \E t, v : t = w.tlb /\ v = w.victim
  OBVIOUS
<1> PICK t, v : t = w.tlb /\ v = w.victim
  BY <1>4
<1>5. path' = [mode |-> path.mode, sum |-> path.sum, satp |-> path.satp, tlb |-> t, victim |-> v,
               l1 |-> L, reservation |-> R]
  <2>1. path \in PathType
    BY DEF SpaceTypes
  <2>2. w = [path EXCEPT !.tlb = t, !.victim = v]
    BY <1>1
  <2> QED BY <1>3, <2>1, <2>2 DEF PathType
<1>6. path' \in PathType'
  <2>1. path \in PathType
    BY DEF SpaceTypes
  <2>2. path'.l1 = L
    BY <1>5
  <2> QED BY <1>1, <1>5, <2>1, <2>2 DEF PathType
<1>7. path'.l1 = L /\ path'.reservation = R /\ path'.tlb = w.tlb
  <2>1. path'.l1 = L /\ path'.reservation = R /\ path'.tlb = t
    BY ONLY <1>5
  <2> QED BY <2>1
<1>8. TlbShowsPageTable'
  BY <1>2, <1>7 DEF TlbShowsPageTable
<1>9. SpaceTypes'
  BY <1>6, <1>7 DEF SpaceTypes, CacheOK
<1> QED BY <1>7, <1>8, <1>9

\* A step that leaves memory and the cache alone and keeps the TLB or empties it.
LEMMA ControlPreserves ==
  ASSUME SpaceInv, NEW m \in {"U", "S", "M"}, NEW s \in BOOLEAN, NEW b \in {"bare", "sv39"},
         NEW t, NEW v \in 1 .. TlbSize, NEW R \in Cells \cup {None},
         path' = [mode |-> m, sum |-> s, satp |-> b, tlb |-> t, victim |-> v, l1 |-> path.l1,
                  reservation |-> R],
         (t = path.tlb /\ changed' = changed) \/ (t = EmptyTlb /\ changed' = {}),
         UNCHANGED <<ram, behind, dirtied>>, R # None => ~disturbed'
  PROVE  SpaceInv'
<1>2. t \in [1 .. TlbSize -> TlbEntry]
  BY DEF SpaceInv, SpaceTypes, PathType, EmptyTlb, TlbEntry
<1>3. path' \in PathType'
  BY <1>2 DEF PathType
<1>4. path'.l1 = path.l1 /\ path'.reservation = R /\ path'.tlb = t
  OBVIOUS
<1>5. SpaceTypes'
  BY <1>3, <1>4 DEF SpaceInv, SpaceTypes, CacheOK
<1>6. TlbShowsPageTable'
  <2>1. CASE t = path.tlb /\ changed' = changed
    BY <1>4, <2>1 DEF SpaceInv, TlbShowsPageTable
  <2>2. CASE t = EmptyTlb /\ changed' = {}
    <3>1. \A n \in 1 .. TlbSize : path'.tlb[n].page = None
      BY <1>4, <2>2 DEF EmptyTlb
    <3> QED BY <3>1 DEF TlbShowsPageTable
  <2> QED BY <2>1, <2>2
<1>7. StoresLeaveDirtyBit' /\ (dirtied \cap changed = {})' /\ LinesAgree' /\ ReservationIntact'
  BY <1>4 DEF SpaceInv, StoresLeaveDirtyBit, LinesAgree, ReservationIntact
<1> QED BY <1>5, <1>6, <1>7 DEF SpaceInv

LEMMA PathFields ==
  ASSUME SpaceInv
  PROVE  /\ path = [mode |-> path.mode, sum |-> path.sum, satp |-> path.satp, tlb |-> path.tlb,
                    victim |-> path.victim, l1 |-> path.l1, reservation |-> path.reservation]
         /\ path.mode \in {"U", "S", "M"} /\ path.sum \in BOOLEAN /\ path.satp \in {"bare", "sv39"}
         /\ path.victim \in 1 .. TlbSize /\ path.reservation \in Cells \cup {None}
         /\ 1 \in 1 .. TlbSize
<1>1. path \in PathType /\ TlbSize \in Nat \ {0}
  BY CellFacts DEF SpaceInv, SpaceTypes
<1> QED BY <1>1 DEF PathType

LEMMA TakeTrapPreserves == ASSUME SpaceInv, TakeTrap PROVE SpaceInv'
<1>1. PICK m \in {"S", "M"} : path' = [path EXCEPT !.mode = m, !.reservation = None]
  BY DEF TakeTrap
<1>2. UNCHANGED <<ram, changed, behind, dirtied>> /\ m \in {"U", "S", "M"} /\ None \in Cells \cup {None}
  BY DEF TakeTrap
<1>3. path' = [mode |-> m, sum |-> path.sum, satp |-> path.satp, tlb |-> path.tlb,
               victim |-> path.victim, l1 |-> path.l1, reservation |-> None]
  BY <1>1, PathFields
<1> QED BY ONLY SpaceInv, <1>2, <1>3, PathFields, ControlPreserves

LEMMA ReturnPreserves == ASSUME SpaceInv, Return PROVE SpaceInv'
<1>1. PICK m \in {"U", "S", "M"} : path' = [path EXCEPT !.mode = m]
  BY DEF Return
<1>2. UNCHANGED <<ram, changed, behind, dirtied>>
  BY DEF Return
<1>3. path' = [mode |-> m, sum |-> path.sum, satp |-> path.satp, tlb |-> path.tlb,
               victim |-> path.victim, l1 |-> path.l1, reservation |-> path.reservation]
  BY <1>1, PathFields
<1>4. path.reservation # None => ~disturbed'
  BY DEF Return, SpaceInv, ReservationIntact
<1> QED BY ONLY SpaceInv, <1>2, <1>3, <1>4, PathFields, ControlPreserves

LEMMA WriteSumPreserves == ASSUME SpaceInv, WriteSum PROVE SpaceInv'
<1>1. PICK s \in BOOLEAN : path' = [path EXCEPT !.sum = s]
  BY DEF WriteSum
<1>2. UNCHANGED <<ram, changed, behind, dirtied>>
  BY DEF WriteSum
<1>3. path' = [mode |-> path.mode, sum |-> s, satp |-> path.satp, tlb |-> path.tlb,
               victim |-> path.victim, l1 |-> path.l1, reservation |-> path.reservation]
  BY <1>1, PathFields
<1>4. path.reservation # None => ~disturbed'
  BY DEF WriteSum, SpaceInv, ReservationIntact
<1> QED BY ONLY SpaceInv, <1>2, <1>3, <1>4, PathFields, ControlPreserves

LEMMA FlushPreserves == ASSUME SpaceInv, WriteSatp \/ SfenceVma PROVE SpaceInv'
<1>1. PICK b \in {"bare", "sv39"} :
        path' = [mode |-> path.mode, sum |-> path.sum, satp |-> b, tlb |-> EmptyTlb,
                 victim |-> 1, l1 |-> path.l1, reservation |-> path.reservation]
  <2>1. CASE WriteSatp
    <3>1. PICK b \in {"bare", "sv39"} :
            path' = [path EXCEPT !.satp = b, !.tlb = EmptyTlb, !.victim = 1]
      BY <2>1 DEF WriteSatp
    <3>2. path' = [mode |-> path.mode, sum |-> path.sum, satp |-> b, tlb |-> EmptyTlb,
                   victim |-> 1, l1 |-> path.l1, reservation |-> path.reservation]
      BY <3>1, PathFields
    <3> QED BY ONLY <3>2, b \in {"bare", "sv39"}, Zenon
  <2>2. CASE SfenceVma
    <3>1. path' = [path EXCEPT !.tlb = EmptyTlb, !.victim = 1]
      BY <2>2 DEF SfenceVma
    <3>2. path' = [mode |-> path.mode, sum |-> path.sum, satp |-> path.satp, tlb |-> EmptyTlb,
                   victim |-> 1, l1 |-> path.l1, reservation |-> path.reservation]
      BY <3>1, PathFields
    <3> QED BY ONLY <3>2, PathFields, SpaceInv, Zenon
  <2> QED BY <2>1, <2>2
<1>2. changed' = {} /\ UNCHANGED <<ram, behind, dirtied>>
  BY DEF WriteSatp, SfenceVma
<1>3. path.reservation # None => ~disturbed'
  BY DEF WriteSatp, SfenceVma, SpaceInv, ReservationIntact
<1> QED BY ONLY SpaceInv, <1>1, <1>2, <1>3, PathFields, ControlPreserves

LEMMA AddressFacts == DataAddresses \subseteq Addresses /\ (~Translated => \A x \in Addresses : Cell(x) = x)
BY DEF DataAddresses, Addresses, Cells, Cell

\* An access that stores nothing, past the cache or through it.
LEMMA ReadPreserves ==
  ASSUME SpaceInv, NEW x \in Addresses, NEW type, NEW L, CacheOK(L), NEW R \in Cells \cup {None},
         path' = After(x, type, L, R),
         ram' = RamWalked(x, type),
         \A c \in DOMAIN L.copy \ behind' : c \in Cells /\ L.copy[c] = ram'[c],
         UNCHANGED <<changed, dirtied>>, R # None => ~disturbed'
  PROVE  SpaceInv'
<1>1. /\ ram' = [c \in Cells |-> ram'[c]] /\ \A p \in Pages : ram'[p] \in Pte
  BY WalkedFacts DEF SpaceInv
<1>2. SpaceTypes' /\ TlbShowsPageTable' /\ path'.l1 = L /\ path'.reservation = R
  BY <1>1, AccessKeepsTlb DEF SpaceInv, SpaceTypes
<1>3. StoresLeaveDirtyBit' /\ (dirtied \cap changed = {})'
  BY WalkKeepsBits DEF StoresLeaveDirtyBit, SpaceInv
<1>4. LinesAgree' /\ ReservationIntact'
  BY <1>2 DEF LinesAgree, ReservationIntact
<1> QED BY <1>2, <1>3, <1>4 DEF SpaceInv

\* A walk changes the cells it writes only.
LEMMA WalkLeaves ==
  ASSUME SpaceInv, NEW x \in Addresses, NEW type, NEW c \in Cells, c \notin WalkWrote(x, type)
  PROVE  RamWalked(x, type)[c] = ram[c]
<1>1. SpaceTypes /\ TlbShowsPageTable
  BY DEF SpaceInv
<1> QED BY <1>1, WalkedFacts

\* The lines after an access that leaves the cache alone: what the walk wrote is marked.
LEMMA LinesPast ==
  ASSUME SpaceInv, NEW x \in Addresses, NEW type, NEW past, WalkWrote(x, type) \subseteq past,
         Behind(path.l1, past)
  PROVE  \A c \in DOMAIN path.l1.copy \ behind' :
           c \in Cells /\ c \notin past /\ path.l1.copy[c] = RamWalked(x, type)[c]
<1> TAKE c \in DOMAIN path.l1.copy \ behind'
<1>1. c \in Cells
  BY QueueSet DEF SpaceInv, SpaceTypes, CacheOK
<1>2. c \notin behind /\ c \notin past
  BY DEF Behind
<1>3. RamWalked(x, type)[c] = ram[c]
  BY <1>1, <1>2, WalkLeaves
<1> QED BY <1>1, <1>2, <1>3 DEF SpaceInv, LinesAgree

LEMMA FetchPreserves == ASSUME SpaceInv, Fetch PROVE SpaceInv'
<1>1. PICK x \in DataAddresses :
        /\ path' = After(x, "fetch", path.l1, path.reservation)
        /\ ram' = RamWalked(x, "fetch")
        /\ Behind(path.l1, WalkWrote(x, "fetch"))
        /\ UNCHANGED <<changed, dirtied, disturbed>>
  BY DEF Fetch
<1>2. x \in Addresses
  BY AddressFacts
<1>4. \A c \in DOMAIN path.l1.copy \ behind' : c \in Cells /\ path.l1.copy[c] = ram'[c]
  BY <1>1, <1>2, LinesPast
<1>5. CacheOK(path.l1) /\ path.reservation \in Cells \cup {None}
  BY PathFields DEF SpaceInv, SpaceTypes
<1>6. path.reservation # None => ~disturbed'
  BY <1>1 DEF SpaceInv, ReservationIntact
<1> QED BY <1>1, <1>2, <1>4, <1>5, <1>6, ReadPreserves

LEMMA LoadPreserves == ASSUME SpaceInv, Load PROVE SpaceInv'
<1>1. PICK x \in Addresses :
        /\ ram' = RamWalked(x, "load")
        /\ path' = After(x, "load", L1Load(path.l1, Cell(x), ram'), path.reservation)
        /\ Behind(path'.l1, (WalkWrote(x, "load") \cap DOMAIN path.l1.copy))
        /\ UNCHANGED <<changed, dirtied, disturbed>>
  BY DEF Load
<1> DEFINE L == L1Load(path.l1, Cell(x), ram')
<1>2. CacheOK(path.l1) /\ path.reservation \in Cells \cup {None}
  BY PathFields DEF SpaceInv, SpaceTypes
<1>3. Cell(x) \in Cells
  BY WalkedFacts DEF SpaceInv
<1>4. /\ CacheOK(L)
      /\ \A k \in DOMAIN L.copy :
           \/ k \in DOMAIN path.l1.copy /\ L.copy[k] = path.l1.copy[k]
           \/ k \notin DOMAIN path.l1.copy /\ k = Cell(x) /\ L.copy[k] = ram'[k]
  BY <1>2, <1>3, L1LoadFacts
<1>6. path' = After(x, "load", L, path.reservation)
  BY <1>1
<1> HIDE DEF L
<1>7. path'.l1 = L
  <2>1. ram' = [c \in Cells |-> ram'[c]] /\ \A p \in Pages : ram'[p] \in Pte
    BY <1>1, WalkedFacts DEF SpaceInv
  <2>2. changed' = changed /\ dirtied' = dirtied /\ changed \subseteq Pages /\ dirtied \subseteq Pages
        /\ ram' = RamWalked(x, "load") /\ SpaceTypes /\ TlbShowsPageTable
    BY <1>1 DEF SpaceInv, SpaceTypes
  <2> QED BY <1>2, <1>4, <1>6, <2>1, <2>2, AccessKeepsTlb
<1>8. \A c \in DOMAIN L.copy \ behind' : c \in Cells /\ L.copy[c] = ram'[c]
  <2> TAKE c \in DOMAIN L.copy \ behind'
  <2>1. c \in Cells
    BY <1>4, QueueSet DEF CacheOK
  <2>2. behind' = (behind \cup (WalkWrote(x, "load") \cap DOMAIN path.l1.copy)) \cap DOMAIN L.copy
    BY <1>1, <1>7 DEF Behind
  <2>3. CASE c \notin DOMAIN path.l1.copy
    BY <1>4, <2>1, <2>3
  <2>4. CASE c \in DOMAIN path.l1.copy
    <3>1. c \notin behind /\ c \notin WalkWrote(x, "load")
      BY <2>2, <2>4
    <3>2. ram'[c] = ram[c]
      <4>1. RamWalked(x, "load")[c] = ram[c]
        BY <2>1, <3>1, WalkLeaves
      <4> QED BY <1>1, <4>1
    <3> QED BY <1>4, <2>1, <2>4, <3>1, <3>2 DEF SpaceInv, LinesAgree
  <2> QED BY <2>3, <2>4
<1>9. path.reservation # None => ~disturbed'
  BY <1>1 DEF SpaceInv, ReservationIntact
<1> QED BY <1>1, <1>2, <1>4, <1>6, <1>8, <1>9, ReadPreserves

LEMMA LoadReservedPreserves == ASSUME SpaceInv, LoadReserved PROVE SpaceInv'
<1>1. PICK x \in DataAddresses :
        /\ ram' = RamWalked(x, "load")
        /\ path' = After(x, "load", path.l1, Cell(x))
        /\ disturbed' = FALSE
        /\ Behind(path.l1, WalkWrote(x, "load"))
        /\ UNCHANGED <<changed, dirtied>>
  BY DEF LoadReserved
<1>2. x \in Addresses
  BY AddressFacts
<1>3. Cell(x) \in Cells \cup {None}
  BY <1>2, WalkedFacts DEF SpaceInv
<1>5. \A c \in DOMAIN path.l1.copy \ behind' : c \in Cells /\ path.l1.copy[c] = ram'[c]
  BY <1>1, <1>2, LinesPast
<1>6. CacheOK(path.l1)
  BY DEF SpaceInv, SpaceTypes
<1> QED BY <1>1, <1>2, <1>3, <1>5, <1>6, ReadPreserves

\* An access that stores.
LEMMA WritePreserves ==
  ASSUME SpaceInv, NEW x \in Addresses, NEW v \in Contents(Cell(x)),
         NEW L, CacheOK(L), NEW R \in Cells \cup {None},
         path' = After(x, "store", L, R),
         ram' = [RamWalked(x, "store") EXCEPT ![Cell(x)] = v],
         \A c \in DOMAIN L.copy \ behind' : c \in Cells /\ L.copy[c] = ram'[c],
         Stored(x, Cell(x)), (R = None \/ (R = path.reservation /\ R # Cell(x)))
  PROVE  SpaceInv'
<1> DEFINE c == Cell(x)
           r == RamWalked(x, "store")
<1>1. /\ r = [k \in Cells |-> r[k]] /\ (\A p \in Pages : r[p] \in Pte) /\ c \in Cells
  BY WalkedFacts DEF SpaceInv
<1>2. Translated => x \in Pages
  BY DEF Addresses
<1>3. /\ changed' = IF c \in Pages THEN changed \cup {c} ELSE changed
      /\ dirtied' = IF c \in Pages THEN dirtied \ {c}
                    ELSE IF Translated /\ x \notin changed THEN dirtied \cup {x} ELSE dirtied
      /\ disturbed' = (path'.reservation # None /\ (disturbed \/ path.reservation = c))
  BY DEF Stored
<1>4. /\ \A p \in dirtied : r[p].d /\ r[p].a
      /\ (Translated /\ x \notin changed) => (r[x].d /\ r[x].a)
  BY WalkKeepsBits
<1>5. c \notin Frames => v \in Pte
  BY <1>1, ContentsFacts
<1>6. ram' = [r EXCEPT ![c] = v]
  OBVIOUS
<1>6a. changed \subseteq Pages /\ dirtied \subseteq Pages /\ dirtied \cap changed = {}
  BY DEF SpaceInv, SpaceTypes
<1> HIDE DEF c, r
<1>7. \A p \in Pages : p # c => ram'[p] = r[p]
  BY <1>1, <1>6, CellFacts
<1>8. c \in Pages => c \notin Frames
  BY CellFacts
<1>9. ram' = [k \in Cells |-> ram'[k]] /\ \A p \in Pages : ram'[p] \in Pte
  <2>1. \A p \in Pages : p # c => ram'[p] \in Pte
    BY <1>1, <1>7
  <2>2. c \in Pages => ram'[c] \in Pte
    BY <1>1, <1>5, <1>6, <1>8
  <2>3. ram' = [k \in Cells |-> ram'[k]]
    BY <1>1, <1>6
  <2> QED BY <2>1, <2>2, <2>3
<1>10. changed \subseteq changed' /\ changed' \subseteq Pages /\ dirtied' \subseteq Pages
       /\ dirtied' \cap changed' = {} /\ \A p \in Pages : p \in changed' \/ ram'[p] = r[p]
  BY <1>2, <1>3, <1>6a, <1>7
<1>11. SpaceTypes' /\ TlbShowsPageTable' /\ path'.l1 = L /\ path'.reservation = R
  BY <1>9, <1>10, AccessKeepsTlb DEF SpaceInv, r
<1>12. StoresLeaveDirtyBit'
  <2> SUFFICES ASSUME NEW p \in dirtied' PROVE ram'[p].d /\ ram'[p].a
    BY DEF StoresLeaveDirtyBit
  <2>1. p \in Pages /\ p # c
    BY <1>3, <1>10
  <2>2. p \in dirtied \/ (p = x /\ Translated /\ x \notin changed)
    BY <1>3
  <2> QED BY <1>4, <1>7, <2>1, <2>2
<1>13. LinesAgree'
  BY <1>11 DEF LinesAgree
<1>14. ReservationIntact'
  BY <1>3, <1>11 DEF ReservationIntact, SpaceInv, c
<1> QED BY <1>10, <1>11, <1>12, <1>13, <1>14 DEF SpaceInv

LEMMA ReservationAfterStore ==
  ASSUME SpaceInv, NEW c
  PROVE  /\ InvalidateReservation(c) \in Cells \cup {None}
         /\ \/ InvalidateReservation(c) = None
            \/ InvalidateReservation(c) = path.reservation /\ InvalidateReservation(c) # c
BY PathFields DEF InvalidateReservation

LEMMA StorePreserves == ASSUME SpaceInv, Store PROVE SpaceInv'
<1>1. PICK x \in Addresses : LET c == Cell(x) IN
        /\ \E v \in Contents(c) :
             /\ ram' = [RamWalked(x, "store") EXCEPT ![c] = v]
             /\ path' = After(x, "store", L1Store(path.l1, c, v), InvalidateReservation(c))
        /\ Behind(path.l1, WalkWrote(x, "store") \ {c})
        /\ Stored(x, c)
  BY DEF Store
<1>2. PICK v \in Contents(Cell(x)) :
        /\ ram' = [RamWalked(x, "store") EXCEPT ![Cell(x)] = v]
        /\ path' = After(x, "store", L1Store(path.l1, Cell(x), v), InvalidateReservation(Cell(x)))
  BY <1>1
<1> DEFINE L == L1Store(path.l1, Cell(x), v)
           R == InvalidateReservation(Cell(x))
<1>3. CacheOK(path.l1) /\ Cell(x) \in Cells
  BY WalkedFacts DEF SpaceInv, SpaceTypes
<1>4. /\ CacheOK(L) /\ DOMAIN L.copy = DOMAIN path.l1.copy
      /\ \A k \in DOMAIN path.l1.copy : L.copy[k] = IF k = Cell(x) THEN v ELSE path.l1.copy[k]
  BY <1>3, L1StoreFacts
<1>5. path' = After(x, "store", L, R)
  BY <1>2
<1>6. R \in Cells \cup {None} /\ (R = None \/ (R = path.reservation /\ R # Cell(x)))
  BY ReservationAfterStore
<1> HIDE DEF L, R
<1>7. \A c \in DOMAIN L.copy \ behind' : c \in Cells /\ L.copy[c] = ram'[c]
  <2> TAKE c \in DOMAIN L.copy \ behind'
  <2>1. c \in Cells /\ c \in DOMAIN path.l1.copy
    BY <1>3, <1>4, QueueSet DEF CacheOK
  <2>2. RamWalked(x, "store") = [k \in Cells |-> RamWalked(x, "store")[k]]
    BY WalkedFacts DEF SpaceInv
  <2>3. CASE c = Cell(x)
    BY <1>2, <1>4, <2>1, <2>2, <2>3
  <2>4. CASE c # Cell(x)
    <3>1. c \notin behind /\ c \notin WalkWrote(x, "store")
      BY <1>1, <2>1, <2>4 DEF Behind
    <3>2. RamWalked(x, "store")[c] = ram[c]
      BY <2>1, <3>1, WalkLeaves
    <3>3. ram'[c] = RamWalked(x, "store")[c]
      BY <1>2, <2>4
    <3> QED BY <1>4, <2>1, <2>4, <3>1, <3>2, <3>3 DEF SpaceInv, LinesAgree
  <2> QED BY <2>3, <2>4
<1>8. Stored(x, Cell(x))
  BY <1>1
<1> QED BY ONLY SpaceInv, <1>2, <1>4, <1>5, <1>6, <1>7, <1>8, WritePreserves

\* A store past the cache: the line, if there is one, is marked.
LEMMA PastPreserves ==
  ASSUME SpaceInv, NEW x \in Addresses, NEW v \in Contents(Cell(x)), NEW R \in Cells \cup {None},
         path' = After(x, "store", path.l1, R),
         ram' = [RamWalked(x, "store") EXCEPT ![Cell(x)] = v],
         Behind(path.l1, WalkWrote(x, "store") \cup {Cell(x)}),
         Stored(x, Cell(x)), (R = None \/ (R = path.reservation /\ R # Cell(x)))
  PROVE  SpaceInv'
<1>2. \A c \in DOMAIN path.l1.copy \ behind' : c \in Cells /\ path.l1.copy[c] = ram'[c]
  <2> TAKE c \in DOMAIN path.l1.copy \ behind'
  <2>1. c \in Cells /\ c # Cell(x) /\ path.l1.copy[c] = RamWalked(x, "store")[c]
    BY LinesPast
  <2>2. ram'[c] = RamWalked(x, "store")[c]
    BY <2>1
  <2> QED BY <2>1, <2>2
<1>3. CacheOK(path.l1)
  BY DEF SpaceInv, SpaceTypes
<1> QED BY <1>2, <1>3, WritePreserves
LEMMA StoreConditionalPreserves == ASSUME SpaceInv, StoreConditional PROVE SpaceInv'
<1>1. PICK x \in DataAddresses : LET c == Cell(x) IN
        /\ path' = After(x, "store", path.l1, None)
        /\ IF path.reservation = c
           THEN /\ \E v \in Contents(c) : ram' = [RamWalked(x, "store") EXCEPT ![c] = v]
                /\ Behind(path.l1, WalkWrote(x, "store") \cup {c})
                /\ Stored(x, c)
           ELSE /\ ram' = RamWalked(x, "store")
                /\ Behind(path.l1, WalkWrote(x, "store"))
                /\ disturbed' = FALSE
                /\ UNCHANGED <<changed, dirtied>>
  BY DEF StoreConditional
<1>2. x \in Addresses /\ None \in Cells \cup {None}
  BY AddressFacts
<1>3. CASE path.reservation = Cell(x)
  <2>1. PICK v \in Contents(Cell(x)) : ram' = [RamWalked(x, "store") EXCEPT ![Cell(x)] = v]
    BY <1>1, <1>3
  <2>2. path' = After(x, "store", path.l1, None) /\ Stored(x, Cell(x))
        /\ Behind(path.l1, WalkWrote(x, "store") \cup {Cell(x)})
    BY <1>1, <1>3
  <2> QED BY <1>2, <2>1, <2>2, PastPreserves
<1>4. CASE path.reservation # Cell(x)
  <2>1. /\ path' = After(x, "store", path.l1, None) /\ ram' = RamWalked(x, "store")
        /\ Behind(path.l1, WalkWrote(x, "store")) /\ UNCHANGED <<changed, dirtied>>
    BY <1>1, <1>4
  <2>2. \A c \in DOMAIN path.l1.copy \ behind' : c \in Cells /\ path.l1.copy[c] = ram'[c]
    BY <1>2, <2>1, LinesPast
  <2>3. CacheOK(path.l1)
    BY DEF SpaceInv, SpaceTypes
  <2> QED BY <1>2, <2>1, <2>2, <2>3, ReadPreserves
<1> QED BY <1>3, <1>4

LEMMA AmoPreserves == ASSUME SpaceInv, Amo PROVE SpaceInv'
<1>1. PICK x \in DataAddresses : LET c == Cell(x) IN
        /\ \E v \in Contents(c) : ram' = [RamWalked(x, "store") EXCEPT ![c] = v]
        /\ path' = After(x, "store", path.l1, InvalidateReservation(c))
        /\ Behind(path.l1, WalkWrote(x, "store") \cup {c})
        /\ Stored(x, c)
  BY DEF Amo
<1>2. PICK v \in Contents(Cell(x)) : ram' = [RamWalked(x, "store") EXCEPT ![Cell(x)] = v]
  BY <1>1
<1>3. x \in Addresses
  BY AddressFacts
<1> DEFINE R == InvalidateReservation(Cell(x))
<1>4. R \in Cells \cup {None} /\ (R = None \/ (R = path.reservation /\ R # Cell(x)))
  BY ReservationAfterStore
<1>5. path' = After(x, "store", path.l1, R)
  BY <1>1
<1> HIDE DEF R
<1> QED BY <1>1, <1>2, <1>3, <1>4, <1>5, PastPreserves

\* Memory written beside the hart's translation: frames only, and the lines that are kept
\* agree or are marked.
LEMMA FramesWritten ==
  ASSUME SpaceInv, NEW L, CacheOK(L), NEW R \in Cells \cup {None},
         path' = [path EXCEPT !.l1 = L, !.reservation = R],
         ram' = [c \in Cells |-> ram'[c]], \A p \in Pages : ram'[p] = ram[p],
         \A c \in DOMAIN L.copy \ behind' : L.copy[c] = ram'[c],
         UNCHANGED <<changed, dirtied>>, R # None => ~disturbed'
  PROVE  SpaceInv'
<1>1. path' = [mode |-> path.mode, sum |-> path.sum, satp |-> path.satp, tlb |-> path.tlb,
               victim |-> path.victim, l1 |-> L, reservation |-> R]
  <2> DEFINE u == [path EXCEPT !.l1 = L]
  <2>1. u = [mode |-> path.mode, sum |-> path.sum, satp |-> path.satp, tlb |-> path.tlb,
             victim |-> path.victim, l1 |-> L, reservation |-> path.reservation]
    BY ONLY SpaceInv, PathFields
  <2>2. path' = [u EXCEPT !.reservation = R]
    OBVIOUS
  <2> HIDE DEF u
  <2> QED BY ONLY <2>1, <2>2
<1>2. path.tlb \in [1 .. TlbSize -> TlbEntry]
  BY DEF SpaceInv, SpaceTypes, PathType
<1>3. path'.l1 = L /\ path'.tlb = path.tlb /\ path'.reservation = R
  BY ONLY <1>1
<1>4. path' \in PathType'
  BY <1>1, <1>2, PathFields DEF PathType
<1>5. SpaceTypes'
  BY <1>3, <1>4 DEF SpaceInv, SpaceTypes, CacheOK
<1>6. TlbShowsPageTable'
  <2>1. \A n \in 1 .. TlbSize : path.tlb[n].page # None => path.tlb[n].page \in Pages
    BY <1>2 DEF TlbEntry
  <2> QED BY <1>3, <2>1 DEF SpaceInv, TlbShowsPageTable
<1>7. StoresLeaveDirtyBit' /\ (dirtied \cap changed = {})'
  BY DEF SpaceInv, SpaceTypes, StoresLeaveDirtyBit
<1>8. LinesAgree' /\ ReservationIntact'
  BY <1>3 DEF LinesAgree, ReservationIntact
<1> QED BY <1>5, <1>6, <1>7, <1>8 DEF SpaceInv

LEMMA StoreAcrossLinesPreserves == ASSUME SpaceInv, StoreAcrossLines PROVE SpaceInv'
<1>1. PICK c \in Frames : \E d \in Frames, v \in Words :
        /\ ram' = [ram EXCEPT ![c] = v, ![d] = v]
        /\ path' = [path EXCEPT !.l1 = L1Invalidate(@, c, d),
                      !.reservation = IF @ \in {c, d} THEN None ELSE @]
        /\ disturbed' = (path'.reservation # None /\ (disturbed \/ path.reservation \in {c, d}))
        /\ behind' = behind \ {c, d}
  BY DEF StoreAcrossLines
<1>2. PICK d \in Frames : \E v \in Words :
        /\ ram' = [ram EXCEPT ![c] = v, ![d] = v]
        /\ path' = [path EXCEPT !.l1 = L1Invalidate(@, c, d),
                      !.reservation = IF @ \in {c, d} THEN None ELSE @]
        /\ disturbed' = (path'.reservation # None /\ (disturbed \/ path.reservation \in {c, d}))
        /\ behind' = behind \ {c, d}
  BY <1>1
<1>3. PICK v \in Words :
        /\ ram' = [ram EXCEPT ![c] = v, ![d] = v]
        /\ path' = [path EXCEPT !.l1 = L1Invalidate(@, c, d),
                      !.reservation = IF @ \in {c, d} THEN None ELSE @]
        /\ disturbed' = (path'.reservation # None /\ (disturbed \/ path.reservation \in {c, d}))
        /\ behind' = behind \ {c, d}
  BY <1>2
<1> DEFINE w == Without(path.l1, c)
           L == Without(w, d)
           R == IF path.reservation \in {c, d} THEN None ELSE path.reservation
<1>4. CacheOK(path.l1)
  BY DEF SpaceInv, SpaceTypes
<1>5. /\ CacheOK(w) /\ DOMAIN w.copy = DOMAIN path.l1.copy \ {c}
      /\ \A k \in DOMAIN path.l1.copy \ {c} : w.copy[k] = path.l1.copy[k]
  BY <1>4, WithoutFacts
<1>6. path' = [path EXCEPT !.l1 = L, !.reservation = R]
  BY <1>3, PathFields DEF L1Invalidate
<1> HIDE DEF w
<1>7. /\ CacheOK(L) /\ DOMAIN L.copy = DOMAIN w.copy \ {d}
      /\ \A k \in DOMAIN w.copy \ {d} : L.copy[k] = w.copy[k]
  BY <1>5, WithoutFacts
<1>8. R \in Cells \cup {None} /\ (R = None \/ (R = path.reservation /\ R # c /\ R # d))
  BY PathFields
<1> HIDE DEF L, R
<1>9. ram = [k \in Cells |-> ram[k]]
  BY DEF SpaceInv, SpaceTypes
<1>10. ram' = [k \in Cells |-> ram'[k]] /\ \A k \in Cells : k # c /\ k # d => ram'[k] = ram[k]
  <2> DEFINE u == [ram EXCEPT ![c] = v]
  <2>1. u = [k \in Cells |-> u[k]] /\ \A k \in Cells : k # c => u[k] = ram[k]
    BY <1>9
  <2>2. ram' = [u EXCEPT ![d] = v]
    BY <1>3
  <2> HIDE DEF u
  <2> QED BY <2>1, <2>2
<1>11. \A k \in DOMAIN L.copy \ behind' : L.copy[k] = ram'[k]
  <2> TAKE k \in DOMAIN L.copy \ behind'
  <2>1. k # c /\ k # d /\ k \in DOMAIN path.l1.copy /\ k \notin behind
        /\ L.copy[k] = path.l1.copy[k]
    BY <1>3, <1>5, <1>7
  <2>2. k \in Cells
    BY <1>4, <2>1, QueueSet DEF CacheOK
  <2> QED BY <1>10, <2>1, <2>2 DEF SpaceInv, LinesAgree
<1>12. \A p \in Pages : ram'[p] = ram[p]
  BY <1>10, CellFacts
<1>13. UNCHANGED <<changed, dirtied>>
  BY DEF StoreAcrossLines
<1>14. path'.reservation = R
  BY <1>6, PathFields
<1>15. R # None => ~disturbed'
  BY <1>3, <1>8, <1>14 DEF SpaceInv, ReservationIntact
<1> QED BY <1>6, <1>7, <1>8, <1>10, <1>11, <1>12, <1>13, <1>15, FramesWritten

LEMMA DmaWritePreserves == ASSUME SpaceInv, DmaWrite PROVE SpaceInv'
<1>1. PICK c \in Frames : \E v \in Words : ram' = [ram EXCEPT ![c] = v] /\ Behind(path.l1, {c})
  BY DEF DmaWrite
<1>2. UNCHANGED <<path, changed, dirtied, disturbed>>
  BY DEF DmaWrite
<1>3. ram = [k \in Cells |-> ram[k]] /\ CacheOK(path.l1)
  BY DEF SpaceInv, SpaceTypes
<1>4. ram' = [k \in Cells |-> ram'[k]] /\ \A k \in Cells : k # c => ram'[k] = ram[k]
  BY <1>1, <1>3
<1>5. path' = [path EXCEPT !.l1 = path.l1, !.reservation = path.reservation]
  BY <1>2, PathFields
<1>6. \A k \in DOMAIN path.l1.copy \ behind' : path.l1.copy[k] = ram'[k]
  <2> TAKE k \in DOMAIN path.l1.copy \ behind'
  <2>1. k # c /\ k \notin behind
    BY <1>1 DEF Behind
  <2>2. k \in Cells
    BY <1>3, QueueSet DEF CacheOK
  <2> QED BY <1>4, <2>1, <2>2 DEF SpaceInv, LinesAgree
<1>7. \A p \in Pages : ram'[p] = ram[p]
  BY <1>4, CellFacts
<1>8. path.reservation # None => ~disturbed'
  BY <1>2 DEF SpaceInv, ReservationIntact
<1>9. path.reservation \in Cells \cup {None}
  BY PathFields
<1> QED BY <1>2, <1>3, <1>4, <1>5, <1>6, <1>7, <1>8, <1>9, FramesWritten

-----------------------------------------------------------------------------
LEMMA SpaceInitial == SpaceInit => SpaceInv
<1> SUFFICES ASSUME SpaceInit PROVE SpaceInv
  OBVIOUS
<1>1. path = [mode |-> "M", sum |-> FALSE, satp |-> "bare", tlb |-> EmptyTlb, victim |-> 1,
              l1 |-> EmptyL1, reservation |-> None]
  BY DEF SpaceInit
<1>2. EmptyTlb \in [1 .. TlbSize -> TlbEntry] /\ 1 \in 1 .. TlbSize
  BY CellFacts DEF EmptyTlb, TlbEntry
<1>3. path.l1 = EmptyL1 /\ path.tlb = EmptyTlb /\ path.reservation = None
  BY <1>1
<1>4. CacheOK(EmptyL1) /\ DOMAIN EmptyL1.copy = {}
  <2>1. EmptyL1 = [recent |-> <<>>, copy |-> <<>>] /\ L1Lines \in Nat
    BY AddressSpaceAssumption DEF EmptyL1
  <2>2. <<>> \in Seq(Cells) /\ Len(<<>>) = 0 /\ DOMAIN <<>> = {} /\ ToSet(<<>>) = {} /\ Distinct(<<>>)
    <3>1. <<>> \in Seq(Cells) /\ Len(<<>>) = 0 /\ DOMAIN <<>> = {}
      BY EmptySeq
    <3>2. ToSet(<<>>) = {} /\ Distinct(<<>>)
      BY <3>1, QueueSet
    <3> QED BY <3>1, <3>2
  <2>3. <<>> = [c \in {} |-> <<>>[c]]
    OBVIOUS
  <2> QED BY <2>1, <2>2, <2>3 DEF CacheOK
<1>5. path \in PathType
  BY <1>1, <1>2 DEF PathType
<1>6. ram = [c \in Cells |-> CHOOSE v \in Contents(c) : TRUE]
  BY DEF SpaceInit
<1>7. \A p \in Pages : ram[p] \in Pte
  <2> TAKE p \in Pages
  <2>1. p \in Cells /\ p \notin Frames
    BY CellFacts
  <2>2. Contents(p) # {}
    BY <2>1, AddressSpaceAssumption DEF Contents
  <2> QED BY <1>6, <2>1, <2>2, ContentsFacts
<1>8. SpaceTypes
  BY <1>3, <1>4, <1>5, <1>6, <1>7 DEF SpaceTypes, SpaceInit
<1>9. TlbShowsPageTable
  BY <1>3 DEF TlbShowsPageTable, EmptyTlb
<1>10. StoresLeaveDirtyBit /\ dirtied \cap changed = {} /\ LinesAgree /\ ReservationIntact
  BY <1>3, <1>4 DEF StoresLeaveDirtyBit, LinesAgree, ReservationIntact, SpaceInit
<1> QED BY <1>8, <1>9, <1>10 DEF SpaceInv

LEMMA SpaceStep == SpaceInv /\ [SpaceNext]_spaceVars => SpaceInv'
<1> SUFFICES ASSUME SpaceInv, [SpaceNext]_spaceVars PROVE SpaceInv'
  OBVIOUS
<1>1. CASE Fault \/ Trap
  BY <1>1, TakeTrapPreserves DEF Fault, Trap
<1>2. CASE Return
  BY <1>2, ReturnPreserves
<1>3. CASE WriteSum
  BY <1>3, WriteSumPreserves
<1>4. CASE WriteSatp \/ SfenceVma
  BY <1>4, FlushPreserves
<1>5. CASE Fetch
  BY <1>5, FetchPreserves
<1>6. CASE Load
  BY <1>6, LoadPreserves
<1>7. CASE Store
  BY <1>7, StorePreserves
<1>8. CASE StoreAcrossLines
  BY <1>8, StoreAcrossLinesPreserves
<1>9. CASE LoadReserved
  BY <1>9, LoadReservedPreserves
<1>10. CASE StoreConditional
  BY <1>10, StoreConditionalPreserves
<1>11. CASE Amo
  BY <1>11, AmoPreserves
<1>12. CASE DmaWrite
  BY <1>12, DmaWritePreserves
<1>13. CASE UNCHANGED spaceVars
  <2>1. path' = path /\ ram' = ram /\ behind' = behind /\ changed' = changed
        /\ dirtied' = dirtied /\ disturbed' = disturbed
    BY <1>13 DEF spaceVars
  <2>2. SpaceTypes'
    BY <2>1 DEF SpaceInv, SpaceTypes, PathType, CacheOK
  <2>3. TlbShowsPageTable' /\ StoresLeaveDirtyBit'
    BY <2>1 DEF SpaceInv, TlbShowsPageTable, StoresLeaveDirtyBit
  <2>4. LinesAgree' /\ ReservationIntact' /\ (dirtied \cap changed)' = {}
    BY <2>1 DEF SpaceInv, LinesAgree, ReservationIntact
  <2> QED BY <2>2, <2>3, <2>4 DEF SpaceInv
<1> QED BY <1>1, <1>2, <1>3, <1>4, <1>5, <1>6, <1>7, <1>8, <1>9, <1>10, <1>11, <1>12, <1>13
        DEF SpaceNext

\* Whatever is mapped, stored, flushed and written beside it, the TLB shows the page table
\* for every page whose entry software has not written since the last flush, its access and
\* dirty bits included; no page stands twice in it; a page stored through stays dirty in
\* memory; a cache line is what memory holds unless memory was written past it; and a
\* reservation never outlives a store of this hart or a trap.
THEOREM MemoryIsCoherent == SpaceSpec => []MemoryCoherent
<1>1. SpaceInv => MemoryCoherent
  <2> SUFFICES ASSUME SpaceInv PROVE SpaceTypeOK
    BY DEF MemoryCoherent, SpaceInv
  <2>1. path.tlb \in [1 .. TlbSize -> TlbEntry]
    BY DEF SpaceInv, SpaceTypes, PathType
  <2>2. \A n \in 1 .. TlbSize : path.tlb[n].page \in Pages \cup {None}
    BY <2>1 DEF TlbEntry
  <2>3. /\ path.l1.recent \in Seq(Cells) /\ Len(path.l1.recent) <= L1Lines
        /\ DOMAIN path.l1.copy = ToSet(path.l1.recent)
    BY DEF SpaceInv, SpaceTypes, CacheOK
  <2>4. ToSet(path.l1.recent) = {path.l1.recent[n] : n \in DOMAIN path.l1.recent}
    BY DEF ToSet
  <2> QED BY <2>2, <2>3, <2>4, PathFields DEF SpaceTypeOK
<1> QED BY <1>1, SpaceInitial, SpaceStep, PTL DEF SpaceSpec

-----------------------------------------------------------------------------
(* The split ring *)

Index == 0 .. IndexSpan - 1
Distance(from, to) == (to + (IndexSpan - from)) % IndexSpan

\* What is between two indices, entry by entry.
LEMMA BetweenFacts ==
  ASSUME NEW slots \in [Heads -> Heads], NEW from \in Index, NEW to \in Index
  PROVE  /\ Between(slots, from, to) \in Seq(Heads)
         /\ Len(Between(slots, from, to)) = Distance(from, to) /\ Distance(from, to) \in Index
         /\ \A i \in 1 .. Distance(from, to) :
              /\ ((from + i - 1) % QueueSize) \in Heads
              /\ Between(slots, from, to)[i] = slots[(from + i - 1) % QueueSize]
         /\ (from + Distance(from, to)) % IndexSpan = to
<1> DEFINE d == Distance(from, to)
<1>0. QueueSize \in Nat \ {0} /\ IndexSpan \in Nat \ {0}
  BY VirtioAssumption
<1>1. d \in Index /\ (from + d) % IndexSpan = to
  BY <1>0, WrapFacts DEF Distance, Index
<1>2. ASSUME NEW i \in 1 .. d
      PROVE  ((from + i - 1) % QueueSize) \in Heads
  <2> DEFINE x == from + i - 1
  <2>1. d \in Nat
    BY <1>0, <1>1 DEF Index
  <2>2. x \in Nat
    BY <1>0, <2>1 DEF Index
  <2> HIDE DEF x
  <2>3. (x % QueueSize) \in 0 .. QueueSize - 1
    BY <1>0, <2>2, ModDef
  <2> QED BY <2>3 DEF x, Heads
<1> HIDE DEF d
<1>3. Between(slots, from, to) = [i \in 1 .. d |-> slots[(from + i - 1) % QueueSize]]
  BY DEF Between, Distance, d
<1>4. d \in Nat
  BY <1>0, <1>1 DEF Index
<1> QED BY <1>1, <1>2, <1>3, <1>4 DEF d

LEMMA NothingBetween ==
  ASSUME NEW slots \in [Heads -> Heads], NEW at \in Index
  PROVE  Between(slots, at, at) = <<>>
<1>0. IndexSpan \in Nat \ {0}
  BY VirtioAssumption
<1>1. at + IndexSpan - at = IndexSpan
  BY <1>0 DEF Index
<1>2. (IndexSpan % IndexSpan) = 0
  BY <1>0, ModSelf
<1>3. Distance(at, at) = 0
  BY <1>1, <1>2 DEF Distance
<1> QED BY <1>3, BetweenFacts

\* Counting on from an index: the ring is a whole number of times smaller than the span.
LEMMA SlotOn ==
  ASSUME NEW from \in Index, NEW n \in Nat, NEW i \in Nat
  PROVE  (((from + n) % IndexSpan) + i) % QueueSize = (from + n + i) % QueueSize
<1>0. /\ QueueSize \in Nat \ {0} /\ IndexSpan \in Nat \ {0} /\ IndexSpan % QueueSize = 0
      /\ from \in Nat
  BY VirtioAssumption DEF Index
<1> DEFINE x == from + n
<1>1. x \in Nat
  BY <1>0
<1> HIDE DEF x
<1>2. \A xx, ii \in Nat : (((xx % IndexSpan) + ii) % QueueSize) = ((xx + ii) % QueueSize)
  BY <1>0, ModOfMod
<1>3. (((x % IndexSpan) + i) % QueueSize) = ((x + i) % QueueSize)
  BY <1>1, <1>2
<1> QED BY <1>3 DEF x

\* An index moved on by some heads, and whether the ring has room for them.
Further(at, heads) == (at + Len(heads)) % IndexSpan
Fits(from, to, heads) == Distance(from, to) + Len(heads) <= QueueSize

\* Heads written to the slots from an index on, and nothing else.
Written(slots, later, at, heads) ==
  /\ later \in [Heads -> Heads]
  /\ \A k \in 1 .. Len(heads) : later[(at + k - 1) % QueueSize] = heads[k]
  /\ \A s \in Heads : later[s] # slots[s] =>
       \E k \in 1 .. Len(heads) : s = (at + k - 1) % QueueSize

\* Entries written behind the last one, as long as the ring is large enough.
LEMMA BetweenGrows ==
  ASSUME NEW slots \in [Heads -> Heads], NEW later, NEW heads \in Seq(Heads),
         NEW from \in Index, NEW to \in Index, Fits(from, to, heads),
         Written(slots, later, to, heads)
  PROVE  Between(later, from, Further(to, heads)) = Between(slots, from, to) \o heads
<1> DEFINE d == Distance(from, to)
           n == Len(heads)
           end == (to + n) % IndexSpan
           before == Between(slots, from, to)
           after == Between(later, from, end)
<1>0. /\ QueueSize \in Nat \ {0} /\ IndexSpan \in Nat \ {0} /\ IndexSpan > QueueSize
      /\ from \in 0 .. IndexSpan - 1 /\ to \in 0 .. IndexSpan - 1 /\ n \in Nat
  BY VirtioAssumption DEF Index
<1>1. /\ before \in Seq(Heads) /\ Len(before) = d /\ d \in Index /\ d \in Nat
      /\ \A i \in 1 .. d : /\ ((from + i - 1) % QueueSize) \in Heads
                           /\ before[i] = slots[(from + i - 1) % QueueSize]
      /\ (from + d) % IndexSpan = to
  BY BetweenFacts DEF Index
<1>11. d + n <= QueueSize
  BY DEF Fits
<1>12. /\ later \in [Heads -> Heads]
       /\ \A k \in 1 .. n : later[(to + k - 1) % QueueSize] = heads[k]
       /\ \A s \in Heads : later[s] # slots[s] => \E k \in 1 .. n : s = (to + k - 1) % QueueSize
  BY DEF Written
<1> HIDE DEF d
<1>2. end = (from + (d + n)) % IndexSpan /\ end \in Index
  <2> DEFINE x == from + d
             y == from + (d + n)
  <2>1. x \in Nat /\ y \in Nat /\ y = x + n
    BY <1>0, <1>1
  <2> HIDE DEF x, y
  <2>2. \A xx, ii \in Nat : (((xx % IndexSpan) + ii) % IndexSpan) = ((xx + ii) % IndexSpan)
    BY <1>0, ModSelf
  <2>3. (((x % IndexSpan) + n) % IndexSpan) = ((x + n) % IndexSpan)
    BY <1>0, <2>1, <2>2
  <2>4. to = x % IndexSpan
    BY <1>1 DEF x
  <2>5. end = y % IndexSpan
    BY <2>1, <2>3, <2>4
  <2>6. y % IndexSpan \in 0 .. IndexSpan - 1
    BY <1>0, <2>1, ModDef
  <2> QED BY <2>5, <2>6 DEF y, Index
<1>3. Distance(from, end) = d + n
  <2>1. d + n \in 0 .. IndexSpan - 1
    BY <1>0, <1>1, <1>11
  <2> DEFINE m == d + n
  <2> HIDE DEF m
  <2>2. \A mm \in 0 .. IndexSpan - 1 :
          ((((from + mm) % IndexSpan) + (IndexSpan - from)) % IndexSpan) = mm
    BY <1>0, WrapLength
  <2>3. m \in 0 .. IndexSpan - 1
    BY <2>1 DEF m
  <2> HIDE DEF end
  <2>4. end = ((from + m) % IndexSpan)
    BY <1>2 DEF m
  <2>5. ((((from + m) % IndexSpan) + (IndexSpan - from)) % IndexSpan) = m
    BY <2>2, <2>3
  <2>6. Distance(from, end) = ((end + (IndexSpan - from)) % IndexSpan)
    BY DEF Distance
  <2>7. Distance(from, end) = m
    BY <2>4, <2>5, <2>6
  <2> QED BY <2>7 DEF m
<1> HIDE DEF before, after
<1> HIDE DEF end
<1>4. /\ after \in Seq(Heads) /\ Len(after) = d + n
      /\ \A i \in 1 .. d + n : /\ ((from + i - 1) % QueueSize) \in Heads
                               /\ after[i] = later[(from + i - 1) % QueueSize]
  <2>1. later \in [Heads -> Heads] /\ from \in Index /\ end \in Index
    BY <1>2, <1>12
  <2>2. /\ Between(later, from, end) \in Seq(Heads)
        /\ Len(Between(later, from, end)) = Distance(from, end)
        /\ \A i \in 1 .. Distance(from, end) :
             /\ ((from + i - 1) % QueueSize) \in Heads
             /\ Between(later, from, end)[i] = later[(from + i - 1) % QueueSize]
    BY ONLY <2>1, BetweenFacts
  <2> QED BY <1>3, <2>2 DEF after
<1>5. ASSUME NEW k \in 1 .. n
      PROVE  (to + k - 1) % QueueSize = (from + (d + k) - 1) % QueueSize
  <2> DEFINE j == k - 1
  <2>1. j \in Nat
    BY <1>0
  <2>2. (to + j) % QueueSize = (from + d + j) % QueueSize
    BY <1>1, <2>1, SlotOn
  <2>3. to + j = to + k - 1 /\ from + d + j = from + (d + k) - 1
    BY <1>0, <1>1
  <2> QED BY <2>2, <2>3
<1>6. ASSUME NEW i \in 1 .. d
      PROVE  after[i] = before[i]
  <2> DEFINE s == (from + i - 1) % QueueSize
  <2>1. s \in Heads /\ after[i] = later[s] /\ before[i] = slots[s]
    BY <1>0, <1>1, <1>4
  <2>2. ASSUME NEW k \in 1 .. n, s = (to + k - 1) % QueueSize
        PROVE  FALSE
    <3> DEFINE x == from + i - 1
               g == d + k - i
    <3>1. x \in Nat /\ g \in 1 .. QueueSize - 1 /\ x + g = from + (d + k) - 1
      BY <1>0, <1>1, <1>11
    <3>2. s = x % QueueSize
      OBVIOUS
    <3> HIDE DEF x, g, s
    <3>3. (x + g) % QueueSize # x % QueueSize
      BY <1>0, <3>1, ModApart
    <3> QED BY <1>5, <2>2, <3>1, <3>2, <3>3
  <2> HIDE DEF s
  <2>3. later[s] = slots[s]
    BY <1>12, <2>1, <2>2
  <2> QED BY <2>1, <2>3
<1>7. ASSUME NEW k \in 1 .. n
      PROVE  after[d + k] = heads[k]
  <2>1. d + k \in 1 .. d + n
    BY <1>0, <1>1
  <2>2. after[d + k] = later[(from + (d + k) - 1) % QueueSize]
    BY <1>4, <2>1
  <2> QED BY <1>5, <1>12, <2>2
<1>8. /\ Len(before \o heads) = d + n /\ before \o heads \in Seq(Heads)
      /\ \A i \in 1 .. d : (before \o heads)[i] = before[i]
      /\ \A k \in 1 .. n : (before \o heads)[d + k] = heads[k]
  <2>1. /\ before \o heads \in Seq(Heads) /\ Len(before \o heads) = Len(before) + Len(heads)
        /\ \A i \in 1 .. Len(before) + Len(heads) :
             (before \o heads)[i] = IF i <= Len(before) THEN before[i] ELSE heads[i - Len(before)]
    BY <1>1, ConcatProperties
  <2>2. n = Len(heads)
    OBVIOUS
  <2> HIDE DEF n
  <2>3. ASSUME NEW i \in 1 .. d PROVE (before \o heads)[i] = before[i]
    BY <1>0, <1>1, <2>1, <2>2
  <2>4. ASSUME NEW k \in 1 .. n PROVE (before \o heads)[d + k] = heads[k]
    BY <1>0, <1>1, <2>1, <2>2
  <2> QED BY <1>1, <2>1, <2>2, <2>3, <2>4
<1> DEFINE both == before \o heads
<1> HIDE DEF both, n, end
<1>9. ASSUME NEW i \in 1 .. d + n
      PROVE  after[i] = both[i]
  <2>1. CASE i <= d
    BY <1>0, <1>1, <1>6, <1>8, <2>1 DEF both
  <2>2. CASE ~(i <= d)
    <3> DEFINE k == i - d
    <3>1. k \in 1 .. n /\ i = d + k
      BY <1>0, <1>1, <2>2
    <3> HIDE DEF k
    <3> QED BY <1>7, <1>8, <3>1 DEF both
  <2> QED BY <2>1, <2>2
<1>10. after = both
  BY <1>4, <1>8, <1>9 DEF both
<1> QED BY <1>10 DEF after, both, before, n, end, Further

\* The oldest ones are taken.
LEMMA BetweenShrinks ==
  ASSUME NEW slots \in [Heads -> Heads], NEW from \in Index, NEW to \in Index,
         NEW m \in 0 .. Distance(from, to)
  PROVE  /\ (from + m) % IndexSpan \in Index
         /\ Between(slots, (from + m) % IndexSpan, to) =
              SubSeq(Between(slots, from, to), m + 1, Distance(from, to))
<1> DEFINE d == Distance(from, to)
           start == (from + m) % IndexSpan
           before == Between(slots, from, to)
           after == Between(slots, start, to)
<1>0. /\ QueueSize \in Nat \ {0} /\ IndexSpan \in Nat \ {0}
      /\ from \in 0 .. IndexSpan - 1 /\ to \in 0 .. IndexSpan - 1
  BY VirtioAssumption DEF Index
<1>1. /\ before \in Seq(Heads) /\ Len(before) = d /\ d \in 0 .. IndexSpan - 1
      /\ \A i \in 1 .. d : before[i] = slots[(from + i - 1) % QueueSize]
      /\ (from + d) % IndexSpan = to
  BY BetweenFacts DEF Index
<1> HIDE DEF d
<1>2. m \in 0 .. d
  BY DEF d
<1>3. start \in Index
  <2> DEFINE x == from + m
  <2>1. x \in Nat
    BY <1>0, <1>1, <1>2
  <2> HIDE DEF x
  <2>2. x % IndexSpan \in 0 .. IndexSpan - 1
    BY <1>0, <2>1, ModDef
  <2> QED BY <2>2 DEF x, Index
<1>4. Distance(start, to) = d - m
  <2> DEFINE e == d - m
             x == from + m
             y == from + d
  <2>1. e \in 0 .. IndexSpan - 1 /\ x \in Nat /\ y = x + e /\ e \in Nat
    BY <1>0, <1>1, <1>2
  <2> HIDE DEF x, y
  <2>2. \A xx, ii \in Nat : (((xx % IndexSpan) + ii) % IndexSpan) = ((xx + ii) % IndexSpan)
    BY <1>0, ModSelf
  <2>3. (((x % IndexSpan) + e) % IndexSpan) = ((x + e) % IndexSpan)
    BY <1>0, <2>1, <2>2
  <2>4. to = (start + e) % IndexSpan
    BY <1>1, <2>1, <2>3 DEF x, y
  <2> HIDE DEF e, start
  <2>5. start \in 0 .. IndexSpan - 1
    BY <1>3 DEF Index
  <2>6. \A ee \in 0 .. IndexSpan - 1 :
          ((((start + ee) % IndexSpan) + (IndexSpan - start)) % IndexSpan) = ee
    BY <1>0, <2>5, WrapLength
  <2>7. ((((start + e) % IndexSpan) + (IndexSpan - start)) % IndexSpan) = e
    BY <2>1, <2>6
  <2>8. Distance(start, to) = ((to + (IndexSpan - start)) % IndexSpan)
    BY DEF Distance
  <2>9. Distance(start, to) = e
    BY <2>4, <2>7, <2>8
  <2> QED BY <2>9 DEF e
<1> HIDE DEF before, after
<1>5. /\ after \in Seq(Heads) /\ Len(after) = d - m
      /\ \A i \in 1 .. d - m : after[i] = slots[(start + i - 1) % QueueSize]
  BY <1>3, <1>4, BetweenFacts DEF after
<1>6. ASSUME NEW i \in 1 .. d - m
      PROVE  after[i] = before[m + i]
  <2> DEFINE j == i - 1
  <2>1. j \in Nat /\ m \in Nat /\ m + i \in 1 .. d
    BY <1>1, <1>2
  <2>2. (start + j) % QueueSize = (from + m + j) % QueueSize
    BY <2>1, SlotOn
  <2>3. start + j = start + i - 1 /\ from + m + j = from + (m + i) - 1
    BY <1>0, <1>1, <1>2, <1>3 DEF Index
  <2>4. before[m + i] = slots[(from + (m + i) - 1) % QueueSize]
    BY <1>1, <2>1
  <2> QED BY <1>5, <2>2, <2>3, <2>4
<1>7. LET cut == SubSeq(before, m + 1, d) IN
        cut \in Seq(Heads) /\ Len(cut) = d - m /\ \A i \in 1 .. d - m : cut[i] = before[m + i]
  BY <1>1, <1>2
<1> DEFINE cut == SubSeq(before, m + 1, d)
<1>8. cut \in Seq(Heads) /\ Len(cut) = d - m /\ \A i \in 1 .. d - m : cut[i] = before[m + i]
  BY <1>7
<1> HIDE DEF cut
<1>9. after = cut
  BY <1>5, <1>6, <1>8
<1> QED BY <1>3, <1>9 DEF after, cut, before, d, start

\* What the driver and the device agree on: the types; every head handed over is one of its
\* own; the two rings hold what was handed over; a completion is on its way.
VirtioTypes ==
  /\ vq \in [ready : BOOLEAN, next : Index, irq : BOOLEAN, line : BOOLEAN]
  /\ ring \in [avail : Index, used : Index, heads : [Heads -> Heads], done : [Heads -> Heads]]
  /\ driver \in [open : Seq(Heads), seen : Index, handling : BOOLEAN, refused : SUBSET Heads,
                 threw : BOOLEAN]

VirtioInv ==
  /\ VirtioTypes
  /\ Distinct(driver.open)
  /\ RequestsInOrder
  /\ CompletionSignalled

\* No more than the queue holds are handed over.
LEMMA OpenBounded ==
  ASSUME NEW q \in Seq(Heads), Distinct(q)
  PROVE  Len(q) <= QueueSize
<1>1. IsFiniteSet(ToSet(q)) /\ Cardinality(ToSet(q)) = Len(q)
  BY DistinctCardinality
<1>2. ToSet(q) \subseteq Heads
  BY QueueSet
<1>3. IsFiniteSet(Heads) /\ Cardinality(Heads) = QueueSize
  BY VirtioAssumption, FS_Interval DEF Heads
<1> QED BY <1>1, <1>2, <1>3, FS_Subset

LEMMA PushedFacts ==
  ASSUME NEW heads \in Seq(Heads), Len(heads) <= QueueSize,
         ring.done \in [Heads -> Heads], ring.used \in Index
  PROVE  Written(ring.done, Pushed(heads), ring.used, heads)
<1> DEFINE n == Len(heads)
           slot(k) == (ring.used + k - 1) % QueueSize
           here(s) == {k \in 1 .. n : slot(k) = s}
<1>0. QueueSize \in Nat \ {0} /\ IndexSpan \in Nat /\ ring.used \in Nat /\ n \in Nat /\ n <= QueueSize
      /\ DOMAIN heads = 1 .. n
  BY VirtioAssumption DEF Index
<1>1. ASSUME NEW k \in 1 .. n
      PROVE  slot(k) \in Heads
  <2> DEFINE x == ring.used + k - 1
  <2>1. x \in Nat
    BY <1>0
  <2> HIDE DEF x
  <2>2. (x % QueueSize) \in 0 .. QueueSize - 1
    BY <1>0, <2>1, ModDef
  <2> QED BY <2>2 DEF x, Heads
<1>2. ASSUME NEW k \in 1 .. n, NEW j \in 1 .. n, k < j
      PROVE  slot(k) # slot(j)
  <2> DEFINE x == ring.used + k - 1
             g == j - k
  <2>1. x \in Nat /\ g \in 1 .. QueueSize - 1 /\ x + g = ring.used + j - 1
    BY <1>0, <1>2
  <2> HIDE DEF x, g
  <2>2. ((x + g) % QueueSize) # (x % QueueSize)
    BY <1>0, <2>1, ModApart
  <2>3. slot(k) = (x % QueueSize) /\ slot(j) = ((x + g) % QueueSize)
    BY <2>1 DEF x
  <2> QED BY <2>2, <2>3
<1>3. Pushed(heads) = [s \in Heads |-> IF here(s) = {} THEN ring.done[s] ELSE heads[Max(here(s))]]
  BY <1>0 DEF Pushed
<1> HIDE DEF slot
<1>4. ASSUME NEW s \in Heads, NEW k \in here(s)
      PROVE  here(s) = {k} /\ Max(here(s)) = k
  <2>1. \A j \in 1 .. n : slot(j) = s => j = k
    BY <1>2, <1>0
  <2>2. here(s) = {k}
    BY <2>1
  <2>3. Max({k}) = k
    <3>1. k >= k
      BY <1>0
    <3> QED BY <3>1 DEF Max
  <2> QED BY <2>2, <2>3
<1>5. ASSUME NEW s \in Heads
      PROVE  (IF here(s) = {} THEN ring.done[s] ELSE heads[Max(here(s))]) \in Heads
  <2>1. CASE here(s) = {}
    BY <2>1
  <2>2. CASE here(s) # {}
    <3>1. PICK k \in here(s) : TRUE
      BY <2>2
    <3>2. Max(here(s)) = k /\ heads[k] \in Heads
      BY <1>4, <3>1
    <3> QED BY <2>2, <3>2
  <2> QED BY <2>1, <2>2
<1>6. Pushed(heads) \in [Heads -> Heads]
  BY <1>3, <1>5
<1>7. ASSUME NEW k \in 1 .. n
      PROVE  Pushed(heads)[slot(k)] = heads[k]
  <2>1. slot(k) \in Heads /\ k \in here(slot(k))
    BY <1>1
  <2>2. Max(here(slot(k))) = k
    BY <1>4, <2>1
  <2> QED BY <1>3, <2>1, <2>2
<1>8. ASSUME NEW s \in Heads, Pushed(heads)[s] # ring.done[s]
      PROVE  \E k \in 1 .. n : s = slot(k)
  <2>1. here(s) # {}
    BY <1>3, <1>8
  <2> QED BY <2>1
<1> QED BY <1>6, <1>7, <1>8 DEF slot, Written

\* What a notification serves is the front of what is available.
LEMMA ServedFacts ==
  ASSUME Available \in Seq(Heads)
  PROVE  \E m \in 0 .. Len(Available) : Served = SubSeq(Available, 1, m)
<1> DEFINE q == Available
           bad == {i \in DOMAIN q : q[i] \in driver.refused}
           first == CHOOSE i \in bad : \A j \in bad : i <= j
<1>1. q \in Seq(Heads) /\ Len(q) \in Nat /\ DOMAIN q = 1 .. Len(q) /\ bad \in SUBSET Nat
  OBVIOUS
<1>2. Served = IF bad = {} THEN q ELSE SubSeq(q, 1, first - 1)
  BY DEF Served
<1> HIDE DEF q
<1>3. CASE bad = {}
  <2>1. Served = SubSeq(q, 1, Len(q)) /\ Len(q) \in 0 .. Len(q)
    BY <1>1, <1>2, <1>3
  <2> QED BY <2>1 DEF q
<1>4. CASE bad # {}
  <2>1. \E i \in bad : \A j \in bad : i <= j
    BY <1>1, <1>4, LeastOf
  <2>2. first \in bad
    BY <2>1
  <2>3. first \in 1 .. Len(q)
    BY <1>1, <2>2
  <2>4. Served = SubSeq(q, 1, first - 1)
    BY <1>2, <1>4
  <2> HIDE DEF first, bad
  <2>5. Len(q) \in Nat
    BY <1>1
  <2>6. first - 1 \in 0 .. Len(q)
    BY <2>3, <2>5
  <2> QED BY <2>4, <2>6 DEF q
<1> QED BY <1>3, <1>4

LEMMA VirtioInitOK ==
  VirtioInit => VirtioInv
<1> SUFFICES ASSUME VirtioInit PROVE VirtioInv
  OBVIOUS
<1>0. QueueSize \in Nat \ {0} /\ IndexSpan \in Nat \ {0}
  BY VirtioAssumption
<1>1. 0 \in Index /\ 0 \in Heads
  BY <1>0 DEF Index, Heads
<1>2. [s \in Heads |-> 0] \in [Heads -> Heads]
  BY <1>1
<1>3. VirtioTypes
  BY <1>1, <1>2 DEF VirtioInit, EmptyRing, IdleDriver, VirtioTypes
<1>4. Distinct(driver.open) /\ RequestsInOrder /\ CompletionSignalled
  BY DEF VirtioInit, IdleDriver, Distinct, RequestsInOrder, CompletionSignalled
<1> QED BY <1>3, <1>4 DEF VirtioInv

\* The rings as seen in a state of the invariant.
LEMMA RingFacts ==
  ASSUME VirtioTypes
  PROVE  /\ vq.next \in Index /\ ring.avail \in Index /\ ring.used \in Index /\ driver.seen \in Index
         /\ ring.heads \in [Heads -> Heads] /\ ring.done \in [Heads -> Heads]
         /\ driver.open \in Seq(Heads)
         /\ Available \in Seq(Heads) /\ Len(Available) = Distance(vq.next, ring.avail)
         /\ Unseen \in Seq(Heads) /\ Len(Unseen) = Distance(driver.seen, ring.used)
<1>1. /\ vq.next \in Index /\ ring.avail \in Index /\ ring.used \in Index /\ driver.seen \in Index
      /\ ring.heads \in [Heads -> Heads] /\ ring.done \in [Heads -> Heads]
      /\ driver.open \in Seq(Heads)
  BY DEF VirtioTypes
<1>2. Available \in Seq(Heads) /\ Len(Available) = Distance(vq.next, ring.avail)
  BY <1>1, BetweenFacts DEF Available
<1>3. Unseen \in Seq(Heads) /\ Len(Unseen) = Distance(driver.seen, ring.used)
  BY <1>1, BetweenFacts DEF Unseen
<1> QED BY <1>1, <1>2, <1>3

LEMMA SetUpQueueOK ==
  ASSUME VirtioInv, SetUpQueue
  PROVE  VirtioInv'
<1>0. QueueSize \in Nat \ {0} /\ IndexSpan \in Nat \ {0}
  BY VirtioAssumption
<1>1. 0 \in Index /\ 0 \in Heads
  BY <1>0 DEF Index, Heads
<1>2. [s \in Heads |-> 0] \in [Heads -> Heads]
  BY <1>1
<1>3. VirtioTypes'
  <2>1. vq' \in [ready : BOOLEAN, next : Index, irq : BOOLEAN, line : BOOLEAN]
    BY <1>1 DEF VirtioInv, VirtioTypes, SetUpQueue
  <2>2. ring' \in [avail : Index, used : Index, heads : [Heads -> Heads], done : [Heads -> Heads]]
    BY <1>1, <1>2 DEF SetUpQueue, EmptyRing
  <2>3. driver' = [open |-> <<>>, seen |-> 0, handling |-> driver.handling, refused |-> {}, threw |-> FALSE]
    BY DEF SetUpQueue, IdleDriver
  <2>4. driver.handling \in BOOLEAN
    BY DEF VirtioInv, VirtioTypes
  <2>5. driver' \in [open : Seq(Heads), seen : Index, handling : BOOLEAN, refused : SUBSET Heads,
                     threw : BOOLEAN]
    BY <1>1, <2>3, <2>4
  <2> QED BY <2>1, <2>2, <2>5 DEF VirtioTypes
<1>4. driver'.open = <<>> /\ Distinct(driver.open)'
  BY DEF SetUpQueue, IdleDriver, Distinct
<1>5. /\ vq'.next = 0 /\ ring'.avail = 0 /\ driver'.seen = 0 /\ ring'.used = 0
      /\ ring'.heads = [s \in Heads |-> 0] /\ ring'.done = [s \in Heads |-> 0]
  BY DEF VirtioInv, VirtioTypes, SetUpQueue, EmptyRing, IdleDriver
<1>6. Available' = <<>> /\ Unseen' = <<>>
  BY <1>1, <1>2, <1>5, NothingBetween DEF Available, Unseen
<1>7. RequestsInOrder' /\ CompletionSignalled'
  BY <1>4, <1>6 DEF RequestsInOrder, CompletionSignalled
<1> QED BY <1>3, <1>4, <1>7 DEF VirtioInv

LEMMA PostRequestOK ==
  ASSUME VirtioInv, NEW head \in Heads, NEW wellFormed \in BOOLEAN, PostRequest(head, wellFormed)
  PROVE  VirtioInv'
<1>0. QueueSize \in Nat \ {0} /\ IndexSpan \in Nat \ {0} /\ IndexSpan > QueueSize
  BY VirtioAssumption
<1>1. VirtioTypes /\ Distinct(driver.open) /\ RequestsInOrder /\ CompletionSignalled
  BY DEF VirtioInv
<1>2. /\ vq.next \in Index /\ ring.avail \in Index /\ ring.used \in Index /\ driver.seen \in Index
      /\ ring.heads \in [Heads -> Heads] /\ ring.done \in [Heads -> Heads]
      /\ driver.open \in Seq(Heads)
      /\ Available \in Seq(Heads) /\ Len(Available) = Distance(vq.next, ring.avail)
      /\ Unseen \in Seq(Heads) /\ Len(Unseen) = Distance(driver.seen, ring.used)
  BY <1>1, RingFacts
<1> DEFINE at == ring.avail % QueueSize
           heads2 == [ring.heads EXCEPT ![at] = head]
           avail2 == (ring.avail + 1) % IndexSpan
           open2 == Append(driver.open, head)
<1>3. at \in Heads
  <2>1. ring.avail \in Nat
    BY <1>0, <1>2 DEF Index
  <2> QED BY <1>0, <2>1, ModDef DEF Heads
<1>4. avail2 \in Index
  <2> DEFINE x == ring.avail + 1
  <2>1. x \in Nat
    BY <1>0, <1>2 DEF Index
  <2> HIDE DEF x
  <2>2. (x % IndexSpan) \in 0 .. IndexSpan - 1
    BY <1>0, <2>1, ModDef
  <2> QED BY <2>2 DEF x, Index
<1>5. heads2 \in [Heads -> Heads] /\ heads2[at] = head /\ \A s \in Heads : s # at => heads2[s] = ring.heads[s]
  BY <1>2, <1>3
<1>6. /\ vq.ready /\ head \notin ToSet(driver.open) /\ vq' = vq
      /\ ring' = [ring EXCEPT !.heads = heads2, !.avail = avail2]
  BY <1>1 DEF PostRequest, VirtioTypes
<1>7. driver' = [driver EXCEPT !.open = open2,
                   !.refused = IF wellFormed THEN driver.refused \ {head} ELSE driver.refused \cup {head}]
  BY <1>1 DEF PostRequest, VirtioTypes
<1> HIDE DEF at, heads2, avail2, open2
<1>8. open2 \in Seq(Heads) /\ Distinct(open2)
  BY <1>1, <1>2, <1>6, AppendSet DEF open2
<1>9. VirtioTypes'
  <2>1. vq' \in [ready : BOOLEAN, next : Index, irq : BOOLEAN, line : BOOLEAN]
    BY <1>1, <1>6 DEF VirtioTypes
  <2>2. ring' \in [avail : Index, used : Index, heads : [Heads -> Heads], done : [Heads -> Heads]]
    BY <1>1, <1>4, <1>5, <1>6 DEF VirtioTypes
  <2>3. driver' \in [open : Seq(Heads), seen : Index, handling : BOOLEAN, refused : SUBSET Heads,
                     threw : BOOLEAN]
    BY <1>1, <1>7, <1>8 DEF VirtioTypes
  <2> QED BY <2>1, <2>2, <2>3 DEF VirtioTypes
<1>10. /\ driver'.open = open2 /\ driver'.seen = driver.seen /\ driver'.handling = driver.handling
       /\ driver'.threw = driver.threw /\ ring'.used = ring.used /\ ring'.done = ring.done
       /\ ring'.heads = heads2 /\ ring'.avail = avail2
  BY <1>1, <1>6, <1>7 DEF VirtioTypes
<1>11. Unseen' = Unseen
  BY <1>10 DEF Unseen
<1>12. driver.open = Unseen \o Available
  BY <1>1, <1>6 DEF RequestsInOrder
<1>13. Available' = Available \o <<head>>
  <2> DEFINE d == Distance(vq.next, ring.avail)
  <2>1. d + 1 <= QueueSize
    <3>1. Len(open2) <= QueueSize
      BY <1>8, OpenBounded
    <3>2. Len(open2) = Len(Unseen) + Len(Available) + 1
      BY <1>2, <1>12 DEF open2
    <3> HIDE DEF d
    <3>3. Len(Available) = d
      BY <1>2 DEF d
    <3>4. Len(Unseen) \in Nat /\ Len(Available) \in Nat
      BY <1>2
    <3> QED BY <1>0, <3>1, <3>2, <3>3, <3>4
  <2> DEFINE hs == <<head>>
  <2>2. hs \in Seq(Heads) /\ Len(hs) = 1 /\ hs[1] = head
    OBVIOUS
  <2>3. \A k \in 1 .. Len(hs) : k = 1 /\ ring.avail + k - 1 = ring.avail
    BY <1>0, <1>2, <2>2 DEF Index
  <2>4. \A k \in 1 .. Len(hs) : heads2[(ring.avail + k - 1) % QueueSize] = hs[k]
    BY <1>5, <2>2, <2>3 DEF at
  <2>5. \A s \in Heads : heads2[s] # ring.heads[s] =>
          \E k \in 1 .. Len(hs) : s = (ring.avail + k - 1) % QueueSize
    <3>1. 1 \in 1 .. Len(hs)
      BY <2>2
    <3> QED BY <1>5, <2>3, <3>1 DEF at
  <2>6. d + Len(hs) <= QueueSize
    BY <2>1, <2>2
  <2> HIDE DEF hs
  <2>7. Between(heads2, vq.next, avail2) = Between(ring.heads, vq.next, ring.avail) \o hs
    <3>1. Distance(vq.next, ring.avail) + Len(hs) <= QueueSize
      BY <2>6
    <3>2. Written(ring.heads, heads2, ring.avail, hs)
      BY <1>5, <2>4, <2>5 DEF Written
    <3>3. avail2 = Further(ring.avail, hs)
      BY <2>2 DEF avail2, Further
    <3>4. Fits(vq.next, ring.avail, hs)
      BY <3>1 DEF Fits
    <3>5. Between(heads2, vq.next, Further(ring.avail, hs)) = Between(ring.heads, vq.next, ring.avail) \o hs
      <4>1. ring.heads \in [Heads -> Heads] /\ hs \in Seq(Heads) /\ vq.next \in Index /\ ring.avail \in Index
        BY <1>2, <2>2
      <4> QED BY ONLY <3>2, <3>4, <4>1, BetweenGrows
    <3> QED BY <3>3, <3>5
  <2>8. Available' = Between(heads2, vq.next, avail2)
    BY <1>6, <1>10 DEF Available
  <2> QED BY <2>7, <2>8 DEF Available, hs
<1>14. open2 = Unseen \o (Available \o <<head>>)
  <2>1. Append(Unseen \o Available, head) = (Unseen \o Available) \o <<head>>
    BY <1>2
  <2>2. (Unseen \o Available) \o <<head>> = Unseen \o (Available \o <<head>>)
    <3>1. \A x, y, z \in Seq(Heads) : (x \o y) \o z = x \o (y \o z)
      BY ONLY ConcatAssociative
    <3>2. Unseen \in Seq(Heads) /\ Available \in Seq(Heads) /\ <<head>> \in Seq(Heads)
      BY <1>2
    <3> QED BY ONLY <3>1, <3>2
  <2> QED BY <1>12, <2>1, <2>2 DEF open2
<1>15. RequestsInOrder'
  BY <1>10, <1>11, <1>13, <1>14 DEF RequestsInOrder
<1>16. CompletionSignalled'
  BY <1>1, <1>6, <1>10, <1>11 DEF CompletionSignalled
<1>17. Distinct(driver.open)'
  BY <1>8, <1>10 DEF Distinct
<1> QED BY <1>9, <1>15, <1>16, <1>17 DEF VirtioInv

LEMMA NotifyOK ==
  ASSUME VirtioInv, Notify
  PROVE  VirtioInv'
<1>0. QueueSize \in Nat \ {0} /\ IndexSpan \in Nat \ {0} /\ IndexSpan > QueueSize
  BY VirtioAssumption
<1>1. VirtioTypes /\ Distinct(driver.open) /\ RequestsInOrder /\ CompletionSignalled
  BY DEF VirtioInv
<1>2. /\ vq.next \in Index /\ ring.avail \in Index /\ ring.used \in Index /\ driver.seen \in Index
      /\ ring.heads \in [Heads -> Heads] /\ ring.done \in [Heads -> Heads]
      /\ driver.open \in Seq(Heads)
      /\ Available \in Seq(Heads) /\ Len(Available) = Distance(vq.next, ring.avail)
      /\ Unseen \in Seq(Heads) /\ Len(Unseen) = Distance(driver.seen, ring.used)
  BY <1>1, RingFacts
<1> DEFINE q == Available
           u == Unseen
           hs == Served
           all == Served = Available
           done2 == Pushed(hs)
           used2 == (ring.used + Len(hs)) % IndexSpan
           next2 == (vq.next + Len(hs)) % IndexSpan
<1>3. /\ vq.ready
      /\ ring' = [ring EXCEPT !.done = done2, !.used = used2]
      /\ vq' = [vq EXCEPT !.next = next2, !.irq = vq.irq \/ all, !.line = vq.line \/ all]
      /\ driver' = [driver EXCEPT !.threw = driver.threw \/ ~all]
  BY <1>1 DEF Notify, PushUsed, VirtioTypes
<1>4. driver.open = u \o q
  BY <1>1, <1>3 DEF RequestsInOrder
<1>5. PICK m \in 0 .. Len(q) : hs = SubSeq(q, 1, m)
  BY <1>2, ServedFacts
<1> HIDE DEF q, u, hs, done2
<1>6. q \in Seq(Heads) /\ u \in Seq(Heads) /\ Len(q) \in Nat /\ Len(u) \in Nat
  BY <1>2 DEF q, u
<1> DEFINE rest == SubSeq(q, m + 1, Len(q))
<1>7. /\ hs \in Seq(Heads) /\ Len(hs) = m /\ rest \in Seq(Heads)
  BY ONLY <1>5, <1>6
<1>8. q = hs \o rest
  <2>1. 1 \in 1 .. Len(q) + 1 /\ m \in 1 - 1 .. Len(q) /\ Len(q) \in m .. Len(q)
    BY <1>5, <1>6
  <2>2. SubSeq(q, 1, m) \o SubSeq(q, m + 1, Len(q)) = SubSeq(q, 1, Len(q))
    BY <1>6, <2>1, ConcatAdjacentSubSeq
  <2>3. SubSeq(q, 1, Len(q)) = q
    BY <1>6
  <2> QED BY <1>5, <2>2, <2>3
<1>9. Len(u) + Len(hs) <= QueueSize
  <2>1. Len(driver.open) <= QueueSize
    BY <1>1, <1>2, OpenBounded
  <2>2. Len(driver.open) = Len(u) + Len(q)
    BY <1>4, <1>6
  <2> QED BY <1>0, <1>5, <1>6, <1>7, <2>1, <2>2
<1>10. Written(ring.done, done2, ring.used, hs)
  <2>1. Len(hs) <= QueueSize
    BY <1>0, <1>6, <1>7, <1>9
  <2> QED BY <1>2, <1>7, <2>1, PushedFacts DEF done2
<1>11. Between(done2, driver.seen, used2) = u \o hs
  <2>1. Distance(driver.seen, ring.used) + Len(hs) <= QueueSize
    BY <1>2, <1>9 DEF u
  <2>2. used2 = Further(ring.used, hs)
    BY DEF Further
  <2>3. Fits(driver.seen, ring.used, hs)
    BY <2>1 DEF Fits
  <2> HIDE DEF used2
  <2>4. Between(done2, driver.seen, Further(ring.used, hs)) = Between(ring.done, driver.seen, ring.used) \o hs
    <3>1. ring.done \in [Heads -> Heads] /\ hs \in Seq(Heads) /\ driver.seen \in Index /\ ring.used \in Index
      BY <1>2, <1>7
    <3> QED BY ONLY <1>10, <2>3, <3>1, BetweenGrows
  <2> QED BY <2>2, <2>4 DEF u, Unseen
<1>12. next2 \in Index /\ Between(ring.heads, next2, ring.avail) = rest
  <2>1. m \in 0 .. Distance(vq.next, ring.avail) /\ Len(q) = Distance(vq.next, ring.avail)
    BY <1>2, <1>5 DEF q
  <2>2. /\ (vq.next + m) % IndexSpan \in Index
        /\ Between(ring.heads, (vq.next + m) % IndexSpan, ring.avail) =
             SubSeq(Between(ring.heads, vq.next, ring.avail), m + 1, Distance(vq.next, ring.avail))
    BY <1>2, <2>1, BetweenShrinks
  <2>3. next2 = (vq.next + m) % IndexSpan
    BY <1>7
  <2> QED BY <2>1, <2>2, <2>3 DEF q, Available
<1>13. used2 \in Index
  <2> DEFINE x == ring.used + Len(hs)
  <2>1. x \in Nat
    BY <1>0, <1>2, <1>5, <1>7 DEF Index
  <2> HIDE DEF x
  <2>2. (x % IndexSpan) \in 0 .. IndexSpan - 1
    BY <1>0, <2>1, ModDef
  <2> QED BY <2>2 DEF x, Index
<1>14. done2 \in [Heads -> Heads]
  BY <1>10 DEF Written
<1> HIDE DEF used2, next2, rest, all
<1>15. all \in BOOLEAN
  BY DEF all
<1>16. /\ ring'.done = done2 /\ ring'.used = used2 /\ ring'.heads = ring.heads
       /\ ring'.avail = ring.avail /\ vq'.next = next2 /\ vq'.ready
       /\ driver'.open = driver.open /\ driver'.seen = driver.seen
  <2>1. vq.ready \in BOOLEAN
    BY <1>1 DEF VirtioTypes
  <2>2. vq'.ready = vq.ready
    BY <1>1, <1>3 DEF VirtioTypes
  <2>3. /\ ring'.done = done2 /\ ring'.used = used2 /\ ring'.heads = ring.heads
        /\ ring'.avail = ring.avail /\ vq'.next = next2
        /\ driver'.open = driver.open /\ driver'.seen = driver.seen
    BY <1>1, <1>3 DEF VirtioTypes
  <2> QED BY <1>3, <2>2, <2>3
<1>17. VirtioTypes'
  <2> DEFINE irq2 == vq.irq \/ all
             line2 == vq.line \/ all
             threw2 == driver.threw \/ ~all
  <2>1. irq2 \in BOOLEAN /\ line2 \in BOOLEAN /\ threw2 \in BOOLEAN
    OBVIOUS
  <2>2. /\ vq' = [vq EXCEPT !.next = next2, !.irq = irq2, !.line = line2]
        /\ driver' = [driver EXCEPT !.threw = threw2]
    BY <1>3
  <2> HIDE DEF irq2, line2, threw2
  <2>3. vq' \in [ready : BOOLEAN, next : Index, irq : BOOLEAN, line : BOOLEAN]
    BY <1>1, <1>12, <2>1, <2>2 DEF VirtioTypes
  <2>4. ring' \in [avail : Index, used : Index, heads : [Heads -> Heads], done : [Heads -> Heads]]
    BY <1>1, <1>3, <1>13, <1>14 DEF VirtioTypes
  <2>5. driver' \in [open : Seq(Heads), seen : Index, handling : BOOLEAN, refused : SUBSET Heads,
                     threw : BOOLEAN]
    BY <1>1, <2>1, <2>2 DEF VirtioTypes
  <2> QED BY <2>3, <2>4, <2>5 DEF VirtioTypes
<1>18. Unseen' = u \o hs /\ Available' = rest
  BY <1>11, <1>12, <1>16 DEF Unseen, Available
<1>19. RequestsInOrder'
  <2>1. u \o q = (u \o hs) \o rest
    <3>1. u \in Seq(Heads) /\ hs \in Seq(Heads) /\ rest \in Seq(Heads) /\ q = hs \o rest
      BY <1>6, <1>7, <1>8
    <3>2. \A x, y, z \in Seq(Heads) : (x \o y) \o z = x \o (y \o z)
      BY ONLY ConcatAssociative
    <3> QED BY ONLY <3>1, <3>2
  <2> QED BY ONLY <1>4, <1>16, <1>18, <2>1 DEF RequestsInOrder
<1>20. CompletionSignalled'
  <2>1. vq'.line \/ driver'.threw
    <3>1. CASE all
      <4>1. vq'.line = (vq.line \/ all)
        BY <1>1, <1>3 DEF VirtioTypes
      <4> QED BY <3>1, <4>1
    <3>2. CASE ~all
      <4>1. driver'.threw = (driver.threw \/ ~all)
        BY <1>1, <1>3 DEF VirtioTypes
      <4> QED BY <3>2, <4>1
    <3> QED BY <3>1, <3>2
  <2> QED BY <2>1 DEF CompletionSignalled
<1>21. Distinct(driver.open)'
  BY <1>1, <1>16 DEF Distinct
<1> QED BY <1>17, <1>19, <1>20, <1>21 DEF VirtioInv

\* What is left when the first of a sequence without repetition are taken out.
LEMMA SelectedRest ==
  ASSUME NEW S, NEW u \in Seq(S), NEW q \in Seq(S), Distinct(u \o q)
  PROVE  Selected(u \o q, {i \in DOMAIN (u \o q) : (u \o q)[i] \notin ToSet(u)}) = q
<1> DEFINE w == u \o q
           a == Len(u)
           b == Len(q)
           K == {i \in DOMAIN w : w[i] \notin ToSet(u)}
<1>1. /\ a \in Nat /\ b \in Nat /\ w \in Seq(S) /\ Len(w) = a + b /\ DOMAIN w = 1 .. a + b
      /\ \A i \in 1 .. a + b : w[i] = IF i <= a THEN u[i] ELSE q[i - a]
  BY ConcatProperties
<1>2. ToSet(u) = {u[i] : i \in 1 .. a}
  BY QueueSet
<1>3. Distinct(w)
  OBVIOUS
<1> HIDE DEF w, a, b
<1>4. K = (a + 1) .. (a + b)
  <2>1. ASSUME NEW i \in 1 .. a + b, i <= a
        PROVE  w[i] \in ToSet(u)
    BY <1>1, <1>2, <2>1
  <2>2. ASSUME NEW i \in 1 .. a + b, ~(i <= a), w[i] \in ToSet(u)
        PROVE  FALSE
    <3>1. PICK j \in 1 .. a : w[i] = u[j]
      BY <1>2, <2>2
    <3>2. j \in 1 .. a + b /\ w[j] = w[i]
      BY <1>1, <3>1
    <3> QED BY <1>1, <1>3, <2>2, <3>1, <3>2 DEF Distinct
  <2> QED BY <1>1, <2>1, <2>2
<1> HIDE DEF K
<1>5. Cardinality(K) = b
  <2>1. a + 1 \in Int /\ a + b \in Int
    BY <1>1
  <2>2. Cardinality((a + 1) .. (a + b)) = IF a + 1 > a + b THEN 0 ELSE (a + b) - (a + 1) + 1
    BY <2>1, FS_Interval
  <2> QED BY <1>1, <1>4, <2>2
<1>6. ASSUME NEW n \in 1 .. b
      PROVE  Nth(K, n) = a + n
  <2>1. a + n \in K
    BY <1>1, <1>4
  <2>2. ASSUME NEW i \in K
        PROVE  Cardinality({j \in K : j < i}) = (i - a) - 1
    <3> DEFINE T == {j \in K : j < i}
    <3>1. T = (a + 1) .. (i - 1)
      BY <1>1, <1>4
    <3> HIDE DEF T
    <3>2. i \in Int /\ a + 1 \in Int /\ i - 1 \in Int /\ i >= a + 1
      BY <1>1, <1>4
    <3>3. Cardinality((a + 1) .. (i - 1)) = IF a + 1 > i - 1 THEN 0 ELSE (i - 1) - (a + 1) + 1
      BY <3>2, FS_Interval
    <3>4. Cardinality(T) = (i - a) - 1
      BY <1>1, <3>1, <3>2, <3>3
    <3> QED BY <3>4 DEF T
  <2>3. ASSUME NEW i \in K
        PROVE  Cardinality({j \in K : j < i}) = n - 1 <=> i = a + n
    <3> DEFINE T == {j \in K : j < i}
    <3>1. i \in Int
      BY <1>1, <1>4
    <3>2. Cardinality(T) = (i - a) - 1
      BY <2>2
    <3> HIDE DEF T
    <3> DEFINE c == Cardinality(T)
    <3>3. a \in Int /\ n \in Int /\ i \in Int /\ c = (i - a) - 1
      BY <1>1, <3>1, <3>2
    <3> HIDE DEF c
    <3>4. c = n - 1 <=> i = a + n
      BY ONLY <3>3
    <3> QED BY <3>4 DEF T, c
  <2> QED BY <2>1, <2>3 DEF Nth
<1>7. Selected(w, K) = [n \in 1 .. b |-> w[Nth(K, n)]]
  BY <1>5 DEF Selected
<1>8. \A n \in 1 .. b : w[Nth(K, n)] = q[n]
  BY <1>1, <1>6
<1>9. q = [n \in 1 .. b |-> q[n]]
  BY DEF b
<1>10. Selected(w, K) = q
  BY <1>7, <1>8, <1>9
<1> QED BY <1>10 DEF K, w

LEMMA ReadUsedOK ==
  ASSUME VirtioInv, ReadUsed
  PROVE  VirtioInv'
<1>1. VirtioTypes /\ Distinct(driver.open) /\ RequestsInOrder /\ CompletionSignalled
  BY DEF VirtioInv
<1>2. /\ vq.next \in Index /\ ring.avail \in Index /\ ring.used \in Index /\ driver.seen \in Index
      /\ ring.heads \in [Heads -> Heads] /\ ring.done \in [Heads -> Heads]
      /\ driver.open \in Seq(Heads)
      /\ Available \in Seq(Heads) /\ Len(Available) = Distance(vq.next, ring.avail)
      /\ Unseen \in Seq(Heads) /\ Len(Unseen) = Distance(driver.seen, ring.used)
  BY <1>1, RingFacts
<1> DEFINE q == driver.open
           K == {i \in DOMAIN q : q[i] \notin ToSet(Unseen)}
           open2 == Selected(q, K)
<1>3. /\ vq' = vq /\ ring' = ring
      /\ driver' = [driver EXCEPT !.handling = FALSE, !.seen = ring.used, !.threw = FALSE, !.open = open2]
  BY <1>1 DEF ReadUsed, VirtioTypes
<1>4. open2 \in Seq(Heads) /\ Distinct(open2)
  <2> HIDE DEF q
  <2>1. q \in Seq(Heads) /\ K \in SUBSET (1 .. Len(q)) /\ Distinct(q)
    BY <1>1, <1>2 DEF q
  <2> HIDE DEF K
  <2>2. /\ Selected(q, K) \in Seq(Heads) /\ Len(Selected(q, K)) = Cardinality(K)
        /\ \A n \in 1 .. Cardinality(K) : Nth(K, n) \in K /\ Selected(q, K)[n] = q[Nth(K, n)]
        /\ \A n, m \in 1 .. Cardinality(K) : Nth(K, n) = Nth(K, m) => n = m
    BY ONLY <2>1, SelectedFacts
  <2>3. ASSUME NEW n \in 1 .. Cardinality(K), NEW m \in 1 .. Cardinality(K),
               Selected(q, K)[n] = Selected(q, K)[m]
        PROVE  n = m
    <3>1. Nth(K, n) \in 1 .. Len(q) /\ Nth(K, m) \in 1 .. Len(q) /\ q[Nth(K, n)] = q[Nth(K, m)]
      BY <2>1, <2>2, <2>3
    <3>2. Nth(K, n) = Nth(K, m)
      BY <2>1, <3>1 DEF Distinct
    <3> QED BY <2>2, <3>2
  <2> QED BY <2>2, <2>3 DEF Distinct
<1> HIDE DEF open2
<1>5. VirtioTypes'
  <2>1. driver' \in [open : Seq(Heads), seen : Index, handling : BOOLEAN, refused : SUBSET Heads,
                     threw : BOOLEAN]
    BY <1>1, <1>2, <1>3, <1>4 DEF VirtioTypes
  <2> QED BY <1>1, <1>3, <2>1 DEF VirtioTypes
<1>6. /\ driver'.open = open2 /\ driver'.seen = ring.used
  BY <1>1, <1>3 DEF VirtioTypes
<1>7. Available' = Available
  BY <1>3 DEF Available
<1>8. Unseen' = <<>>
  BY <1>2, <1>3, <1>6, NothingBetween DEF Unseen
<1>9. RequestsInOrder'
  <2> SUFFICES ASSUME vq.ready PROVE open2 = Available
    <3>1. vq.ready => open2 = <<>> \o Available
      BY <1>2
    <3> QED BY <1>3, <1>6, <1>7, <1>8, <3>1 DEF RequestsInOrder
  <2>1. q = Unseen \o Available
    BY <1>1 DEF RequestsInOrder
  <2>2. Distinct(Unseen \o Available)
    BY <1>1, <2>1
  <2>3. Selected(Unseen \o Available,
          {i \in DOMAIN (Unseen \o Available) : (Unseen \o Available)[i] \notin ToSet(Unseen)}) = Available
    BY <1>2, <2>2, SelectedRest
  <2> QED BY <2>1, <2>3 DEF open2
<1>10. CompletionSignalled'
  BY <1>8 DEF CompletionSignalled
<1>11. Distinct(driver.open)'
  BY <1>4, <1>6 DEF Distinct
<1> QED BY <1>5, <1>9, <1>10, <1>11 DEF VirtioInv

LEMMA OtherVirtioStepsOK ==
  ASSUME VirtioInv, Acknowledge \/ ResetTransport \/ UNCHANGED virtioVars
  PROVE  VirtioInv'
<1>1. VirtioTypes /\ Distinct(driver.open) /\ RequestsInOrder /\ CompletionSignalled
  BY DEF VirtioInv
<1>0. 0 \in Index
  BY VirtioAssumption DEF Index
<1>2. CASE Acknowledge
  <2>1. VirtioTypes'
    BY <1>1, <1>2 DEF VirtioTypes, Acknowledge
  <2>2. /\ vq'.next = vq.next /\ vq'.ready = vq.ready /\ ring' = ring
        /\ driver'.open = driver.open /\ driver'.seen = driver.seen
    BY <1>1, <1>2 DEF VirtioTypes, Acknowledge
  <2>3. driver'.handling
    BY <1>1, <1>2 DEF VirtioTypes, Acknowledge
  <2>4. Available' = Available /\ Unseen' = Unseen
    BY <2>2 DEF Available, Unseen
  <2>5. RequestsInOrder' /\ CompletionSignalled'
    BY <1>1, <2>2, <2>3, <2>4 DEF RequestsInOrder, CompletionSignalled
  <2>6. Distinct(driver.open)'
    BY <1>1, <2>2 DEF Distinct
  <2> QED BY <2>1, <2>5, <2>6 DEF VirtioInv
<1>3. CASE ResetTransport
  <2>1. VirtioTypes' /\ ~vq'.ready /\ driver' = driver
    BY <1>0, <1>1, <1>3 DEF VirtioTypes, ResetTransport
  <2>2. Distinct(driver.open)'
    BY <1>1, <2>1 DEF Distinct
  <2> QED BY <2>1, <2>2 DEF VirtioInv, RequestsInOrder, CompletionSignalled
<1>4. CASE UNCHANGED virtioVars
  <2>1. vq' = vq /\ ring' = ring /\ driver' = driver
    BY <1>4 DEF virtioVars
  <2>2. Available' = Available /\ Unseen' = Unseen
    BY <2>1 DEF Available, Unseen
  <2>3. VirtioTypes' /\ Distinct(driver.open)'
    BY <1>1, <2>1 DEF VirtioTypes, Distinct
  <2>4. RequestsInOrder' /\ CompletionSignalled'
    BY <1>1, <2>1, <2>2 DEF RequestsInOrder, CompletionSignalled
  <2> QED BY <2>3, <2>4 DEF VirtioInv
<1> QED BY <1>2, <1>3, <1>4

LEMMA VirtioInvariant ==
  VirtioSpec => []VirtioInv
<1>1. VirtioInv /\ [VirtioNext]_virtioVars => VirtioInv'
  BY SetUpQueueOK, PostRequestOK, NotifyOK, ReadUsedOK, OtherVirtioStepsOK DEF VirtioNext
<1> QED BY <1>1, VirtioInitOK, PTL DEF VirtioSpec

\* For every size of the queue and every width of the indices that holds it a whole number of
\* times: whatever is refused, reset, acknowledged or left unread, and however often the
\* indices wrap, each request handed over stands in one ring, in order, and a completion the
\* driver has not read is announced to it (notify_queue, push_used, commit_chain).
THEOREM RequestsAreAnswered ==
  VirtioSpec => []RequestsAnswered
<1>1. VirtioInv => VirtioTypeOK
  <2> SUFFICES ASSUME VirtioInv PROVE VirtioTypeOK
    OBVIOUS
  <2>1. driver.open \in Seq(Heads) /\ driver.refused \in SUBSET Heads
    BY DEF VirtioInv, VirtioTypes
  <2>2. Len(driver.open) <= QueueSize
    BY <2>1, OpenBounded DEF VirtioInv
  <2>3. ToSet(driver.open) \subseteq Heads
    BY <2>1, QueueSet
  <2>4. /\ vq \in [ready : BOOLEAN, next : Index, irq : BOOLEAN, line : BOOLEAN]
        /\ ring \in [avail : Index, used : Index, heads : [Heads -> Heads], done : [Heads -> Heads]]
    BY DEF VirtioInv, VirtioTypes
  <2> QED BY <2>1, <2>2, <2>3, <2>4 DEF VirtioTypeOK, Index
<1>2. VirtioInv => RequestsAnswered
  BY <1>1 DEF VirtioInv, RequestsAnswered
<1> QED BY <1>2, VirtioInvariant, PTL

-----------------------------------------------------------------------------
(* The console *)

Ascending(w, top) ==
  \A i, j \in DOMAIN w : w[i] \in 1 .. top /\ (i < j => w[i] < w[j])

\* How many bytes wait in the ring: the counter, less the one that is being taken.
Waiting == IF shell = "pop" THEN rx.count - 1 ELSE rx.count

ConsoleTypes ==
  /\ input \in Seq(1 .. MaxBytes)
  /\ rx \in [slots : [0 .. RxSize - 1 -> 0 .. MaxBytes], head : 0 .. RxSize - 1,
             tail : 0 .. RxSize - 1, count : 0 .. RxSize, overflow : BOOLEAN]
  /\ editor \in [length : 0 .. MaxLine, overflow : BOOLEAN, byte : 0 .. MaxBytes, count : 0 .. RxSize]
  /\ shell \in {"poll", "pop", "direct", "getc", "accept"}
  /\ handler \in {"off", "claim", "drain", "complete"}
  /\ bytes \in [arrived : 0 .. MaxBytes, read : Seq(1 .. MaxBytes), dropped : SUBSET (1 .. MaxBytes),
                raced : SUBSET {"count", "getc"}, unreported : BOOLEAN, skipped : Nat]

\* While a byte is being taken the counter only grows.
PopSound == shell = "pop" => 1 <= editor.count /\ editor.count <= rx.count

\* What the UART holds came in order and was not dropped.
UartSound ==
  /\ Ascending(input, bytes.arrived)
  /\ bytes.dropped \subseteq 1 .. bytes.arrived
  /\ \A i \in DOMAIN input : input[i] \notin bytes.dropped

\* Without a race the tail of the ring is where its counter says.
RingSound == bytes.raced = {} => rx.tail = (rx.head + Waiting) % RxSize

ConsoleInv ==
  /\ ConsoleTypes /\ PopSound /\ UartSound /\ RingSound
  /\ InputInOrder /\ LossIsFlagged

\* Joining sequences of numbers is associative.
LEMMA JoinAssoc == \A x, y, z \in Seq(Nat) : (x \o y) \o z = x \o (y \o z)
<1> DEFINE S == Nat
<1> HIDE DEF S
<1>1. \A x, y, z \in Seq(S) : (x \o y) \o z = x \o (y \o z)
  BY ONLY ConcatAssociative
<1> QED BY <1>1 DEF S

LEMMA AscendingAppend ==
  ASSUME NEW w \in Seq(Nat), NEW top \in Nat, Ascending(w, top)
  PROVE  Ascending(Append(w, top + 1), top + 1)
<1> DEFINE v == Append(w, top + 1)
<1>1. /\ v \in Seq(Nat) /\ Len(v) = Len(w) + 1 /\ v[Len(w) + 1] = top + 1 /\ Len(w) \in Nat
      /\ \A i \in 1 .. Len(w) : v[i] = w[i]
  OBVIOUS
<1>2. DOMAIN v = 1 .. Len(w) + 1 /\ DOMAIN w = 1 .. Len(w)
  BY <1>1
<1>3. \A i \in 1 .. Len(w) : w[i] \in 1 .. top
  BY <1>2 DEF Ascending
<1> HIDE DEF v
<1>4. ASSUME NEW i \in 1 .. Len(w) + 1, NEW j \in 1 .. Len(w) + 1
      PROVE  v[i] \in 1 .. top + 1 /\ (i < j => v[i] < v[j])
  <2>1. CASE i \in 1 .. Len(w) /\ j \in 1 .. Len(w)
    <3>1. w[i] \in 1 .. top /\ (i < j => w[i] < w[j])
      BY <1>2, <2>1 DEF Ascending
    <3> QED BY <1>1, <2>1, <3>1
  <2>2. CASE i \in 1 .. Len(w) /\ j = Len(w) + 1
    <3>1. v[i] = w[i] /\ w[i] \in 1 .. top /\ v[j] = top + 1
      BY ONLY <1>1, <1>3, <2>2
    <3> QED BY ONLY <3>1, top \in Nat
  <2>3. CASE i = Len(w) + 1
    <3>1. v[i] = top + 1 /\ ~(i < j)
      BY ONLY <1>1, <2>3, j \in 1 .. Len(w) + 1
    <3> QED BY ONLY <3>1, top \in Nat
  <2> QED BY <1>1, <2>1, <2>2, <2>3
<1> QED BY <1>2, <1>4 DEF Ascending, v

LEMMA AscendingDrop ==
  ASSUME NEW p \in Seq(Nat), NEW q \in Seq(Nat), q # <<>>, NEW top \in Nat, Ascending(p \o q, top)
  PROVE  /\ Ascending(p \o Tail(q), top) /\ Len(p \o Tail(q)) = Len(p \o q) - 1
         /\ Head(q) \in 1 .. top
<1> DEFINE a == Len(p)
           b == Len(q)
           w == p \o q
           r == Tail(q)
           v == p \o r
<1>1. /\ a \in Nat /\ b \in Nat /\ b >= 1 /\ r \in Seq(Nat) /\ Len(r) = b - 1
      /\ \A i \in 1 .. b - 1 : r[i] = q[i + 1]
  OBVIOUS
<1>2. /\ w \in Seq(Nat) /\ Len(w) = a + b
      /\ \A i \in 1 .. a + b : w[i] = IF i <= a THEN p[i] ELSE q[i - a]
  BY ConcatProperties
<1>3. /\ v \in Seq(Nat) /\ Len(v) = a + Len(r)
      /\ \A i \in 1 .. a + Len(r) : v[i] = IF i <= a THEN p[i] ELSE r[i - a]
  BY <1>1, ConcatProperties
<1>4. Head(q) = q[1]
  OBVIOUS
<1>5. Ascending(w, top)
  OBVIOUS
<1> HIDE DEF a, b, w, r, v
<1>6. DOMAIN w = 1 .. a + b /\ DOMAIN v = 1 .. (a + b) - 1 /\ Len(v) = Len(w) - 1
  BY <1>1, <1>2, <1>3
<1> DEFINE at(i) == IF i <= a THEN i ELSE i + 1
<1>7. ASSUME NEW i \in 1 .. (a + b) - 1
      PROVE  at(i) \in 1 .. a + b /\ v[i] = w[at(i)]
  <2>1. CASE i <= a
    <3>1. i \in 1 .. a + b /\ i \in 1 .. a + Len(r) /\ at(i) = i
      BY <1>1, <2>1
    <3>2. v[i] = p[i] /\ w[i] = p[i]
      BY <1>2, <1>3, <2>1, <3>1
    <3> HIDE DEF at
    <3> QED BY <3>1, <3>2
  <2>2. CASE ~(i <= a)
    <3> DEFINE k == i - a
               m == i + 1
    <3>1. /\ k \in 1 .. b - 1 /\ m \in 1 .. a + b /\ m - a = k + 1 /\ ~(m <= a)
          /\ i \in 1 .. a + Len(r)
      BY <1>1, <2>2
    <3>2. v[i] = r[k]
      BY <1>3, <2>2, <3>1
    <3>3. r[k] = q[k + 1]
      BY <1>1, <3>1
    <3>4. w[m] = q[m - a]
      BY <1>2, <3>1
    <3>5. at(i) = m
      BY <2>2
    <3> HIDE DEF k, m, at
    <3> QED BY <3>1, <3>2, <3>3, <3>4, <3>5
  <2> QED BY <2>1, <2>2
<1>8. ASSUME NEW i \in 1 .. (a + b) - 1, NEW j \in 1 .. (a + b) - 1
      PROVE  v[i] \in 1 .. top /\ (i < j => v[i] < v[j])
  <2>1. i < j => at(i) < at(j)
    BY <1>1
  <2> QED BY <1>5, <1>6, <1>7, <2>1 DEF Ascending
<1>9. Head(q) \in 1 .. top
  <2>1. w[a + 1] = q[1] /\ a + 1 \in 1 .. a + b
    BY <1>1, <1>2
  <2> QED BY <1>4, <1>5, <1>6, <2>1 DEF Ascending
<1> QED BY <1>6, <1>8, <1>9 DEF Ascending, v, r, w

\* What is shown, part by part.
LEMMA ShownFacts ==
  ASSUME ConsoleTypes, PopSound
  PROVE  /\ Waiting \in 0 .. RxSize /\ Buffered = Ring(rx.slots, RxSize, rx.head, Waiting)
         /\ bytes.read \in Seq(Nat) /\ InHand \in Seq(Nat) /\ Buffered \in Seq(Nat) /\ input \in Seq(Nat)
         /\ Shown \in Seq(Nat) /\ Len(Buffered) = Waiting
         /\ Shown = ((bytes.read \o InHand) \o Buffered) \o input
<1>1. /\ RxSize \in Nat \ {0} /\ MaxBytes \in Nat
  BY ConsoleAssumption
<1>2. /\ rx.count \in 0 .. RxSize /\ rx.slots \in [0 .. RxSize - 1 -> 0 .. MaxBytes]
      /\ rx.head \in 0 .. RxSize - 1 /\ editor.byte \in 0 .. MaxBytes
      /\ bytes.read \in Seq(1 .. MaxBytes) /\ input \in Seq(1 .. MaxBytes) /\ editor.count \in 0 .. RxSize
  BY DEF ConsoleTypes
<1>3. Waiting \in 0 .. RxSize
  BY <1>1, <1>2 DEF Waiting, PopSound
<1>4. Buffered = Ring(rx.slots, RxSize, rx.head, Waiting)
  BY DEF Buffered, Ring, Waiting
<1>5. Waiting \in Nat
  BY <1>1, <1>3
<1>6. /\ Ring(rx.slots, RxSize, rx.head, Waiting) \in Seq(0 .. MaxBytes)
      /\ Len(Ring(rx.slots, RxSize, rx.head, Waiting)) = Waiting
  <2>1. /\ RxSize \in Nat \ {0} /\ rx.slots \in [0 .. RxSize - 1 -> 0 .. MaxBytes]
        /\ rx.head \in 0 .. RxSize - 1 /\ Waiting \in Nat
    BY <1>1, <1>2, <1>5
  <2> DEFINE T == 0 .. MaxBytes
             size == RxSize
             slots == rx.slots
             head == rx.head
             n == Waiting
  <2>2. size \in Nat \ {0} /\ slots \in [0 .. size - 1 -> T] /\ head \in 0 .. size - 1 /\ n \in Nat
    BY <2>1
  <2> HIDE DEF T, size, slots, head, n
  <2>3. Ring(slots, size, head, n) \in Seq(T) /\ Len(Ring(slots, size, head, n)) = n
    BY ONLY <2>2, RingSeq
  <2> QED BY <2>3 DEF T, size, slots, head, n
<1>7. bytes.read \in Seq(Nat) /\ input \in Seq(Nat)
  BY <1>1, <1>2
<1>8. Buffered \in Seq(Nat)
  BY <1>1, <1>4, <1>6
<1>9. bytes.read \in Seq(Nat) /\ Buffered \in Seq(Nat) /\ input \in Seq(Nat)
  BY <1>7, <1>8
<1>10. InHand \in Seq(Nat)
  BY <1>1, <1>2 DEF InHand
<1>11. Shown \in Seq(Nat) /\ Shown = ((bytes.read \o InHand) \o Buffered) \o input
  BY <1>9, <1>10 DEF Shown
<1> QED BY <1>3, <1>4, <1>6, <1>9, <1>10, <1>11

LEMMA ConsoleInitOK ==
  ConsoleInit => ConsoleInv
<1> SUFFICES ASSUME ConsoleInit PROVE ConsoleInv
  OBVIOUS
<1>1. RxSize \in Nat \ {0} /\ MaxBytes \in Nat /\ MaxLine \in Nat
  BY ConsoleAssumption
<1>2. input = <<>> /\ shell = "poll" /\ handler = "off"
  BY DEF ConsoleInit
<1>3. /\ rx = [slots |-> [i \in 0 .. (RxSize - 1) |-> 0], head |-> 0, tail |-> 0,
               count |-> 0, overflow |-> FALSE]
      /\ editor = [length |-> 0, overflow |-> FALSE, byte |-> 0, count |-> 0]
      /\ bytes = [arrived |-> 0, read |-> <<>>, dropped |-> {}, raced |-> {}, unreported |-> FALSE,
                  skipped |-> 0]
  BY DEF ConsoleInit, Nothing
<1>4. [i \in 0 .. (RxSize - 1) |-> 0] \in [0 .. RxSize - 1 -> 0 .. MaxBytes]
  BY <1>1
<1>5. rx \in [slots : [0 .. RxSize - 1 -> 0 .. MaxBytes], head : 0 .. RxSize - 1,
             tail : 0 .. RxSize - 1, count : 0 .. RxSize, overflow : BOOLEAN]
  BY <1>1, <1>3, <1>4
<1>6. editor \in [length : 0 .. MaxLine, overflow : BOOLEAN, byte : 0 .. MaxBytes, count : 0 .. RxSize]
  BY <1>1, <1>3
<1>7. bytes \in [arrived : 0 .. MaxBytes, read : Seq(1 .. MaxBytes), dropped : SUBSET (1 .. MaxBytes),
                raced : SUBSET {"count", "getc"}, unreported : BOOLEAN, skipped : Nat]
  BY <1>1, <1>3
<1>8. ConsoleTypes /\ PopSound
  BY <1>2, <1>5, <1>6, <1>7 DEF ConsoleTypes, PopSound
<1>9. Waiting = 0 /\ Len(Buffered) = 0 /\ Buffered = <<>> /\ InHand = <<>>
  <2>1. Waiting = 0
    BY <1>2, <1>3 DEF Waiting
  <2>2. InHand = <<>>
    BY <1>2 DEF InHand
  <2> QED BY <1>8, <2>1, <2>2, ShownFacts
<1>10. Shown = <<>>
  BY <1>2, <1>3, <1>9 DEF Shown
<1>11. UartSound
  BY <1>2, <1>3 DEF UartSound, Ascending
<1>12. RingSound
  <2>1. rx.tail = 0 /\ rx.head + Waiting = 0
    BY <1>3, <1>9
  <2>2. (0 % RxSize) = 0
    <3>1. 0 = 0 * RxSize + 0 /\ 0 \in 0 .. RxSize - 1
      BY <1>1
    <3> QED BY <1>1, <3>1, ModUnique
  <2> QED BY <2>1, <2>2 DEF RingSound
<1>13. InputInOrder
  BY <1>10 DEF InputInOrder, Accounted
<1>14. LossIsFlagged
  <2>1. Cardinality({}) = 0
    BY FS_EmptySet
  <2> QED BY <1>3, <1>10, <2>1 DEF LossIsFlagged
<1> QED BY <1>8, <1>11, <1>12, <1>13, <1>14 DEF ConsoleInv

\* Steps that show the same bytes and drop none.
LEMMA SameBytesOK ==
  ASSUME ConsoleInv, ConsoleTypes', PopSound', UartSound', RingSound',
         bytes'.raced = {} => bytes.raced = {} /\ Shown' = Shown,
         bytes'.arrived = bytes.arrived, bytes'.dropped = bytes.dropped,
         bytes'.skipped = bytes.skipped,
         ~bytes'.unreported =>
           ~bytes.unreported /\ (bytes.dropped # {} /\ rx.overflow => rx'.overflow)
  PROVE  ConsoleInv'
<1>1. InputInOrder /\ LossIsFlagged
  BY DEF ConsoleInv
<1>2. InputInOrder'
  BY <1>1 DEF InputInOrder, Accounted
<1>3. LossIsFlagged'
  BY <1>1 DEF LossIsFlagged
<1> QED BY <1>2, <1>3 DEF ConsoleInv

\* Steps that only move the handler, or the shell between polls.
LEMMA QuietStepOK ==
  ASSUME ConsoleInv, UNCHANGED <<input, rx, editor, bytes>>,
         shell' = shell \/ (shell \in {"poll", "direct", "getc"} /\ shell' \in {"poll", "direct", "getc"}),
         handler' \in {"off", "claim", "drain", "complete"}
  PROVE  ConsoleInv'
<1>1. ConsoleTypes /\ PopSound /\ UartSound /\ RingSound
  BY DEF ConsoleInv
<1>2. ConsoleTypes' /\ PopSound' /\ UartSound'
  BY <1>1 DEF ConsoleTypes, PopSound, UartSound, Ascending
<1>3. Waiting' = Waiting /\ InHand' = InHand
  BY DEF Waiting, InHand
<1>4. RingSound'
  BY <1>1, <1>3 DEF RingSound
<1>5. Buffered' = Buffered
  <2>1. (shell = "pop") <=> (shell' = "pop")
    OBVIOUS
  <2>2. CASE shell = "pop"
    BY <2>1, <2>2 DEF Buffered
  <2>3. CASE shell # "pop"
    BY <2>1, <2>3 DEF Buffered
  <2> QED BY <2>2, <2>3
<1>6. Shown' = Shown
  BY <1>3, <1>5 DEF Shown
<1> QED BY <1>2, <1>4, <1>6, SameBytesOK

LEMMA HandlerQuietOK ==
  ASSUME ConsoleInv, TakeInterrupt \/ HandlerClaims \/ HandlerSeesEmpty \/ HandlerCompletes
  PROVE  ConsoleInv'
<1>1. UNCHANGED <<input, rx, editor, bytes>> /\ shell' = shell
  BY DEF TakeInterrupt, HandlerClaims, HandlerSeesEmpty, HandlerCompletes
<1>2. handler' \in {"off", "claim", "drain", "complete"}
  BY DEF TakeInterrupt, HandlerClaims, HandlerSeesEmpty, HandlerCompletes
<1> QED BY <1>1, <1>2, QuietStepOK

LEMMA ShellQuietOK ==
  ASSUME ConsoleInv, PollEmpty \/ AskUart
  PROVE  ConsoleInv'
<1>1. /\ UNCHANGED <<input, rx, editor, bytes>> /\ handler' = handler
      /\ shell \in {"poll", "direct", "getc"} /\ shell' \in {"poll", "direct", "getc"}
  BY DEF PollEmpty, AskUart, ShellRuns
<1>2. handler \in {"off", "claim", "drain", "complete"}
  BY DEF ConsoleInv, ConsoleTypes
<1> QED BY <1>1, <1>2, QuietStepOK

LEMMA InjectInputOK ==
  ASSUME ConsoleInv, InjectInput
  PROVE  ConsoleInv'
<1>0. RxSize \in Nat \ {0} /\ MaxBytes \in Nat
  BY ConsoleAssumption
<1>1. ConsoleTypes /\ PopSound /\ UartSound /\ RingSound /\ InputInOrder /\ LossIsFlagged
  BY DEF ConsoleInv
<1> DEFINE b == bytes.arrived + 1
<1>2. /\ bytes.arrived \in Nat /\ b \in 1 .. MaxBytes
      /\ bytes' = [bytes EXCEPT !.arrived = b] /\ input' = Append(input, b)
      /\ rx' = rx /\ editor' = editor /\ shell' = shell /\ handler' = handler
  BY <1>0, <1>1 DEF InjectInput, ConsoleTypes
<1>3. /\ bytes'.arrived = b /\ bytes'.read = bytes.read /\ bytes'.dropped = bytes.dropped
      /\ bytes'.raced = bytes.raced /\ bytes'.unreported = bytes.unreported
      /\ bytes'.skipped = bytes.skipped
  BY <1>1, <1>2 DEF ConsoleTypes
<1>4. /\ input \in Seq(1 .. MaxBytes) /\ input \in Seq(Nat)
  BY <1>0, <1>1 DEF ConsoleTypes
<1>5. ConsoleTypes' /\ PopSound'
  <2>1. input' \in Seq(1 .. MaxBytes)
    BY <1>2, <1>4
  <2>2. bytes' \in [arrived : 0 .. MaxBytes, read : Seq(1 .. MaxBytes), dropped : SUBSET (1 .. MaxBytes),
                    raced : SUBSET {"count", "getc"}, unreported : BOOLEAN, skipped : Nat]
    <3> HIDE DEF b
    <3>1. b \in 0 .. MaxBytes
      BY <1>0, <1>2
    <3> QED BY <1>1, <1>2, <3>1 DEF ConsoleTypes
  <2> QED BY <1>1, <1>2, <2>1, <2>2 DEF ConsoleTypes, PopSound
<1>6. Waiting' = Waiting /\ InHand' = InHand /\ Buffered' = Buffered
  BY <1>2 DEF Waiting, InHand, Buffered
<1>7. RingSound'
  BY <1>1, <1>2, <1>3, <1>6 DEF RingSound
<1>8. UartSound'
  <2>1. Ascending(input', b)
    BY <1>1, <1>2, <1>4, AscendingAppend DEF UartSound
  <2>2. bytes.dropped \subseteq 1 .. b /\ b \notin bytes.dropped
    BY <1>1, <1>2 DEF UartSound
  <2>3. /\ DOMAIN input' = 1 .. Len(input) + 1 /\ DOMAIN input = 1 .. Len(input)
        /\ input'[Len(input) + 1] = b
        /\ \A i \in 1 .. Len(input) : input'[i] = input[i]
    BY <1>2, <1>4
  <2>4. \A i \in DOMAIN input' : input'[i] \notin bytes.dropped
    <3> TAKE i \in DOMAIN input'
    <3>1. CASE i \in 1 .. Len(input)
      BY <1>1, <2>3, <3>1 DEF UartSound
    <3>2. CASE i = Len(input) + 1
      BY <2>2, <2>3, <3>2
    <3>3. Len(input) \in Nat
      BY <1>4
    <3> QED BY <2>3, <3>1, <3>2, <3>3
  <2> QED BY <1>3, <2>1, <2>2, <2>4 DEF UartSound
<1>9. /\ bytes.read \in Seq(Nat) /\ InHand \in Seq(Nat) /\ Buffered \in Seq(Nat)
      /\ Shown \in Seq(Nat) /\ Shown = ((bytes.read \o InHand) \o Buffered) \o input
  BY <1>1, ShownFacts
<1> DEFINE p == (bytes.read \o InHand) \o Buffered
<1>10. Shown' = Append(Shown, b)
  <2>1. p \in Seq(Nat)
    BY <1>9
  <2>2. Shown' = p \o Append(input, b)
    BY <1>2, <1>3, <1>6 DEF Shown
  <2>3. Shown = p \o input
    BY <1>9
  <2> HIDE DEF p
  <2>4. p \o Append(input, b) = Append(p \o input, b)
    BY <1>2, <1>4, <2>1
  <2> QED BY <2>2, <2>3, <2>4
<1> HIDE DEF p, b
<1>11. InputInOrder'
  <2> SUFFICES ASSUME bytes.raced = {} PROVE Ascending(Shown', b)
    BY <1>3 DEF InputInOrder, Accounted, Ascending
  <2>1. Ascending(Shown, bytes.arrived)
    BY <1>1 DEF InputInOrder, Accounted, Ascending
  <2>2. Ascending(Append(Shown, bytes.arrived + 1), bytes.arrived + 1)
    BY <1>2, <1>9, <2>1, AscendingAppend
  <2> QED BY <1>10, <2>2 DEF b
<1>12. LossIsFlagged'
  <2> SUFFICES ASSUME bytes.raced = {}, ~bytes.unreported
               PROVE  /\ bytes.dropped # {} => rx.overflow
                      /\ Len(Shown') + Cardinality(bytes.dropped) + bytes.skipped = b
    BY <1>2, <1>3 DEF LossIsFlagged
  <2>1. /\ bytes.dropped # {} => rx.overflow
        /\ Len(Shown) + Cardinality(bytes.dropped) + bytes.skipped = bytes.arrived
    BY <1>1 DEF LossIsFlagged
  <2>2. Len(Shown') = Len(Shown) + 1 /\ Len(Shown) \in Nat
    BY <1>9, <1>10
  <2>3. Cardinality(bytes.dropped) \in Nat /\ bytes.skipped \in Nat
    <3>1. IsFiniteSet(1 .. MaxBytes)
      BY <1>0, FS_Interval
    <3>2. bytes.dropped \subseteq 1 .. MaxBytes /\ bytes.skipped \in Nat
      BY <1>1 DEF ConsoleTypes
    <3> QED BY <3>1, <3>2, FS_Subset, FS_CardinalityType
  <2> QED BY <1>2, <2>1, <2>2, <2>3 DEF b
<1> QED BY <1>5, <1>7, <1>8, <1>11, <1>12 DEF ConsoleInv

\* What is dropped can be counted.
LEMMA DroppedFinite ==
  ASSUME ConsoleTypes
  PROVE  IsFiniteSet(bytes.dropped) /\ Cardinality(bytes.dropped) \in Nat
<1>1. IsFiniteSet(1 .. MaxBytes)
  BY ConsoleAssumption, FS_Interval
<1>2. bytes.dropped \subseteq 1 .. MaxBytes
  BY DEF ConsoleTypes
<1> QED BY <1>1, <1>2, FS_Subset, FS_CardinalityType

\* The byte in front leaves the UART.
LEMMA FrontFacts ==
  ASSUME ConsoleTypes, UartSound, input # <<>>
  PROVE  /\ Head(input) \in 1 .. MaxBytes /\ Head(input) \in 1 .. bytes.arrived
         /\ Head(input) \notin bytes.dropped
         /\ Tail(input) \in Seq(1 .. MaxBytes) /\ Tail(input) \in Seq(Nat)
         /\ Ascending(Tail(input), bytes.arrived)
         /\ \A i \in DOMAIN Tail(input) :
              Tail(input)[i] \notin bytes.dropped /\ Tail(input)[i] # Head(input)
<1>0. MaxBytes \in Nat
  BY ConsoleAssumption
<1>1. /\ input \in Seq(1 .. MaxBytes) /\ input \in Seq(Nat)
      /\ bytes.arrived \in Nat /\ bytes.arrived <= MaxBytes
  BY <1>0 DEF ConsoleTypes
<1> DEFINE n == Len(input)
           t == Tail(input)
<1>2. /\ n \in Nat /\ n >= 1 /\ DOMAIN input = 1 .. n /\ t \in Seq(1 .. MaxBytes) /\ t \in Seq(Nat)
      /\ Len(t) = n - 1 /\ DOMAIN t = 1 .. n - 1 /\ Head(input) = input[1]
      /\ \A i \in 1 .. n - 1 : t[i] = input[i + 1]
  BY <1>0, <1>1
<1>3. Ascending(input, bytes.arrived) /\ \A i \in DOMAIN input : input[i] \notin bytes.dropped
  BY DEF UartSound
<1> HIDE DEF n, t
<1>4. Head(input) \in 1 .. bytes.arrived /\ Head(input) \notin bytes.dropped /\ Head(input) \in 1 .. MaxBytes
  <2>1. 1 \in DOMAIN input
    BY <1>2
  <2>2. input[1] \in 1 .. bytes.arrived
    BY <1>3, <2>1 DEF Ascending
  <2>3. input[1] \notin bytes.dropped
    BY <1>3, <2>1
  <2> QED BY <1>0, <1>1, <1>2, <2>2, <2>3
<1>5. ASSUME NEW i \in 1 .. n - 1, NEW j \in 1 .. n - 1
      PROVE  /\ t[i] \in 1 .. bytes.arrived /\ (i < j => t[i] < t[j])
             /\ t[i] \notin bytes.dropped /\ t[i] # input[1]
  <2>1. i + 1 \in DOMAIN input /\ j + 1 \in DOMAIN input /\ 1 \in DOMAIN input /\ 1 < i + 1
        /\ (i < j => i + 1 < j + 1)
    BY <1>2
  <2>2. t[i] = input[i + 1] /\ t[j] = input[j + 1]
    BY <1>2
  <2>3. /\ input[i + 1] \in 1 .. bytes.arrived /\ (i < j => input[i + 1] < input[j + 1])
        /\ input[1] < input[i + 1] /\ input[1] \in 1 .. bytes.arrived
    BY <1>3, <2>1 DEF Ascending
  <2> QED BY <1>1, <1>3, <2>1, <2>2, <2>3
<1> QED BY <1>2, <1>4, <1>5 DEF Ascending, t

LEMMA HandlerDrainsOK ==
  ASSUME ConsoleInv, HandlerDrains
  PROVE  ConsoleInv'
<1>0. RxSize \in Nat \ {0} /\ MaxBytes \in Nat
  BY ConsoleAssumption
<1>1. ConsoleTypes /\ PopSound /\ UartSound /\ RingSound /\ InputInOrder /\ LossIsFlagged
  BY DEF ConsoleInv
<1> DEFINE b == Head(input)
           rest == Tail(input)
<1>2. /\ input # <<>> /\ input' = rest /\ PushInterruptByte(b)
      /\ editor' = editor /\ shell' = shell /\ handler' = handler
  BY DEF HandlerDrains, ReadRbr
<1>3. /\ b \in 1 .. MaxBytes /\ b \in 1 .. bytes.arrived /\ b \notin bytes.dropped
      /\ rest \in Seq(1 .. MaxBytes) /\ rest \in Seq(Nat) /\ Ascending(rest, bytes.arrived)
      /\ \A i \in DOMAIN rest : rest[i] \notin bytes.dropped /\ rest[i] # b
  BY <1>1, <1>2, FrontFacts
<1>4. /\ Waiting \in 0 .. RxSize /\ Buffered = Ring(rx.slots, RxSize, rx.head, Waiting)
      /\ bytes.read \in Seq(Nat) /\ InHand \in Seq(Nat) /\ Buffered \in Seq(Nat) /\ input \in Seq(Nat)
      /\ Shown \in Seq(Nat) /\ Len(Buffered) = Waiting
      /\ Shown = ((bytes.read \o InHand) \o Buffered) \o input
  BY <1>1, ShownFacts
<1>5. /\ rx.slots \in [0 .. RxSize - 1 -> 0 .. MaxBytes] /\ rx.head \in 0 .. RxSize - 1
      /\ rx.tail \in 0 .. RxSize - 1 /\ rx.count \in 0 .. RxSize /\ bytes.arrived \in Nat
  BY <1>1 DEF ConsoleTypes
<1> HIDE DEF b, rest
<1>7. CASE rx.count >= RxSize
  <2> DEFINE dropped2 == bytes.dropped \cup {b}
  <2>1. rx' = [rx EXCEPT !.overflow = TRUE] /\ bytes' = [bytes EXCEPT !.dropped = dropped2]
    BY <1>1, <1>2, <1>7 DEF PushInterruptByte, ConsoleTypes
  <2>2. /\ dropped2 \subseteq 1 .. MaxBytes /\ dropped2 \subseteq 1 .. bytes.arrived
    BY <1>1, <1>3 DEF ConsoleTypes, UartSound
  <2>3. Cardinality(dropped2) = Cardinality(bytes.dropped) + 1 /\ Cardinality(bytes.dropped) \in Nat
    BY <1>1, <1>3, DroppedFinite, FS_AddElement
  <2> HIDE DEF dropped2
  <2>4. ConsoleTypes'
    <3>1. rx' \in [slots : [0 .. RxSize - 1 -> 0 .. MaxBytes], head : 0 .. RxSize - 1,
             tail : 0 .. RxSize - 1, count : 0 .. RxSize, overflow : BOOLEAN]
      BY <1>1, <2>1 DEF ConsoleTypes
    <3>2. bytes' \in [arrived : 0 .. MaxBytes, read : Seq(1 .. MaxBytes), dropped : SUBSET (1 .. MaxBytes),
                raced : SUBSET {"count", "getc"}, unreported : BOOLEAN, skipped : Nat]
      BY <1>1, <2>1, <2>2 DEF ConsoleTypes
    <3> QED BY <1>1, <1>2, <1>3, <3>1, <3>2 DEF ConsoleTypes
  <2>5. /\ rx'.slots = rx.slots /\ rx'.head = rx.head /\ rx'.tail = rx.tail /\ rx'.count = rx.count
        /\ rx'.overflow = TRUE
        /\ bytes'.dropped = dropped2 /\ bytes'.arrived = bytes.arrived /\ bytes'.read = bytes.read
        /\ bytes'.raced = bytes.raced /\ bytes'.unreported = bytes.unreported
        /\ bytes'.skipped = bytes.skipped
    BY <1>1, <2>1 DEF ConsoleTypes
  <2>6. PopSound' /\ Waiting' = Waiting /\ Buffered' = Buffered
    BY <1>1, <1>2, <2>5 DEF PopSound, Waiting, Buffered
  <2>7. RingSound'
    BY <1>1, <2>5, <2>6 DEF RingSound
  <2>8. UartSound'
    BY <1>2, <1>3, <2>2, <2>5 DEF UartSound, dropped2
  <2> DEFINE p == (bytes.read \o InHand) \o Buffered
  <2>9. p \in Seq(Nat) /\ Shown = p \o input /\ Shown' = p \o Tail(input)
    <3>1. InHand' = InHand
      BY <1>2 DEF InHand
    <3>2. p \in Seq(Nat) /\ Shown = p \o input
      BY <1>4
    <3> QED BY <1>2, <2>5, <2>6, <3>1, <3>2 DEF Shown, rest
  <2> HIDE DEF p
  <2>10. InputInOrder'
    <3> SUFFICES ASSUME bytes.raced = {} PROVE Ascending(Shown', bytes.arrived)
      BY <2>5 DEF InputInOrder, Accounted, Ascending
    <3>1. Ascending(p \o input, bytes.arrived)
      BY <1>1, <2>9 DEF InputInOrder, Accounted, Ascending
    <3>2. Ascending(p \o Tail(input), bytes.arrived)
      BY <1>2, <1>4, <1>5, <2>9, <3>1, AscendingDrop
    <3> QED BY <2>9, <3>2
  <2>11. LossIsFlagged'
    <3> SUFFICES ASSUME bytes.raced = {}, ~bytes.unreported
                 PROVE  Len(Shown') + Cardinality(dropped2) + bytes.skipped = bytes.arrived
      BY <2>5 DEF LossIsFlagged
    <3>1. Len(Shown) + Cardinality(bytes.dropped) + bytes.skipped = bytes.arrived
      BY <1>1 DEF LossIsFlagged
    <3>2. Len(Shown') = Len(Shown) - 1 /\ Len(Shown) \in Nat
      <4>1. /\ Len(input) \in Nat /\ Len(p) \in Nat /\ Len(Tail(input)) = Len(input) - 1
            /\ Tail(input) \in Seq(Nat)
        BY <1>2, <1>4, <2>9
      <4>2. Len(p \o input) = Len(p) + Len(input) /\ Len(p \o Tail(input)) = Len(p) + Len(Tail(input))
        BY <1>4, <2>9, <4>1
      <4> QED BY <2>9, <4>1, <4>2
    <3>3. bytes.skipped \in Nat
      BY <1>1 DEF ConsoleTypes
    <3> QED BY <1>5, <2>3, <3>1, <3>2, <3>3
  <2> QED BY <2>4, <2>6, <2>7, <2>8, <2>10, <2>11 DEF ConsoleInv
<1>8. CASE ~(rx.count >= RxSize)
  <2> DEFINE slots2 == [rx.slots EXCEPT ![rx.tail] = b]
             tail2 == (rx.tail + 1) % RxSize
             count2 == rx.count + 1
  <2>1. rx' = [rx EXCEPT !.slots = slots2, !.tail = tail2, !.count = count2] /\ bytes' = bytes
    BY <1>1, <1>2, <1>8 DEF PushInterruptByte, ConsoleTypes
  <2>2. tail2 \in 0 .. RxSize - 1
    <3> DEFINE x == rx.tail + 1
    <3>1. x \in Nat
      BY <1>0, <1>5
    <3> HIDE DEF x
    <3>2. (x % RxSize) \in 0 .. RxSize - 1
      BY <1>0, <3>1, ModDef
    <3> QED BY <3>2 DEF x
  <2>3. slots2 \in [0 .. RxSize - 1 -> 0 .. MaxBytes] /\ count2 \in 0 .. RxSize /\ count2 = rx.count + 1
    <3>1. slots2 \in [0 .. RxSize - 1 -> 0 .. MaxBytes]
      BY <1>3, <1>5
    <3>2. count2 \in 0 .. RxSize /\ count2 = rx.count + 1
      BY <1>0, <1>5, <1>8
    <3> QED BY <3>1, <3>2
  <2> HIDE DEF slots2, tail2, count2
  <2>4. ConsoleTypes'
    <3>1. rx' \in [slots : [0 .. RxSize - 1 -> 0 .. MaxBytes], head : 0 .. RxSize - 1,
             tail : 0 .. RxSize - 1, count : 0 .. RxSize, overflow : BOOLEAN]
      BY <1>1, <2>1, <2>2, <2>3 DEF ConsoleTypes
    <3> QED BY <1>1, <1>2, <1>3, <2>1, <3>1 DEF ConsoleTypes
  <2>5. /\ rx'.slots = slots2 /\ rx'.head = rx.head /\ rx'.tail = tail2 /\ rx'.count = count2
        /\ rx'.overflow = rx.overflow
    BY <1>1, <2>1 DEF ConsoleTypes
  <2>6. PopSound'
    BY <1>1, <1>2, <1>5, <2>3, <2>5 DEF PopSound, ConsoleTypes
  <2>7. Waiting' = Waiting + 1 /\ Waiting \in Nat /\ Waiting < RxSize
    <3>1. Waiting = IF shell = "pop" THEN rx.count - 1 ELSE rx.count
      BY DEF Waiting
    <3>2. Waiting' = IF shell = "pop" THEN rx.count ELSE rx.count + 1
      BY <1>0, <1>2, <1>5, <2>3, <2>5 DEF Waiting
    <3>3. Waiting \in Nat
      BY <1>0, <1>4
    <3> HIDE DEF Waiting
    <3>4. CASE shell = "pop"
      BY <1>0, <1>5, <1>8, <3>1, <3>2, <3>3, <3>4
    <3>5. CASE shell # "pop"
      BY <1>0, <1>5, <1>8, <3>1, <3>2, <3>3, <3>5
    <3> QED BY <3>4, <3>5
  <2>8. UartSound'
    BY <1>1, <1>2, <1>3, <2>1 DEF UartSound
  <2>9. bytes.raced = {} => tail2 = (rx.head + (Waiting + 1)) % RxSize
    <3> SUFFICES ASSUME bytes.raced = {} PROVE tail2 = (rx.head + (Waiting + 1)) % RxSize
      OBVIOUS
    <3> DEFINE x == rx.head + Waiting
    <3>1. rx.tail = (x % RxSize)
      BY <1>1 DEF RingSound
    <3>2. x \in Nat /\ x + 1 = rx.head + (Waiting + 1)
      <4>1. rx.head \in Nat /\ Waiting \in Nat
        BY <1>0, <1>5, <2>7
      <4> QED BY ONLY <4>1
    <3>3. \A xx, ii \in Nat : (((xx % RxSize) + ii) % RxSize) = ((xx + ii) % RxSize)
      BY <1>0, ModSelf
    <3> HIDE DEF x
    <3>4. (((x % RxSize) + 1) % RxSize) = ((x + 1) % RxSize)
      BY <3>2, <3>3
    <3> QED BY <3>1, <3>2, <3>4 DEF tail2
  <2>10. RingSound'
    BY <2>1, <2>5, <2>7, <2>9 DEF RingSound
  <2>11. bytes.raced = {} => Shown' = Shown
    <3> SUFFICES ASSUME bytes.raced = {} PROVE Shown' = Shown
      OBVIOUS
    <3>1. slots2 = RingWith(rx.slots, RxSize, rx.head, Waiting, b)
      BY <1>1 DEF slots2, RingSound, RingEnd, RingWith
    <3>2. Buffered' = Ring(slots2, RxSize, rx.head, Waiting + 1)
      <4>1. Buffered' = Ring(rx'.slots, RxSize, rx'.head, Waiting')
        BY DEF Buffered, Ring, Waiting
      <4> QED BY <2>5, <2>7, <4>1
    <3> DEFINE T == 0 .. MaxBytes
               size == RxSize
               slots == rx.slots
               head == rx.head
               n == Waiting
    <3>3. /\ size \in Nat \ {0} /\ slots \in [0 .. size - 1 -> T] /\ head \in 0 .. size - 1 /\ n \in Nat
          /\ n < size /\ b \in T
      BY <1>0, <1>3, <1>5, <2>7
    <3>4. Buffered = Ring(slots, size, head, n)
      BY <1>4
    <3>5. Buffered' = Ring(RingWith(slots, size, head, n, b), size, head, n + 1)
      BY <3>1, <3>2
    <3> HIDE DEF T, size, slots, head, n
    <3>6. Ring(RingWith(slots, size, head, n, b), size, head, n + 1)
             = Append(Ring(slots, size, head, n), b)
      BY ONLY <3>3, RingPush
    <3>7. Buffered' = Append(Buffered, b)
      BY <3>4, <3>5, <3>6
    <3> DEFINE p == bytes.read \o InHand
    <3>8. p \in Seq(Nat) /\ b \in Nat /\ input = <<b>> \o rest
      BY <1>0, <1>2, <1>3, <1>4 DEF b, rest
    <3>9. Shown' = (p \o Append(Buffered, b)) \o rest /\ Shown = (p \o Buffered) \o (<<b>> \o rest)
      <4>1. InHand' = InHand
        BY <1>2 DEF InHand
      <4> QED BY <1>2, <1>4, <2>1, <3>7, <3>8, <4>1 DEF Shown
    <3> HIDE DEF p
    <3>10. (p \o Append(Buffered, b)) \o rest = (p \o Buffered) \o (<<b>> \o rest)
      <4>1. p \o Append(Buffered, b) = (p \o Buffered) \o <<b>>
        <5>1. p \o Buffered \in Seq(Nat) /\ p \in Seq(Nat) /\ Buffered \in Seq(Nat)
          BY ONLY <1>4, <3>8
        <5> QED BY ONLY <3>8, <5>1
      <4>2. ((p \o Buffered) \o <<b>>) \o rest = (p \o Buffered) \o (<<b>> \o rest)
        <5>1. p \o Buffered \in Seq(Nat) /\ <<b>> \in Seq(Nat) /\ rest \in Seq(Nat)
          BY <1>3, <1>4, <3>8
        <5> QED BY ONLY <5>1, JoinAssoc
      <4> QED BY <4>1, <4>2
    <3> QED BY <3>9, <3>10
  <2> QED BY <2>1, <2>4, <2>5, <2>6, <2>8, <2>10, <2>11, SameBytesOK
<1> QED BY <1>7, <1>8

LEMMA InsertAssoc ==
  ASSUME NEW p \in Seq(Nat), NEW r \in Seq(Nat), NEW b \in Nat
  PROVE  /\ (p \o <<b>>) \o r = p \o (<<b>> \o r)
         /\ Append(p, b) = p \o <<b>> /\ Append(p, b) \in Seq(Nat)
<1> DEFINE one == <<b>>
<1>1. one \in Seq(Nat)
  OBVIOUS
<1>2. Append(p, b) = p \o one /\ Append(p, b) \in Seq(Nat)
  OBVIOUS
<1> HIDE DEF one
<1>3. (p \o one) \o r = p \o (one \o r)
  <2>1. p \in Seq(Nat) /\ one \in Seq(Nat) /\ r \in Seq(Nat)
    BY <1>1
  <2> QED BY ONLY <2>1, JoinAssoc
<1> QED BY <1>2, <1>3 DEF one

\* The line is started again.
LEMMA LineResetFacts ==
  ASSUME ConsoleTypes, LineReset
  PROVE  /\ editor' \in [length : 0 .. MaxLine, overflow : BOOLEAN, byte : 0 .. MaxBytes, count : 0 .. RxSize]
         /\ editor'.byte = editor.byte /\ editor'.count = editor.count
         /\ rx' \in [slots : [0 .. RxSize - 1 -> 0 .. MaxBytes], head : 0 .. RxSize - 1,
                     tail : 0 .. RxSize - 1, count : 0 .. RxSize, overflow : BOOLEAN]
         /\ rx'.slots = rx.slots /\ rx'.head = rx.head /\ rx'.tail = rx.tail /\ rx'.count = rx.count
         /\ rx'.overflow = FALSE
<1>1. MaxLine \in Nat
  BY ConsoleAssumption
<1>2. /\ editor' = [editor EXCEPT !.length = 0, !.overflow = FALSE]
      /\ rx' = [rx EXCEPT !.overflow = FALSE]
  BY DEF LineReset
<1>3. /\ editor' \in [length : 0 .. MaxLine, overflow : BOOLEAN, byte : 0 .. MaxBytes, count : 0 .. RxSize]
      /\ editor'.byte = editor.byte /\ editor'.count = editor.count
  <2> DEFINE L == 0 .. MaxLine
  <2>1. 0 \in L
    BY <1>1
  <2>2. editor \in [length : L, overflow : BOOLEAN, byte : 0 .. MaxBytes, count : 0 .. RxSize]
    BY DEF ConsoleTypes
  <2> HIDE DEF L
  <2>3. editor' \in [length : L, overflow : BOOLEAN, byte : 0 .. MaxBytes, count : 0 .. RxSize]
    BY <1>2, <2>1, <2>2
  <2>4. editor'.byte = editor.byte /\ editor'.count = editor.count
    BY <1>2, <2>2
  <2> QED BY <2>3, <2>4 DEF L
<1>4. rx' \in [slots : [0 .. RxSize - 1 -> 0 .. MaxBytes], head : 0 .. RxSize - 1,
              tail : 0 .. RxSize - 1, count : 0 .. RxSize, overflow : BOOLEAN]
  BY <1>2 DEF ConsoleTypes
<1>5. /\ rx'.slots = rx.slots /\ rx'.head = rx.head /\ rx'.tail = rx.tail /\ rx'.count = rx.count
      /\ rx'.overflow = FALSE
  BY <1>2 DEF ConsoleTypes
<1> QED BY <1>3, <1>4, <1>5

LEMMA PollOverflowOK ==
  ASSUME ConsoleInv, PollOverflow
  PROVE  ConsoleInv'
<1>1. ConsoleTypes /\ PopSound /\ UartSound /\ RingSound /\ InputInOrder /\ LossIsFlagged
  BY DEF ConsoleInv
<1> DEFINE skipped2 == bytes.skipped + Cardinality(bytes.dropped)
<1>2. /\ shell = "poll" /\ rx.overflow /\ LineReset
      /\ bytes' = [bytes EXCEPT !.skipped = skipped2, !.dropped = {}]
      /\ input' = input /\ shell' = shell /\ handler' = handler
  BY <1>1 DEF PollOverflow, ShellRuns, ConsoleTypes
<1>3. Cardinality(bytes.dropped) \in Nat /\ bytes.skipped \in Nat /\ skipped2 \in Nat
      /\ bytes.arrived \in Nat
  <2>1. Cardinality(bytes.dropped) \in Nat
    BY <1>1, DroppedFinite
  <2>2. bytes.skipped \in Nat /\ bytes.arrived \in 0 .. MaxBytes
    BY <1>1 DEF ConsoleTypes
  <2>3. bytes.arrived \in Nat
    BY <2>2, ConsoleAssumption
  <2> QED BY <2>1, <2>2, <2>3
<1> HIDE DEF skipped2
<1>4. /\ editor' \in [length : 0 .. MaxLine, overflow : BOOLEAN, byte : 0 .. MaxBytes, count : 0 .. RxSize]
      /\ editor'.byte = editor.byte /\ editor'.count = editor.count
      /\ rx' \in [slots : [0 .. RxSize - 1 -> 0 .. MaxBytes], head : 0 .. RxSize - 1,
                  tail : 0 .. RxSize - 1, count : 0 .. RxSize, overflow : BOOLEAN]
      /\ rx'.slots = rx.slots /\ rx'.head = rx.head /\ rx'.tail = rx.tail /\ rx'.count = rx.count
      /\ rx'.overflow = FALSE
  BY <1>1, <1>2, LineResetFacts
<1>5. bytes' \in [arrived : 0 .. MaxBytes, read : Seq(1 .. MaxBytes), dropped : SUBSET (1 .. MaxBytes),
                raced : SUBSET {"count", "getc"}, unreported : BOOLEAN, skipped : Nat]
  BY <1>1, <1>2, <1>3 DEF ConsoleTypes
<1>6. /\ bytes'.arrived = bytes.arrived /\ bytes'.read = bytes.read /\ bytes'.dropped = {}
      /\ bytes'.raced = bytes.raced /\ bytes'.unreported = bytes.unreported
      /\ bytes'.skipped = skipped2
  BY <1>1, <1>2 DEF ConsoleTypes
<1>7. ConsoleTypes' /\ PopSound'
  BY <1>1, <1>2, <1>4, <1>5 DEF ConsoleTypes, PopSound
<1>8. Waiting' = Waiting /\ Buffered' = Buffered /\ InHand' = InHand
  BY <1>2, <1>4 DEF Waiting, Buffered, InHand
<1>9. Shown' = Shown
  BY <1>2, <1>6, <1>8 DEF Shown
<1>10. UartSound' /\ RingSound' /\ InputInOrder'
  BY <1>1, <1>2, <1>4, <1>6, <1>8, <1>9 DEF UartSound, RingSound, InputInOrder, Accounted
<1>11. LossIsFlagged'
  <2> SUFFICES ASSUME bytes.raced = {}, ~bytes.unreported
               PROVE  Len(Shown) + Cardinality({}) + skipped2 = bytes.arrived
    BY <1>6, <1>9 DEF LossIsFlagged
  <2>1. Len(Shown) + Cardinality(bytes.dropped) + bytes.skipped = bytes.arrived
    BY <1>1 DEF LossIsFlagged
  <2>2. Len(Shown) \in Nat /\ Cardinality({}) = 0
    BY <1>1, ShownFacts, FS_EmptySet
  <2> QED BY <1>3, <2>1, <2>2 DEF skipped2
<1> QED BY <1>7, <1>10, <1>11 DEF ConsoleInv

LEMMA PollPopsOK ==
  ASSUME ConsoleInv, PollPops
  PROVE  ConsoleInv'
<1>0. RxSize \in Nat \ {0} /\ MaxBytes \in Nat
  BY ConsoleAssumption
<1>1. ConsoleTypes /\ PopSound /\ UartSound /\ RingSound /\ InputInOrder /\ LossIsFlagged
  BY DEF ConsoleInv
<1> DEFINE b == rx.slots[rx.head]
           head2 == (rx.head + 1) % RxSize
<1>2. /\ shell = "poll" /\ ~rx.overflow /\ rx.count > 0 /\ shell' = "pop"
      /\ editor' = [editor EXCEPT !.byte = b, !.count = rx.count]
      /\ rx' = [rx EXCEPT !.head = head2]
      /\ input' = input /\ handler' = handler /\ bytes' = bytes
  BY <1>1 DEF PollPops, ShellRuns, ConsoleTypes
<1>3. /\ rx.slots \in [0 .. RxSize - 1 -> 0 .. MaxBytes] /\ rx.head \in 0 .. RxSize - 1
      /\ rx.tail \in 0 .. RxSize - 1 /\ rx.count \in 0 .. RxSize
  BY <1>1 DEF ConsoleTypes
<1>4. head2 = RingNext(RxSize, rx.head)
  BY DEF RingNext
<1> DEFINE T == 0 .. MaxBytes
           size == RxSize
           slots == rx.slots
           head == rx.head
           n == rx.count - 1
<1>5. size \in Nat \ {0} /\ slots \in [0 .. size - 1 -> T] /\ head \in 0 .. size - 1 /\ n \in Nat
  BY <1>0, <1>2, <1>3
<1>6. Waiting = n + 1
  BY <1>2, <1>3 DEF Waiting
<1>7. b \in 0 .. MaxBytes
  BY <1>3
<1>71. b = slots[head]
  OBVIOUS
<1> HIDE DEF T, size, slots, head, head2, b
<1>8. /\ RingNext(size, head) \in 0 .. size - 1
      /\ Ring(slots, size, head, n + 1) = <<slots[head]>> \o Ring(slots, size, RingNext(size, head), n)
      /\ RingEnd(size, RingNext(size, head), n) = RingEnd(size, head, n + 1)
  <2> HIDE DEF n
  <2>1. \A m \in Nat :
           /\ RingNext(size, head) \in 0 .. size - 1
           /\ Ring(slots, size, head, m + 1) = <<slots[head]>> \o Ring(slots, size, RingNext(size, head), m)
           /\ RingEnd(size, RingNext(size, head), m) = RingEnd(size, head, m + 1)
    BY ONLY <1>5, RingPop
  <2> QED BY ONLY <1>5, <2>1
<1>9. head2 \in 0 .. RxSize - 1
  BY <1>4, <1>8 DEF size, head
<1>10. /\ rx'.slots = rx.slots /\ rx'.head = head2 /\ rx'.tail = rx.tail /\ rx'.count = rx.count
       /\ rx'.overflow = rx.overflow /\ editor'.byte = b /\ editor'.count = rx.count
  BY <1>1, <1>2 DEF ConsoleTypes
<1>11. ConsoleTypes'
  <2>1. rx' \in [slots : [0 .. RxSize - 1 -> 0 .. MaxBytes], head : 0 .. RxSize - 1,
             tail : 0 .. RxSize - 1, count : 0 .. RxSize, overflow : BOOLEAN]
    BY <1>1, <1>2, <1>9 DEF ConsoleTypes
  <2>2. editor' \in [length : 0 .. MaxLine, overflow : BOOLEAN, byte : 0 .. MaxBytes, count : 0 .. RxSize]
    BY <1>1, <1>2, <1>3, <1>7 DEF ConsoleTypes
  <2> QED BY <1>1, <1>2, <2>1, <2>2 DEF ConsoleTypes
<1>12. PopSound'
  BY <1>2, <1>3, <1>10 DEF PopSound
<1>13. UartSound'
  BY <1>1, <1>2 DEF UartSound
<1>14. Waiting' = n
  BY <1>2, <1>10 DEF Waiting
<1>15. RingSound'
  <2> SUFFICES ASSUME bytes.raced = {} PROVE rx.tail = (head2 + n) % RxSize
    BY <1>2, <1>10, <1>14 DEF RingSound
  <2>1. rx.tail = RingEnd(RxSize, rx.head, n + 1)
    <3> HIDE DEF n
    <3> QED BY <1>1, <1>6 DEF RingSound, RingEnd
  <2>2. RingEnd(size, RingNext(size, head), n) = RingEnd(size, head, n + 1)
    BY <1>8
  <2>3. rx.tail = RingEnd(RxSize, head2, n)
    <3> HIDE DEF n
    <3> QED BY <1>4, <2>1, <2>2 DEF size, head
  <2> QED BY <2>3 DEF RingEnd
<1>16. bytes.raced = {} => Shown' = Shown
  <2> SUFFICES ASSUME bytes.raced = {} PROVE Shown' = Shown
    OBVIOUS
  <2>1. /\ Waiting \in 0 .. RxSize /\ Buffered = Ring(rx.slots, RxSize, rx.head, Waiting)
        /\ bytes.read \in Seq(Nat) /\ InHand \in Seq(Nat) /\ Buffered \in Seq(Nat) /\ input \in Seq(Nat)
        /\ Shown \in Seq(Nat) /\ Len(Buffered) = Waiting
        /\ Shown = ((bytes.read \o InHand) \o Buffered) \o input
    BY <1>1, ShownFacts
  <2> DEFINE after == Ring(slots, size, RingNext(size, head), n)
  <2>2. Buffered' = after
    <3>1. Buffered' = Ring(rx'.slots, RxSize, rx'.head, Waiting')
      BY DEF Buffered, Ring, Waiting
    <3> HIDE DEF n
    <3> QED BY <1>4, <1>10, <1>14, <3>1 DEF size, slots, head
  <2>3. Buffered = <<b>> \o after
    <3> HIDE DEF n
    <3> QED BY <1>6, <1>71, <1>8, <2>1 DEF size, slots, head
  <2>4. after \in Seq(T)
    <3> DEFINE h == RingNext(size, head)
    <3>1. h \in 0 .. size - 1
      BY <1>8
    <3> HIDE DEF h, n
    <3>2. Ring(slots, size, h, n) \in Seq(T)
      BY ONLY <1>5, <3>1, RingSeq
    <3> QED BY <3>2 DEF h
  <2> HIDE DEF after
  <2>5. after \in Seq(Nat) /\ b \in Nat
    BY <1>0, <1>7, <2>4 DEF T
  <2>6. b # 0
    <3>1. Ascending(Shown, bytes.arrived)
      BY <1>1 DEF InputInOrder, Accounted, Ascending
    <3> DEFINE p == bytes.read \o InHand
               w == p \o Buffered
               k == Len(p) + 1
    <3>2. p \in Seq(Nat) /\ Len(Buffered) >= 1 /\ Buffered[1] = b /\ Len(p) \in Nat
      BY <2>1, <2>3, <2>5
    <3>4. Shown = w \o input
      BY <2>1
    <3> HIDE DEF p
    <3>3. w \in Seq(Nat) /\ Len(w) = Len(p) + Len(Buffered) /\ w[k] = b
      <4>1. /\ w \in Seq(Nat) /\ Len(w) = Len(p) + Len(Buffered)
            /\ \A i \in 1 .. Len(p) + Len(Buffered) :
                 w[i] = IF i <= Len(p) THEN p[i] ELSE Buffered[i - Len(p)]
        <5>1. p \in Seq(Nat) /\ Buffered \in Seq(Nat)
          BY <2>1, <3>2
        <5> DEFINE q == Buffered
        <5> HIDE DEF q
        <5>2. q \in Seq(Nat)
          BY <5>1 DEF q
        <5>3. /\ p \o q \in Seq(Nat) /\ Len(p \o q) = Len(p) + Len(q)
              /\ \A i \in 1 .. Len(p) + Len(q) :
                   (p \o q)[i] = IF i <= Len(p) THEN p[i] ELSE q[i - Len(p)]
          BY ONLY <5>1, <5>2, ConcatProperties
        <5> QED BY <5>3 DEF q, w
      <4>2. k \in 1 .. Len(p) + Len(Buffered) /\ ~(k <= Len(p)) /\ k - Len(p) = 1
        <5>1. Len(Buffered) \in Nat
          BY <2>1
        <5> QED BY <3>2, <5>1
      <4>3. w[k] = Buffered[k - Len(p)]
        BY <4>1, <4>2
      <4> QED BY <3>2, <4>1, <4>2, <4>3
    <3> HIDE DEF w
    <3>5. /\ k \in 1 .. Len(w) /\ Len(Shown) = Len(w) + Len(input) /\ Shown[k] = b
          /\ Len(input) \in Nat /\ Len(w) \in Nat
      <4>1. /\ Len(w \o input) = Len(w) + Len(input)
            /\ \A i \in 1 .. Len(w) + Len(input) :
                 (w \o input)[i] = IF i <= Len(w) THEN w[i] ELSE input[i - Len(w)]
        <5>1. w \in Seq(Nat) /\ input \in Seq(Nat)
          BY <2>1, <3>3
        <5> QED BY ONLY <5>1, ConcatProperties
      <4>2. Len(w) \in Nat /\ Len(input) \in Nat /\ Len(Buffered) \in Nat
        BY <2>1, <3>3
      <4>3. k \in 1 .. Len(w)
        BY <3>2, <3>3, <4>2
      <4> DEFINE m == k
      <4> HIDE DEF m
      <4>4. m \in 1 .. Len(w) /\ m \in 1 .. Len(w) + Len(input) /\ m <= Len(w)
        BY <4>2, <4>3 DEF m
      <4>5. (w \o input)[m] = w[m]
        BY <4>1, <4>4
      <4> QED BY <3>3, <3>4, <4>1, <4>2, <4>3, <4>5 DEF m
    <3>6. k \in DOMAIN Shown
      <4>1. DOMAIN Shown = 1 .. Len(Shown)
        BY <2>1
      <4>2. Len(Shown) >= Len(w) /\ Len(Shown) \in Nat
        BY <3>5
      <4> QED BY <3>2, <3>5, <4>1, <4>2
    <3>7. b \in 1 .. bytes.arrived
      BY <3>1, <3>5, <3>6 DEF Ascending
    <3> QED BY <1>0, <3>7
  <2>7. InHand = <<>> /\ InHand' = <<b>>
    BY <1>2, <1>10, <2>6 DEF InHand, Nothing
  <2>8. Shown' = ((bytes.read \o <<b>>) \o after) \o input
    BY <1>2, <2>2, <2>7 DEF Shown
  <2>9. bytes.read \o InHand = bytes.read
    BY <2>1, <2>7
  <2>10. (bytes.read \o <<b>>) \o after = bytes.read \o (<<b>> \o after)
    <3>1. bytes.read \in Seq(Nat) /\ after \in Seq(Nat) /\ b \in Nat
      BY <2>1, <2>5
    <3> DEFINE q == bytes.read
    <3> HIDE DEF q
    <3>2. q \in Seq(Nat)
      BY <3>1 DEF q
    <3>3. (q \o <<b>>) \o after = q \o (<<b>> \o after)
      BY ONLY <3>1, <3>2, InsertAssoc
    <3> QED BY <3>3 DEF q
  <2> QED BY <2>1, <2>3, <2>8, <2>9, <2>10
<1> QED BY <1>2, <1>10, <1>11, <1>12, <1>13, <1>15, <1>16, SameBytesOK

LEMMA StoreCountOK ==
  ASSUME ConsoleInv, StoreCount
  PROVE  ConsoleInv'
<1>1. ConsoleTypes /\ PopSound /\ UartSound /\ RingSound /\ InputInOrder /\ LossIsFlagged
  BY DEF ConsoleInv
<1> DEFINE count2 == editor.count - 1
           raced2 == IF rx.count = editor.count THEN bytes.raced ELSE bytes.raced \cup {"count"}
<1>2. /\ shell = "pop" /\ shell' = "accept" /\ rx' = [rx EXCEPT !.count = count2]
      /\ bytes' = [bytes EXCEPT !.raced = raced2]
      /\ input' = input /\ handler' = handler /\ editor' = editor
  BY <1>1 DEF StoreCount, ShellRuns, ConsoleTypes
<1>3. RxSize \in Nat /\ rx.count \in 0 .. RxSize /\ editor.count \in 0 .. RxSize /\ 1 <= editor.count
  BY <1>1, <1>2, ConsoleAssumption DEF ConsoleTypes, PopSound
<1>4. count2 \in 0 .. RxSize /\ raced2 \in SUBSET {"count", "getc"}
  <2>1. rx.count \in Nat /\ editor.count \in 1 .. RxSize /\ bytes.raced \in SUBSET {"count", "getc"}
    BY ONLY <1>1, <1>3 DEF ConsoleTypes
  <2> QED BY <1>3, <2>1
<1>5. raced2 = {} => bytes.raced = {} /\ count2 = rx.count - 1
  OBVIOUS
<1> HIDE DEF count2, raced2
<1>6. ConsoleTypes'
  <2>1. rx' \in [slots : [0 .. RxSize - 1 -> 0 .. MaxBytes], head : 0 .. RxSize - 1,
             tail : 0 .. RxSize - 1, count : 0 .. RxSize, overflow : BOOLEAN]
    BY <1>1, <1>2, <1>4 DEF ConsoleTypes
  <2>2. bytes' \in [arrived : 0 .. MaxBytes, read : Seq(1 .. MaxBytes), dropped : SUBSET (1 .. MaxBytes),
                raced : SUBSET {"count", "getc"}, unreported : BOOLEAN, skipped : Nat]
    BY <1>1, <1>2, <1>4 DEF ConsoleTypes
  <2> QED BY <1>1, <1>2, <2>1, <2>2 DEF ConsoleTypes
<1>7. /\ rx'.slots = rx.slots /\ rx'.head = rx.head /\ rx'.tail = rx.tail /\ rx'.count = count2
      /\ rx'.overflow = rx.overflow
      /\ bytes'.arrived = bytes.arrived /\ bytes'.read = bytes.read /\ bytes'.dropped = bytes.dropped
      /\ bytes'.raced = raced2 /\ bytes'.unreported = bytes.unreported
      /\ bytes'.skipped = bytes.skipped
  BY <1>1, <1>2 DEF ConsoleTypes
<1>8. PopSound' /\ UartSound'
  BY <1>1, <1>2, <1>7 DEF PopSound, UartSound
<1>9. Waiting' = count2 /\ Waiting = rx.count - 1 /\ InHand' = InHand
  BY <1>2, <1>7 DEF Waiting, InHand
<1>10. RingSound'
  BY <1>1, <1>5, <1>7, <1>9 DEF RingSound
<1>11. raced2 = {} => Shown' = Shown
  <2> SUFFICES ASSUME raced2 = {} PROVE Shown' = Shown
    OBVIOUS
  <2>1. Buffered' = Ring(rx'.slots, RxSize, rx'.head, Waiting') /\ Buffered = Ring(rx.slots, RxSize, rx.head, Waiting)
    BY DEF Buffered, Ring, Waiting
  <2>2. Buffered' = Buffered
    BY <1>5, <1>7, <1>9, <2>1
  <2> QED BY <1>2, <1>7, <1>9, <2>2 DEF Shown
<1> QED BY <1>5, <1>6, <1>7, <1>8, <1>10, <1>11, SameBytesOK

LEMMA GetByteOK ==
  ASSUME ConsoleInv, GetByte
  PROVE  ConsoleInv'
<1>0. RxSize \in Nat \ {0} /\ MaxBytes \in Nat
  BY ConsoleAssumption
<1>1. ConsoleTypes /\ PopSound /\ UartSound /\ RingSound /\ InputInOrder /\ LossIsFlagged
  BY DEF ConsoleInv
<1> DEFINE b == IF input = <<>> THEN 0 ELSE Head(input)
           raced2 == IF rx.count = 0 \/ input = <<>> THEN bytes.raced ELSE bytes.raced \cup {"getc"}
<1>2. /\ shell = "getc" /\ shell' = "accept" /\ rx' = rx /\ handler' = handler
      /\ editor' = [editor EXCEPT !.byte = b] /\ bytes' = [bytes EXCEPT !.raced = raced2]
  BY <1>1 DEF GetByte, ShellRuns, ConsoleTypes, Nothing
<1>3. IF input = <<>> THEN input' = input ELSE input' = Tail(input)
  BY DEF GetByte, ReadRbr
<1>4. raced2 \in SUBSET {"count", "getc"} /\ (raced2 = {} => bytes.raced = {})
      /\ (raced2 = {} /\ input # <<>> => rx.count = 0)
  BY <1>1 DEF ConsoleTypes
<1>5. input # <<>> =>
      /\ Head(input) \in 1 .. MaxBytes
      /\ Tail(input) \in Seq(1 .. MaxBytes) /\ Ascending(Tail(input), bytes.arrived)
      /\ \A i \in DOMAIN Tail(input) : Tail(input)[i] \notin bytes.dropped
  BY <1>1, FrontFacts
<1>6. b \in 0 .. MaxBytes
  BY <1>0, <1>5
<1>7. b = 0 <=> input = <<>>
  BY <1>0, <1>5
<1>71. input # <<>> => b = Head(input)
  OBVIOUS
<1> HIDE DEF b, raced2
<1>8. /\ bytes'.arrived = bytes.arrived /\ bytes'.read = bytes.read /\ bytes'.dropped = bytes.dropped
      /\ bytes'.raced = raced2 /\ bytes'.unreported = bytes.unreported
      /\ bytes'.skipped = bytes.skipped /\ editor'.byte = b
  BY <1>1, <1>2 DEF ConsoleTypes
<1>9. ConsoleTypes'
  <2>1. bytes' \in [arrived : 0 .. MaxBytes, read : Seq(1 .. MaxBytes), dropped : SUBSET (1 .. MaxBytes),
                raced : SUBSET {"count", "getc"}, unreported : BOOLEAN, skipped : Nat]
    BY <1>1, <1>2, <1>4 DEF ConsoleTypes
  <2>2. editor' \in [length : 0 .. MaxLine, overflow : BOOLEAN, byte : 0 .. MaxBytes, count : 0 .. RxSize]
    BY <1>1, <1>2, <1>6 DEF ConsoleTypes
  <2>3. input' \in Seq(1 .. MaxBytes)
    BY <1>1, <1>3, <1>5 DEF ConsoleTypes
  <2> QED BY <1>1, <1>2, <2>1, <2>2, <2>3 DEF ConsoleTypes
<1>10. PopSound'
  BY <1>2 DEF PopSound
<1>11. UartSound'
  <2>1. CASE input = <<>>
    BY <1>1, <1>3, <1>8, <2>1 DEF UartSound
  <2>2. CASE input # <<>>
    <3>1. input' = Tail(input)
      BY <1>3, <2>2
    <3> QED BY <1>1, <1>5, <1>8, <2>2, <3>1 DEF UartSound
  <2> QED BY <2>1, <2>2
<1>12. Waiting' = Waiting /\ Waiting = rx.count
  BY <1>2 DEF Waiting
<1>13. RingSound'
  BY <1>1, <1>2, <1>4, <1>8, <1>12 DEF RingSound
<1>14. raced2 = {} => Shown' = Shown
  <2> SUFFICES ASSUME raced2 = {} PROVE Shown' = Shown
    OBVIOUS
  <2>1. /\ bytes.read \in Seq(Nat) /\ InHand \in Seq(Nat) /\ Buffered \in Seq(Nat) /\ input \in Seq(Nat)
        /\ Len(Buffered) = Waiting
        /\ Shown = ((bytes.read \o InHand) \o Buffered) \o input
    BY <1>1, ShownFacts
  <2>2. Buffered' = Buffered
    <3>1. Buffered' = Ring(rx'.slots, RxSize, rx'.head, Waiting') /\ Buffered = Ring(rx.slots, RxSize, rx.head, Waiting)
      BY DEF Buffered, Ring, Waiting
    <3> QED BY <1>2, <1>12, <3>1
  <2>3. InHand = <<>>
    BY <1>2 DEF InHand
  <2>4. Shown' = ((bytes.read \o InHand') \o Buffered) \o input'
    BY <1>8, <2>2 DEF Shown
  <2>5. CASE input = <<>>
    <3>1. InHand' = <<>>
      BY <1>7, <1>8, <2>5 DEF InHand, Nothing
    <3> QED BY <1>3, <2>1, <2>3, <2>4, <2>5, <3>1
  <2>6. CASE input # <<>>
    <3>1. InHand' = <<b>> /\ b \in Nat
      BY <1>0, <1>2, <1>6, <1>7, <1>8, <2>6 DEF InHand, Nothing
    <3>2. Buffered = <<>>
      BY <1>4, <1>12, <2>1, <2>6
    <3>3. input = <<b>> \o input' /\ input' \in Seq(Nat)
      <4>1. \A q \in Seq(Nat) : q # <<>> => q = <<Head(q)>> \o Tail(q) /\ Tail(q) \in Seq(Nat)
        OBVIOUS
      <4> QED BY <1>3, <1>71, <2>1, <2>6, <4>1
    <3>4. Shown' = (bytes.read \o <<b>>) \o input'
      BY <2>1, <2>4, <3>1, <3>2
    <3>5. Shown = bytes.read \o (<<b>> \o input')
      <4>1. (bytes.read \o InHand) \o Buffered = bytes.read
        BY <2>1, <2>3, <3>2
      <4> QED BY <2>1, <3>3, <4>1
    <3>6. (bytes.read \o <<b>>) \o input' = bytes.read \o (<<b>> \o input')
      BY <2>1, <3>1, <3>3, InsertAssoc
    <3> QED BY <3>4, <3>5, <3>6
  <2> QED BY <2>5, <2>6
<1>15. rx' = rx
  BY <1>2
<1> QED BY <1>4, <1>8, <1>9, <1>10, <1>11, <1>13, <1>14, <1>15, SameBytesOK

LEMMA AcceptByteOK ==
  ASSUME ConsoleInv, AcceptByte
  PROVE  ConsoleInv'
<1>0. RxSize \in Nat \ {0} /\ MaxBytes \in Nat /\ MaxLine \in Nat /\ EnterBytes \subseteq 1 .. MaxBytes
  BY ConsoleAssumption
<1>1. ConsoleTypes /\ PopSound /\ UartSound /\ RingSound /\ InputInOrder /\ LossIsFlagged
  BY DEF ConsoleInv
<1> DEFINE b == editor.byte
           read2 == Append(bytes.read, b)
           unreported2 == bytes.unreported \/ rx.overflow
<1>2. shell = "accept" /\ shell' = "poll" /\ input' = input /\ handler' = handler
  BY DEF AcceptByte, ShellRuns
<1>3. /\ b \in 0 .. MaxBytes /\ bytes.read \in Seq(1 .. MaxBytes) /\ input \in Seq(1 .. MaxBytes)
      /\ rx.overflow \in BOOLEAN /\ bytes.unreported \in BOOLEAN
  BY <1>1 DEF ConsoleTypes
<1>4. PopSound' /\ InHand' = <<>>
  BY <1>2 DEF PopSound, InHand
<1>5. b # 0 => read2 \in Seq(1 .. MaxBytes)
  BY <1>0, <1>3
<1>6. InHand = IF b = 0 THEN <<>> ELSE <<b>>
  BY <1>2 DEF InHand, Nothing
<1>7. /\ bytes.read \in Seq(Nat) /\ InHand \in Seq(Nat) /\ Buffered \in Seq(Nat) /\ input \in Seq(Nat)
      /\ Shown = ((bytes.read \o InHand) \o Buffered) \o input
  BY <1>1, ShownFacts
\* What each of the three outcomes has in common.
<1>8. ASSUME ConsoleTypes', bytes'.raced = bytes.raced, bytes'.arrived = bytes.arrived,
             bytes'.dropped = bytes.dropped, bytes'.skipped = bytes.skipped,
             bytes'.read = IF b = 0 THEN bytes.read ELSE read2,
             rx'.slots = rx.slots, rx'.head = rx.head, rx'.tail = rx.tail, rx'.count = rx.count,
             ~bytes'.unreported =>
               ~bytes.unreported /\ (bytes.dropped # {} /\ rx.overflow => rx'.overflow)
      PROVE  ConsoleInv'
  <2>1. Waiting' = Waiting
    BY <1>2, <1>8 DEF Waiting
  <2>2. Buffered' = Ring(rx'.slots, RxSize, rx'.head, Waiting') /\ Buffered = Ring(rx.slots, RxSize, rx.head, Waiting)
    BY DEF Buffered, Ring, Waiting
  <2>3. Buffered' = Buffered
    BY <1>8, <2>1, <2>2
  <2>4. bytes'.read \o InHand' = bytes.read \o InHand
    <3>1. CASE b = 0
      BY <1>4, <1>6, <1>7, <1>8, <3>1
    <3>2. CASE b # 0
      <4>1. InHand = <<b>> /\ bytes'.read = Append(bytes.read, b) /\ b \in Nat
        BY <1>0, <1>3, <1>6, <1>8, <3>2
      <4>2. Append(bytes.read, b) = bytes.read \o <<b>> /\ Append(bytes.read, b) \in Seq(Nat)
        BY <1>7, <4>1, InsertAssoc
      <4>3. Append(bytes.read, b) \o <<>> = Append(bytes.read, b)
        BY <4>2
      <4> QED BY <1>4, <4>1, <4>2, <4>3
    <3> QED BY <3>1, <3>2
  <2>5. Shown' = Shown
    BY <1>2, <2>3, <2>4 DEF Shown
  <2>6. UartSound'
    BY <1>1, <1>2, <1>8 DEF UartSound
  <2>7. RingSound'
    BY <1>1, <1>8, <2>1 DEF RingSound
  <2> QED BY <1>4, <1>8, <2>5, <2>6, <2>7, SameBytesOK
<1>9. CASE b \in EnterBytes
  <2>1. b # 0
    BY <1>0, <1>9
  <2>2. LineReset /\ bytes' = [bytes EXCEPT !.read = read2, !.unreported = unreported2]
    BY <1>1, <1>9 DEF AcceptByte, ConsoleTypes
  <2>3. /\ editor' \in [length : 0 .. MaxLine, overflow : BOOLEAN, byte : 0 .. MaxBytes, count : 0 .. RxSize]
        /\ rx' \in [slots : [0 .. RxSize - 1 -> 0 .. MaxBytes], head : 0 .. RxSize - 1,
                    tail : 0 .. RxSize - 1, count : 0 .. RxSize, overflow : BOOLEAN]
        /\ rx'.slots = rx.slots /\ rx'.head = rx.head /\ rx'.tail = rx.tail /\ rx'.count = rx.count
    BY <1>1, <2>2, LineResetFacts
  <2>4. unreported2 \in BOOLEAN /\ (~unreported2 => ~bytes.unreported /\ ~rx.overflow)
    OBVIOUS
  <2> HIDE DEF read2, unreported2
  <2>5. bytes' \in [arrived : 0 .. MaxBytes, read : Seq(1 .. MaxBytes), dropped : SUBSET (1 .. MaxBytes),
                raced : SUBSET {"count", "getc"}, unreported : BOOLEAN, skipped : Nat]
    BY <1>1, <1>5, <2>1, <2>2, <2>4 DEF ConsoleTypes
  <2>6. ConsoleTypes'
    BY <1>1, <1>2, <2>3, <2>5 DEF ConsoleTypes
  <2>7. /\ bytes'.arrived = bytes.arrived /\ bytes'.read = read2 /\ bytes'.dropped = bytes.dropped
        /\ bytes'.raced = bytes.raced /\ bytes'.unreported = unreported2
        /\ bytes'.skipped = bytes.skipped
    BY <1>1, <2>2 DEF ConsoleTypes
  <2>8. bytes'.read = IF b = 0 THEN bytes.read ELSE read2
    BY <2>1, <2>7
  <2>9. ~bytes'.unreported =>
           ~bytes.unreported /\ (bytes.dropped # {} /\ rx.overflow => rx'.overflow)
    BY <2>4, <2>7
  <2> QED BY <1>8, <2>3, <2>6, <2>7, <2>8, <2>9
<1>10. CASE b \notin EnterBytes /\ b = 0
  <2>1. rx' = rx /\ editor' = editor /\ bytes' = bytes
    BY <1>10 DEF AcceptByte, Nothing
  <2>2. ConsoleTypes'
    BY <1>1, <1>2, <2>1 DEF ConsoleTypes
  <2>3. bytes'.read = IF b = 0 THEN bytes.read ELSE read2
    BY <1>10, <2>1
  <2>4. ~bytes'.unreported =>
           ~bytes.unreported /\ (bytes.dropped # {} /\ rx.overflow => rx'.overflow)
    BY <2>1
  <2> QED BY <1>8, <2>1, <2>2, <2>3, <2>4
<1>11. CASE b \notin EnterBytes /\ b # 0
  <2>1. /\ rx' = rx /\ bytes' = [bytes EXCEPT !.read = read2]
        /\ editor' = IF editor.overflow \/ editor.length >= MaxLine
                     THEN [editor EXCEPT !.overflow = TRUE]
                     ELSE [editor EXCEPT !.length = editor.length + 1]
    BY <1>1, <1>11 DEF AcceptByte, Nothing, ConsoleTypes
  <2>2. editor' \in [length : 0 .. MaxLine, overflow : BOOLEAN, byte : 0 .. MaxBytes, count : 0 .. RxSize]
    <3>1. editor.length \in 0 .. MaxLine
      BY <1>1 DEF ConsoleTypes
    <3>2. CASE editor.overflow \/ editor.length >= MaxLine
      BY <1>1, <2>1, <3>2 DEF ConsoleTypes
    <3>3. CASE ~(editor.overflow \/ editor.length >= MaxLine)
      <4> DEFINE len2 == editor.length + 1
      <4>1. len2 \in 0 .. MaxLine
        BY <1>0, <3>1, <3>3
      <4>2. editor' = [editor EXCEPT !.length = len2]
        BY <2>1, <3>3
      <4> HIDE DEF len2
      <4> QED BY <1>1, <4>1, <4>2 DEF ConsoleTypes
    <3> QED BY <3>2, <3>3
  <2> HIDE DEF read2
  <2>3. bytes' \in [arrived : 0 .. MaxBytes, read : Seq(1 .. MaxBytes), dropped : SUBSET (1 .. MaxBytes),
                raced : SUBSET {"count", "getc"}, unreported : BOOLEAN, skipped : Nat]
    BY <1>1, <1>5, <1>11, <2>1 DEF ConsoleTypes
  <2>4. ConsoleTypes'
    BY <1>1, <1>2, <2>1, <2>2, <2>3 DEF ConsoleTypes
  <2>5. /\ bytes'.arrived = bytes.arrived /\ bytes'.read = read2 /\ bytes'.dropped = bytes.dropped
        /\ bytes'.raced = bytes.raced /\ bytes'.unreported = bytes.unreported
        /\ bytes'.skipped = bytes.skipped
    BY <1>1, <2>1 DEF ConsoleTypes
  <2>6. bytes'.read = IF b = 0 THEN bytes.read ELSE read2
    BY <1>11, <2>5
  <2>7. ~bytes'.unreported =>
           ~bytes.unreported /\ (bytes.dropped # {} /\ rx.overflow => rx'.overflow)
    BY <2>1, <2>5
  <2> QED BY <1>8, <2>1, <2>4, <2>5, <2>6, <2>7
<1> QED BY <1>9, <1>10, <1>11

LEMMA ConsoleInvariant ==
  ConsoleSpec => []ConsoleInv
<1>1. ConsoleInv /\ ConsoleNext => ConsoleInv'
  BY InjectInputOK, HandlerQuietOK, HandlerDrainsOK, PollOverflowOK, PollPopsOK, ShellQuietOK,
     StoreCountOK, GetByteOK, AcceptByteOK DEF ConsoleNext, HandlerStep, ShellStep
<1>2. ConsoleInv /\ UNCHANGED consoleVars => ConsoleInv'
  <2> SUFFICES ASSUME ConsoleInv, UNCHANGED consoleVars PROVE ConsoleInv'
    OBVIOUS
  <2>1. UNCHANGED <<input, rx, editor, bytes>> /\ shell' = shell /\ handler' = handler
    BY DEF consoleVars
  <2>2. handler \in {"off", "claim", "drain", "complete"}
    BY DEF ConsoleInv, ConsoleTypes
  <2> QED BY <2>1, <2>2, QuietStepOK
<1> QED BY <1>1, <1>2, ConsoleInitOK, PTL DEF ConsoleSpec

\* For any ring, line, number of bytes and choice of those that end a line: whatever moment the
\* handler interrupts the shell at, every byte shows once and in order, or was dropped because
\* the ring was full while the flag that says so is up (console_input_push_interrupt_byte,
\* console_input_poll, console_input_accept_byte).
THEOREM InputIsKept ==
  ConsoleSpec => []InputKept
<1>1. ConsoleInv => ConsoleTypeOK
  BY DEF ConsoleInv, ConsoleTypes, ConsoleTypeOK
<1>2. ConsoleInv => InputKept
  BY <1>1 DEF ConsoleInv, InputKept
<1> QED BY <1>2, ConsoleInvariant, PTL

-----------------------------------------------------------------------------
(* The AI accelerator's queues *)

\* The loop keeps what each round keeps.
LEMMA BeginNextKeeps ==
  ASSUME NEW S, NEW d \in S,
         \A e \in S : e.stage = "idle" /\ e.budget > 0 => Begun(e) \in S
  PROVE  BeginNext(d) \in S
<1> DEFINE N == AiEntries + 1
           Round(e) == IF e.stage = "idle" /\ e.budget > 0 THEN Begun(e) ELSE e
           after == CHOOSE f : f = [n \in 0 .. N |-> IF n = 0 THEN d ELSE Round(f[n - 1])]
           G == [i \in Nat |-> [e \in S |-> Round(e)]]
<1>1. BeginNext(d) = after[N]
  BY DEF BeginNext
<1>2. N \in Nat
  BY AiAssumption
<1> HIDE DEF N
<1>3. \A e \in S : Round(e) \in S /\ \A i \in Nat : G[i][e] = Round(e)
  OBVIOUS
<1>4. G \in [Nat -> [S -> S]]
  BY <1>3
<1> HIDE DEF G
<1>5. PICK f \in [0 .. N -> S] : \A i \in 0 .. N : f[i] = IF i = 0 THEN d ELSE G[i][f[i - 1]]
  <2>1. \A n \in Nat : \E f \in [0 .. n -> S] : Orbit(f, n, d, G)
    BY ONLY d \in S, <1>4, Iterates
  <2> QED BY <1>2, <2>1 DEF Orbit
<1> HIDE DEF Round
<1>6. f = [n \in 0 .. N |-> IF n = 0 THEN d ELSE Round(f[n - 1])]
  <2>1. ASSUME NEW i \in 0 .. N PROVE f[i] = IF i = 0 THEN d ELSE Round(f[i - 1])
    <3>1. i # 0 => i - 1 \in 0 .. N
      BY <1>2
    <3> QED BY <1>3, <1>5, <3>1
  <2> QED BY <1>5, <2>1
<1>7. after = [n \in 0 .. N |-> IF n = 0 THEN d ELSE Round(after[n - 1])]
  BY <1>6
<1> HIDE DEF after
<1>8. \A i \in 0 .. N : after[i] = IF i = 0 THEN d ELSE Round(after[i - 1])
  BY ONLY <1>7
<1> DEFINE Bad == {n \in 0 .. N : after[n] \notin S}
<1>9. Bad = {}
  <2>1. SUFFICES ASSUME Bad # {} PROVE FALSE
    OBVIOUS
  <2>2. PICK x \in Bad : \A y \in Bad : x <= y
    <3>1. Bad \in SUBSET Nat
      BY <1>2
    <3> HIDE DEF Bad
    <3> QED BY <2>1, <3>1, LeastOf
  <2>3. x # 0
    BY <1>2, <1>8, <2>2
  <2>4. x - 1 \in 0 .. N /\ after[x - 1] \in S
    BY <1>2, <2>2, <2>3
  <2> QED BY <1>3, <1>8, <2>2, <2>3, <2>4
<1> QED BY <1>1, <1>2, <1>9

AiSubs == [num : Nat, kind : {"good", "invalid", "fault"}]

AiDevices ==
  [ready : BOOLEAN, head : 0 .. AiSpan - 1, tail : 0 .. AiSpan - 1, chead : 0 .. AiSpan - 1,
   ctail : 0 .. AiSpan - 1, budget : 0 .. AiEntries, active : AiSubs,
   stage : {"idle", "load", "compute", "store"}, irq : SUBSET {"completion", "fault"},
   line : BOOLEAN, stopped : BOOLEAN, comps : [Slots -> [num : Nat, ok : BOOLEAN]]]

AiMemories == [subs : [Slots -> AiSubs], badSlot : 0 .. AiEntries]

AiDrivers ==
  [tail : 0 .. AiSpan - 1, chead : 0 .. AiSpan - 1, ctail : 0 .. AiSpan - 1, open : Seq(Nat),
   handling : BOOLEAN, last : 0 .. AiSubmissions, rung : 0 .. AiSpan - 1,
   stored : [Numbers -> 0 .. 2]]

\* The driver's tail as if it did not wrap.
LastTail(d, v) == IF v.tail < d.head THEN AiSpan ELSE v.tail

\* Where the counters are.  Only the driver's tail and then the published one can wrap.
CountersInOrder(d, v) ==
  /\ d.ctail = d.head /\ v.chead = d.chead
  /\ v.chead <= v.ctail /\ v.ctail <= d.ctail /\ d.ctail <= d.chead + AiEntries
  /\ v.tail < d.head => v.tail = 0
  /\ LastTail(d, v) <= d.head + AiEntries
  /\ d.tail < d.head => d.tail = v.tail
  /\ d.tail >= d.head => d.tail <= LastTail(d, v)

\* The submission under way is the one at the head.
ActiveIsHead(d, m, v) ==
  d.stage # "idle" =>
    /\ d.head + 1 < AiSpan /\ d.ctail < d.chead + AiEntries /\ d.head < LastTail(d, v)
    /\ d.tail # d.head
    /\ d.active = m.subs[d.head % AiEntries]
    /\ d.active.kind # "invalid" /\ (d.stage # "load" => d.active.kind = "good")

\* What the driver waits for, by number and by place.
OpenNumbered(v) ==
  /\ Len(v.open) <= v.last
  /\ \A i \in 1 .. Len(v.open) : v.open[i] + Len(v.open) = v.last + i

\* The slot, and what it says, of the i-th that the driver waits for.
SlotOf(d, i) == (d.chead + i - 1) % AiEntries
Answered(d, i) == d.chead + i <= d.head

OpenInPlace(d, m, v) ==
  /\ Len(v.open) + d.chead = LastTail(d, v)
  /\ \A i \in 1 .. Len(v.open) :
       v.open[i] = IF Answered(d, i) THEN d.comps[SlotOf(d, i)].num
                   ELSE m.subs[SlotOf(d, i)].num

\* The history of stores.
StoresKnown(d, m, v) ==
  /\ \A n \in Numbers : n > v.last => v.stored[n] = 0
  /\ \A i \in 1 .. Len(v.open) :
       /\ v.stored[v.open[i]] > 1 => m.badSlot \in Slots
       /\ Answered(d, i) => (d.comps[SlotOf(d, i)].ok <=> v.stored[v.open[i]] > 0)
       /\ ~Answered(d, i) /\ v.stored[v.open[i]] > 0 =>
            m.badSlot \in Slots /\ m.subs[SlotOf(d, i)].kind = "good"

\* The budget, until the published tail wraps.
BudgetCovers(d, v) ==
  d.head <= d.tail =>
    /\ v.rung <= d.tail
    /\ ~d.stopped => d.budget + (IF d.stage = "idle" THEN 0 ELSE 1) >= BoundedDepth(d.head, v.rung)

AnswersSeen(d, v) == v.ctail = d.ctail \/ d.irq # {} \/ v.handling

\* What holds also between the rounds of the pump.
PumpInv(d, m, v) ==
  /\ d \in AiDevices /\ v \in AiDrivers /\ m \in AiMemories
  /\ CountersInOrder(d, v) /\ ActiveIsHead(d, m, v)
  /\ OpenNumbered(v) /\ OpenInPlace(d, m, v) /\ StoresKnown(d, m, v)
  /\ BudgetCovers(d, v) /\ AnswersSeen(d, v)

AiInv == PumpInv(ai, aiMem, aiDrv) /\ (ai.line <=> ai.irq # {})

\* What the constants of the queues mean: a queue fills half of the span of its counters at most.
LEMMA AiConstants ==
  /\ AiEntries \in Nat \ {0} /\ AiSpan \in Nat \ {0} /\ AiSubmissions \in Nat
  /\ AiSpan > AiEntries /\ 2 * AiEntries <= AiSpan
<1>1. AiEntries \in Nat \ {0} /\ AiSpan \in Nat \ {0} /\ AiSubmissions \in Nat /\ AiSpan > AiEntries
  BY AiAssumption
<1>2. 2 * AiEntries <= AiSpan
  <2>1. PICK k \in Nat : AiSpan = k * AiEntries + (AiSpan % AiEntries)
    BY <1>1, ModDef
  <2>2. AiSpan = k * AiEntries
    BY <1>1, <2>1, AiAssumption
  <2>3. k # 0 /\ k # 1
    BY <1>1, <2>2
  <2>4. k = 2 + (k - 2) /\ k - 2 \in Nat
    BY <2>3
  <2>5. k * AiEntries = 2 * AiEntries + (k - 2) * AiEntries
    BY ONLY <1>1, <2>4, k \in Nat
  <2>6. (k - 2) * AiEntries \in Nat
    BY <1>1, <2>4
  <2> QED BY <1>1, <2>2, <2>5, <2>6
<1> QED BY <1>1, <1>2

\* A counter stays in its span, and the slot it names is one.
LEMMA AiSizes ==
  /\ \A x \in 0 .. AiSpan - 1 :
       /\ x + 1 < AiSpan => Next1(x) = x + 1
       /\ x + 1 = AiSpan => Next1(x) = 0
       /\ Next1(x) \in 0 .. AiSpan - 1
  /\ \A x \in Nat : x % AiEntries \in Slots
<1>1. AiEntries \in Nat \ {0} /\ AiSpan \in Nat \ {0}
  BY AiConstants
<1>3. ASSUME NEW x \in 0 .. AiSpan - 1
      PROVE  /\ x + 1 < AiSpan => Next1(x) = x + 1
             /\ x + 1 = AiSpan => Next1(x) = 0
  <2>1. CASE x + 1 < AiSpan
    <3>1. x + 1 = 0 * AiSpan + (x + 1) /\ x + 1 \in 0 .. AiSpan - 1 /\ x + 1 \in Int
      BY <1>1, <2>1
    <3>2. ((x + 1) % AiSpan) = x + 1
      BY <1>1, <3>1, ModUnique
    <3> QED BY <2>1, <3>2 DEF Next1
  <2>2. CASE x + 1 = AiSpan
    <3>1. (AiSpan % AiSpan) = 0
      BY <1>1, ModSelf
    <3> QED BY <2>2, <3>1 DEF Next1
  <2> QED BY <2>1, <2>2
<1>4. \A x \in 0 .. AiSpan - 1 : Next1(x) \in 0 .. AiSpan - 1
  BY <1>1, <1>3
<1>5. \A x \in Nat : x % AiEntries \in Slots
  BY <1>1, ModDef DEF Slots
<1> QED BY <1>3, <1>4, <1>5

\* What complete_descriptor leaves.
LEMMA CompletedFacts ==
  ASSUME NEW d \in AiDevices, NEW sub \in AiSubs, NEW ok \in BOOLEAN, aiMem \in AiMemories,
         d.ctail + 1 < AiSpan, d.head = d.ctail, d.chead <= d.ctail, d.ctail < d.chead + AiEntries,
         NEW c, c = Completed(d, sub, ok)
  PROVE  /\ c \in AiDevices
         /\ c.tail = d.tail /\ c.chead = d.chead /\ c.stage = "idle" /\ c.ctail = c.head
         /\ c.irq # {}
         /\ \/ aiMem.badSlot \in Slots /\ c.head = d.head /\ c.comps = d.comps /\ c.stopped
            \/ /\ c.head = d.head + 1 /\ c.budget = d.budget /\ c.stopped = d.stopped
               /\ c.comps = [d.comps EXCEPT ![d.head % AiEntries] = [num |-> sub.num, ok |-> ok]]
<1> DEFINE next == [d EXCEPT !.active = NoSubmission, !.stage = "idle"]
           answer == [num |-> sub.num, ok |-> ok]
<1>1. /\ d.ctail \in 0 .. AiSpan - 1 /\ d.chead \in 0 .. AiSpan - 1 /\ d.head \in 0 .. AiSpan - 1
      /\ d.irq \subseteq {"completion", "fault"} /\ d.comps \in [Slots -> [num : Nat, ok : BOOLEAN]]
      /\ d.budget \in 0 .. AiEntries
  BY DEF AiDevices
<1>2. CompletionHasSpace(d)
  BY AiConstants, <1>1 DEF CompletionHasSpace, BoundedDepth
<1>3. d.ctail % AiEntries \in Slots /\ Next1(d.ctail) = d.ctail + 1
      /\ d.ctail + 1 \in 0 .. AiSpan - 1 /\ 0 \in 0 .. AiEntries
  <2>1. d.ctail \in Nat
    BY <1>1, AiConstants
  <2>2. d.ctail % AiEntries \in Slots
    BY <2>1, AiSizes
  <2>3. Next1(d.ctail) = d.ctail + 1
    BY <1>1, AiSizes
  <2>4. d.ctail + 1 \in 0 .. AiSpan - 1 /\ 0 \in 0 .. AiEntries
    BY <1>1, AiConstants
  <2> QED BY <2>2, <2>3, <2>4
<1>4. next \in AiDevices /\ NoSubmission \in AiSubs /\ answer \in [num : Nat, ok : BOOLEAN]
  BY DEF AiDevices, AiSubs, NoSubmission
<1> HIDE DEF answer
<1>5. CASE d.ctail % AiEntries = aiMem.badSlot
  <2>1. c = [next EXCEPT !.irq = @ \cup {"fault"}, !.budget = 0, !.stopped = TRUE]
    BY <1>5 DEF Completed, Faulted
  <2>2. c.irq = d.irq \cup {"fault"}
    BY <2>1 DEF AiDevices
  <2>3. c \in AiDevices
    <3>1. d.irq \cup {"fault"} \in SUBSET {"completion", "fault"} /\ 0 \in 0 .. AiEntries
      BY <1>1, <1>3
    <3>2. c = [next EXCEPT !.irq = d.irq \cup {"fault"}, !.budget = 0, !.stopped = TRUE]
      BY <2>1 DEF AiDevices
    <3>3. next \in AiDevices
      BY <1>4
    <3> QED BY ONLY <3>3, <3>1, <3>2 DEF AiDevices
  <2>4. c.tail = d.tail /\ c.chead = d.chead /\ c.stage = "idle" /\ c.ctail = c.head
        /\ c.head = d.head /\ c.comps = d.comps /\ c.stopped
    BY <2>1 DEF AiDevices
  <2> QED BY <1>3, <1>5, <2>2, <2>3, <2>4
<1>6. CASE d.ctail % AiEntries # aiMem.badSlot
  <2> DEFINE more == {"completion"} \cup (IF ok THEN {} ELSE {"fault"})
             comps == [d.comps EXCEPT ![d.ctail % AiEntries] = answer]
  <2>1. c = [next EXCEPT !.comps = comps, !.head = d.ctail + 1, !.ctail = d.ctail + 1,
                         !.irq = d.irq \cup more]
    <3>1. c = [next EXCEPT !.comps[d.ctail % AiEntries] = answer,
                 !.head = Next1(@), !.ctail = Next1(@),
                 !.irq = @ \cup {"completion"} \cup (IF ok THEN {} ELSE {"fault"})]
      BY <1>2, <1>6 DEF Completed, answer
    <3>2. next.comps = d.comps /\ next.head = d.ctail /\ next.ctail = d.ctail /\ next.irq = d.irq
      BY DEF AiDevices
    <3> QED BY <3>1, <3>2, <1>3
  <2>2. comps \in [Slots -> [num : Nat, ok : BOOLEAN]]
    BY <1>1, <1>4
  <2>3. more \subseteq {"completion", "fault"} /\ "completion" \in more
    OBVIOUS
  <2>4. d.irq \cup more \in SUBSET {"completion", "fault"} /\ d.irq \cup more # {}
    BY <1>1, <2>3
  <2> HIDE DEF more, comps
  <2>5. c \in AiDevices
    BY ONLY <1>3, <1>4, <2>1, <2>2, <2>4 DEF AiDevices
  <2>6. c.tail = d.tail /\ c.chead = d.chead /\ c.stage = "idle" /\ c.ctail = c.head
        /\ c.head = d.head + 1 /\ c.comps = comps /\ c.stopped = d.stopped
        /\ c.budget = d.budget /\ c.irq = d.irq \cup more
    BY <2>1 DEF AiDevices
  <2> QED BY <2>4, <2>5, <2>6 DEF comps, answer
<1> QED BY <1>5, <1>6

\* Counters less than a ring apart name different slots.
LEMMA SlotsApart ==
  ASSUME NEW p \in Nat, NEW q \in Nat, p < q, q < p + AiEntries
  PROVE  (p % AiEntries) # (q % AiEntries)
<1>1. q - p \in 1 .. AiEntries - 1 /\ q = p + (q - p)
  BY AiConstants
<1>2. (p + (q - p)) % AiEntries # p % AiEntries
  BY <1>1, AiConstants, ModApart
<1> QED BY <1>1, <1>2

\* The types of the accelerator's fields.
LEMMA DeviceFields ==
  ASSUME NEW d \in AiDevices
  PROVE  /\ d.head \in Nat /\ d.tail \in Nat /\ d.chead \in Nat /\ d.ctail \in Nat
         /\ d.head < AiSpan /\ d.tail < AiSpan /\ d.chead < AiSpan /\ d.ctail < AiSpan
         /\ d.budget \in 0 .. AiEntries /\ d.active \in AiSubs
         /\ d.stage \in {"idle", "load", "compute", "store"}
         /\ d.irq \subseteq {"completion", "fault"} /\ d.line \in BOOLEAN /\ d.stopped \in BOOLEAN
         /\ d.comps \in [Slots -> [num : Nat, ok : BOOLEAN]]
BY AiConstants DEF AiDevices

\* The types of the driver's fields.
LEMMA DriverFields ==
  ASSUME NEW v \in AiDrivers
  PROVE  /\ v.tail \in Nat /\ v.chead \in Nat /\ v.ctail \in Nat /\ v.rung \in Nat
         /\ v.tail < AiSpan /\ v.chead < AiSpan /\ v.ctail < AiSpan /\ v.rung < AiSpan
         /\ v.open \in Seq(Nat) /\ Len(v.open) \in Nat /\ v.handling \in BOOLEAN
         /\ v.last \in 0 .. AiSubmissions /\ v.stored \in [Numbers -> 0 .. 2]
         /\ \A i \in 1 .. Len(v.open) : v.open[i] \in Nat
BY AiConstants DEF AiDrivers

\* The numbers that the driver waits for: known ones, each once.
LEMMA OpenFacts ==
  ASSUME NEW v \in AiDrivers, OpenNumbered(v)
  PROVE  /\ \A i \in 1 .. Len(v.open) : v.open[i] \in Numbers /\ v.open[i] <= v.last
         /\ \A i, j \in 1 .. Len(v.open) : i # j => v.open[i] # v.open[j]
<1>1. Len(v.open) \in Nat /\ v.last \in Nat /\ v.last <= AiSubmissions /\ AiSubmissions \in Nat
      /\ \A i \in 1 .. Len(v.open) : v.open[i] \in Nat
  BY DriverFields, AiConstants
<1>2. ASSUME NEW i \in 1 .. Len(v.open)
      PROVE  /\ v.open[i] \in Numbers /\ v.open[i] <= v.last
             /\ v.open[i] + Len(v.open) = v.last + i
  BY <1>1 DEF OpenNumbered, Numbers
<1>3. ASSUME NEW i \in 1 .. Len(v.open), NEW j \in 1 .. Len(v.open), i # j
      PROVE  v.open[i] # v.open[j]
  BY <1>1, <1>2, <1>3
<1> QED BY <1>2, <1>3

\* What the store that ends a submission adds to the history.
StoredOnce(v, n) == [v EXCEPT !.stored[n] = IF @ = 2 THEN 2 ELSE @ + 1]

\* A store changes the history of its own submission only.
LEMMA StoredOnceFacts ==
  ASSUME NEW v \in AiDrivers, NEW n \in Numbers, NEW w, w = StoredOnce(v, n)
  PROVE  /\ w \in AiDrivers
         /\ w.tail = v.tail /\ w.chead = v.chead /\ w.ctail = v.ctail /\ w.open = v.open
         /\ w.handling = v.handling /\ w.last = v.last /\ w.rung = v.rung
         /\ \A m \in Numbers : m # n => w.stored[m] = v.stored[m]
         /\ w.stored[n] > 0 /\ (w.stored[n] > 1 => v.stored[n] > 0)
<1> DEFINE s == [v.stored EXCEPT ![n] = IF @ = 2 THEN 2 ELSE @ + 1]
<1>1. w = [v EXCEPT !.stored = s]
  BY DEF StoredOnce, AiDrivers
<1>2. v.stored \in [Numbers -> 0 .. 2]
  BY DriverFields
<1>3. /\ s \in [Numbers -> 0 .. 2] /\ \A m \in Numbers : m # n => s[m] = v.stored[m]
      /\ s[n] > 0 /\ (s[n] > 1 => v.stored[n] > 0)
  BY <1>2
<1> HIDE DEF s
<1> QED BY <1>1, <1>3 DEF AiDrivers

\* A submission is answered, or refused.
LEMMA AnswerKeeps ==
  ASSUME NEW d \in AiDevices, NEW v \in AiDrivers, NEW sub, NEW ok \in BOOLEAN, NEW c, NEW w,
         aiMem \in AiMemories, CountersInOrder(d, v), OpenNumbered(v), OpenInPlace(d, aiMem, v),
         StoresKnown(d, aiMem, v), AnswersSeen(d, v),
         d.head + 1 < AiSpan, d.ctail < d.chead + AiEntries, d.head < LastTail(d, v),
         d.tail # d.head,
         sub = aiMem.subs[d.head % AiEntries], ok <=> sub.kind = "good",
         d.head <= d.tail =>
           v.rung <= d.tail /\ (~d.stopped => d.budget + 1 >= BoundedDepth(d.head, v.rung)),
         c = Completed(d, sub, ok),
         w = IF ok THEN StoredOnce(v, sub.num) ELSE v
  PROVE  PumpInv(c, aiMem, w)
<1> DEFINE k == d.head - d.chead + 1
           L == Len(v.open)
<1>1. /\ d.head \in Nat /\ d.tail \in Nat /\ d.chead \in Nat /\ d.ctail = d.head
      /\ v.tail \in Nat /\ v.rung \in Nat /\ v.tail < AiSpan /\ d.tail < AiSpan
      /\ d.chead <= d.head /\ d.head < d.chead + AiEntries /\ d.budget \in Nat
      /\ AiEntries \in Nat \ {0} /\ AiSpan \in Nat \ {0} /\ L \in Nat
  BY DeviceFields, DriverFields, AiConstants DEF CountersInOrder
<1>2. k \in 1 .. L /\ SlotOf(d, k) = d.head % AiEntries /\ ~Answered(d, k)
      /\ \A i \in 1 .. L : Answered(d, i) <=> i < k
  <2>1. L + d.chead = LastTail(d, v) /\ LastTail(d, v) \in Nat
    <3>1. L + d.chead = LastTail(d, v)
      BY DEF OpenInPlace
    <3> QED BY ONLY <3>1, <1>1
  <2>2. (d.chead + k) - 1 = d.head /\ k \in 1 .. L /\ d.chead \in Nat
    <3>1. LastTail(d, v) > d.head
      BY ONLY <1>1, <2>1, d.head < LastTail(d, v)
    <3> QED BY ONLY <3>1, <1>1, <2>1
  <2> HIDE DEF k, L
  <2>3. SlotOf(d, k) = d.head % AiEntries
    BY ONLY <2>2 DEF SlotOf
  <2>4. ~Answered(d, k) /\ \A i \in 1 .. L : Answered(d, i) <=> i < k
    <3>1. d.head \in Nat /\ k \in Nat
      BY ONLY <1>1, <2>2
    <3> QED BY ONLY <3>1, <2>2 DEF Answered
  <2> QED BY ONLY <2>2, <2>3, <2>4
<1>3. v.open[k] = sub.num /\ sub.num \in Numbers
      /\ \A i \in 1 .. L : v.open[i] \in Numbers /\ (i # k => v.open[i] # sub.num)
  BY <1>2, OpenFacts DEF OpenInPlace
<1>4. sub \in AiSubs /\ d.head % AiEntries \in Slots
  BY <1>1, AiSizes DEF AiMemories
<1>5. /\ c \in AiDevices
      /\ c.tail = d.tail /\ c.chead = d.chead /\ c.stage = "idle" /\ c.ctail = c.head
      /\ c.irq # {}
      /\ \/ aiMem.badSlot \in Slots /\ c.head = d.head /\ c.comps = d.comps /\ c.stopped
         \/ /\ c.head = d.head + 1 /\ c.budget = d.budget /\ c.stopped = d.stopped
            /\ c.comps = [d.comps EXCEPT ![d.head % AiEntries] = [num |-> sub.num, ok |-> ok]]
  <2>1. d.ctail + 1 < AiSpan /\ d.head = d.ctail /\ d.chead <= d.ctail /\ d.ctail < d.chead + AiEntries
    BY <1>1
  <2> QED BY ONLY d \in AiDevices, ok \in BOOLEAN, aiMem \in AiMemories, c = Completed(d, sub, ok),
              <1>4, <2>1, CompletedFacts
<1>6. /\ w \in AiDrivers
      /\ w.tail = v.tail /\ w.chead = v.chead /\ w.ctail = v.ctail /\ w.open = v.open
      /\ w.handling = v.handling /\ w.last = v.last /\ w.rung = v.rung
      /\ \A m \in Numbers : m # sub.num => w.stored[m] = v.stored[m]
      /\ ok => w.stored[sub.num] > 0 /\ (w.stored[sub.num] > 1 => v.stored[sub.num] > 0)
      /\ ~ok => w = v
  <2>1. CASE ok
    <3>1. w = StoredOnce(v, sub.num)
      BY <2>1
    <3> QED BY ONLY v \in AiDrivers, <1>3, <2>1, <3>1, StoredOnceFacts
  <2>2. CASE ~ok
    <3>1. w = v
      BY <2>2
    <3> QED BY ONLY v \in AiDrivers, <2>2, <3>1
  <2> QED BY ONLY <2>1, <2>2
<1>7. v.stored[sub.num] > 0 => aiMem.badSlot \in Slots /\ sub.kind = "good"
  BY ONLY StoresKnown(d, aiMem, v), sub = aiMem.subs[d.head % AiEntries], <1>2, <1>3 DEF StoresKnown
<1>8. v.stored \in [Numbers -> 0 .. 2] /\ w.stored \in [Numbers -> 0 .. 2]
  BY ONLY <1>6, v \in AiDrivers, DriverFields
<1>17. /\ L + d.chead = LastTail(d, v)
       /\ \A i \in 1 .. L :
            /\ Answered(d, i) => v.open[i] = d.comps[SlotOf(d, i)].num
            /\ ~Answered(d, i) => v.open[i] = aiMem.subs[SlotOf(d, i)].num
  BY ONLY OpenInPlace(d, aiMem, v) DEF OpenInPlace
<1>18. /\ \A n \in Numbers : n > v.last => v.stored[n] = 0
       /\ \A i \in 1 .. L :
            /\ v.stored[v.open[i]] > 1 => aiMem.badSlot \in Slots
            /\ Answered(d, i) => (d.comps[SlotOf(d, i)].ok <=> v.stored[v.open[i]] > 0)
            /\ ~Answered(d, i) /\ v.stored[v.open[i]] > 0 =>
                 aiMem.badSlot \in Slots /\ aiMem.subs[SlotOf(d, i)].kind = "good"
  BY ONLY StoresKnown(d, aiMem, v) DEF StoresKnown
<1>19. sub.num <= v.last
  BY ONLY v \in AiDrivers, OpenNumbered(v), <1>2, <1>3, OpenFacts
<1>20. w.open = v.open /\ Len(w.open) = L
  BY ONLY <1>6
<1> HIDE DEF k, L
<1>10. OpenNumbered(w)
  BY ONLY OpenNumbered(v), <1>6 DEF OpenNumbered
<1>11. AnswersSeen(c, w)
  BY ONLY <1>5 DEF AnswersSeen
<1>12. ActiveIsHead(c, aiMem, w)
  BY ONLY <1>5 DEF ActiveIsHead
<1>13. \A n \in Numbers : n > w.last => w.stored[n] = 0
  <2> TAKE n \in Numbers
  <2>1. ASSUME n > v.last PROVE w.stored[n] = v.stored[n]
    <3>1. n # sub.num
      BY ONLY <1>3, <1>19, <2>1, v \in AiDrivers, n \in Numbers, DriverFields DEF Numbers
    <3> QED BY ONLY <1>6, <3>1, n \in Numbers
  <2> QED BY ONLY <1>6, <1>18, <2>1, n \in Numbers
<1>14. ASSUME NEW i \in 1 .. L
       PROVE  w.stored[v.open[i]] > 1 => aiMem.badSlot \in Slots
  <2>1. CASE i = k
    <3>1. ok \/ w = v
      BY <1>6
    <3>2. CASE ok
      BY ONLY <1>3, <1>6, <1>7, <2>1, <3>2
    <3>3. CASE w = v
      BY ONLY <1>18, <3>3, i \in 1 .. L
    <3> QED BY <3>1, <3>2, <3>3
  <2>2. CASE i # k
    BY ONLY <1>3, <1>6, <1>18, <2>2, i \in 1 .. L
  <2> QED BY <2>1, <2>2
<1>15. CASE aiMem.badSlot \in Slots /\ c.head = d.head /\ c.comps = d.comps /\ c.stopped
  <2>1. CountersInOrder(c, w) /\ LastTail(c, w) = LastTail(d, v)
    <3>1. LastTail(c, w) = LastTail(d, v)
      BY ONLY <1>5, <1>6, <1>15 DEF LastTail
    <3> QED BY ONLY CountersInOrder(d, v), <1>5, <1>6, <1>15, <3>1 DEF CountersInOrder
  <2>2. \A i : SlotOf(c, i) = SlotOf(d, i) /\ (Answered(c, i) <=> Answered(d, i))
    BY ONLY <1>5, <1>15 DEF SlotOf, Answered
  <2>3. OpenInPlace(c, aiMem, w)
    <3>1. \A i \in 1 .. L :
            v.open[i] = IF Answered(c, i) THEN c.comps[SlotOf(c, i)].num
                        ELSE aiMem.subs[SlotOf(c, i)].num
      BY ONLY <1>15, <1>17, <2>2
    <3> QED BY ONLY <1>5, <1>17, <1>20, <2>1, <3>1 DEF OpenInPlace
  <2>4. BudgetCovers(c, w)
    <3>1. d.head <= d.tail => v.rung <= d.tail
      OBVIOUS
    <3> QED BY ONLY <1>5, <1>6, <1>15, <3>1 DEF BudgetCovers
  <2>5. ASSUME NEW i \in 1 .. L
        PROVE  /\ Answered(c, i) => (c.comps[SlotOf(c, i)].ok <=> w.stored[v.open[i]] > 0)
               /\ ~Answered(c, i) /\ w.stored[v.open[i]] > 0 =>
                    aiMem.badSlot \in Slots /\ aiMem.subs[SlotOf(c, i)].kind = "good"
    <3>1. CASE i = k
      <4>1. ~Answered(c, i) /\ aiMem.subs[SlotOf(c, i)] = sub
        BY ONLY <1>2, <2>2, <3>1, sub = aiMem.subs[d.head % AiEntries]
      <4>2. w.stored[v.open[i]] > 0 => sub.kind = "good"
        BY ONLY <1>3, <1>6, <1>7, <3>1, ok <=> sub.kind = "good", ok \in BOOLEAN
      <4> QED BY ONLY <1>15, <4>1, <4>2
    <3>2. CASE i # k
      <4>1. w.stored[v.open[i]] = v.stored[v.open[i]]
        BY ONLY <1>3, <1>6, <3>2, i \in 1 .. L
      <4> QED BY ONLY <1>15, <1>18, <2>2, <4>1, i \in 1 .. L
    <3> QED BY <3>1, <3>2
  <2>6. StoresKnown(c, aiMem, w)
    BY ONLY <1>13, <1>14, <1>20, <2>5 DEF StoresKnown
  <2> QED BY ONLY aiMem \in AiMemories, <1>5, <1>6, <1>10, <1>11, <1>12, <2>1, <2>3, <2>4, <2>6
          DEF PumpInv
<1>16. CASE /\ c.head = d.head + 1 /\ c.budget = d.budget /\ c.stopped = d.stopped
            /\ c.comps = [d.comps EXCEPT ![d.head % AiEntries] = [num |-> sub.num, ok |-> ok]]
  <2>1. CountersInOrder(c, w) /\ LastTail(c, w) = LastTail(d, v)
    <3>1. LastTail(c, w) = LastTail(d, v) /\ (w.tail < c.head <=> v.tail < d.head)
      BY ONLY <1>1, <1>5, <1>6, <1>16, d.head < LastTail(d, v) DEF LastTail
    <3>2. c.tail < c.head <=> d.tail < d.head
      BY ONLY <1>1, <1>5, <1>16, d.tail # d.head
    <3>3. LastTail(d, v) \in Nat
      BY ONLY <1>1 DEF LastTail
    <3>4. d.tail < d.head \/ d.tail >= d.head
      BY ONLY <1>1
    <3>5. c.tail \in Nat /\ c.head \in Nat
      BY ONLY <1>1, <1>5, <1>16
    <3>6. v.chead = d.chead /\ v.chead <= v.ctail /\ v.ctail <= d.ctail
          /\ (v.tail < d.head => v.tail = 0) /\ LastTail(d, v) <= d.head + AiEntries
          /\ (d.tail < d.head => d.tail = v.tail)
          /\ (d.tail >= d.head => d.tail <= LastTail(d, v))
      BY ONLY CountersInOrder(d, v) DEF CountersInOrder
    <3>7. v.ctail \in Nat
      BY ONLY v \in AiDrivers, DriverFields
    <3>8. /\ c.ctail = c.head /\ w.chead = c.chead
          /\ w.chead <= w.ctail /\ w.ctail <= c.ctail /\ c.ctail <= c.chead + AiEntries
      BY ONLY <1>1, <1>5, <1>6, <1>16, <3>6, <3>7
    <3>9. LastTail(c, w) <= c.head + AiEntries
      BY ONLY <1>1, <1>16, <3>1, <3>3, <3>6
    <3>10. /\ w.tail < c.head => w.tail = 0
           /\ c.tail < c.head => c.tail = w.tail
           /\ c.tail >= c.head => c.tail <= LastTail(c, w)
      BY ONLY <1>1, <1>5, <1>6, <3>1, <3>2, <3>4, <3>5, <3>6
    <3> QED BY ONLY <3>1, <3>8, <3>9, <3>10 DEF CountersInOrder
  <2>2. \A i : SlotOf(c, i) = SlotOf(d, i)
    BY ONLY <1>5 DEF SlotOf
  <2>3. \A i \in 1 .. L : Answered(c, i) <=> i <= k
    <3>1. k = d.head - d.chead + 1
      BY DEF k
    <3> QED BY ONLY <1>1, <1>5, <1>16, <3>1 DEF Answered
  <2>4. ASSUME NEW i \in 1 .. L, i < k PROVE c.comps[SlotOf(d, i)] = d.comps[SlotOf(d, i)]
    <3>1. d.chead + i - 1 \in Nat /\ d.chead + i - 1 < d.head
          /\ d.head < (d.chead + i - 1) + AiEntries
      <4>1. k = d.head - d.chead + 1
        BY DEF k
      <4> QED BY ONLY <1>1, <2>4, <4>1
    <3>2. SlotOf(d, i) # d.head % AiEntries
      BY ONLY <1>1, <3>1, SlotsApart DEF SlotOf
    <3>3. d.comps \in [Slots -> [num : Nat, ok : BOOLEAN]] /\ SlotOf(d, i) \in Slots
      BY ONLY d \in AiDevices, DeviceFields, <3>1, AiSizes DEF SlotOf
    <3> QED BY ONLY <1>16, <3>2, <3>3
  <2>5. c.comps[SlotOf(d, k)] = [num |-> sub.num, ok |-> ok]
    <3>1. d.comps \in [Slots -> [num : Nat, ok : BOOLEAN]]
      BY ONLY d \in AiDevices, DeviceFields
    <3> QED BY ONLY <1>2, <1>4, <1>16, <3>1
  <2>6. OpenInPlace(c, aiMem, w)
    <3>1. ASSUME NEW i \in 1 .. L
          PROVE  v.open[i] = IF Answered(c, i) THEN c.comps[SlotOf(c, i)].num
                             ELSE aiMem.subs[SlotOf(c, i)].num
      <4>1. CASE i = k
        <5>1. Answered(c, i)
          BY ONLY <1>1, <1>2, <2>3, <4>1
        <5> QED BY ONLY <1>3, <2>2, <2>5, <4>1, <5>1
      <4>2. CASE i < k
        <5>1. Answered(d, i) /\ Answered(c, i)
          BY ONLY <1>1, <1>2, <2>3, <4>2, i \in 1 .. L
        <5> QED BY ONLY <1>17, <2>2, <2>4, <4>2, <5>1, i \in 1 .. L
      <4>3. CASE i > k
        <5>1. ~Answered(d, i) /\ ~Answered(c, i)
          BY ONLY <1>1, <1>2, <2>3, <4>3, i \in 1 .. L
        <5> QED BY ONLY <1>17, <2>2, <5>1, i \in 1 .. L
      <4>4. i \in Nat /\ k \in Nat
        BY ONLY <1>1, <1>2, i \in 1 .. L
      <4>5. i = k \/ i < k \/ i > k
        BY ONLY <4>4
      <4> QED BY ONLY <4>1, <4>2, <4>3, <4>5
    <3> QED BY ONLY <1>5, <1>17, <1>20, <2>1, <3>1 DEF OpenInPlace
  <2>7. BudgetCovers(c, w)
    <3>1. ASSUME c.head <= c.tail
          PROVE  /\ w.rung <= c.tail
                 /\ ~c.stopped => c.budget >= BoundedDepth(c.head, w.rung)
      <4>1. d.head <= d.tail /\ v.rung <= d.tail /\ d.tail <= d.head + AiEntries
        <5>1. d.head <= d.tail
          BY ONLY <1>1, <1>5, <1>16, <3>1
        <5>2. LastTail(d, v) <= d.head + AiEntries /\ d.tail <= LastTail(d, v)
          BY ONLY <5>1, <1>1, CountersInOrder(d, v) DEF CountersInOrder
        <5>3. v.rung <= d.tail
          BY <5>1
        <5>4. LastTail(d, v) \in Nat
          BY ONLY <1>1 DEF LastTail
        <5> QED BY ONLY <1>1, <5>1, <5>2, <5>3, <5>4
      <4>2. ~d.stopped => d.budget + 1 >= BoundedDepth(d.head, v.rung)
        BY <4>1
      <4>3. ~d.stopped => d.budget >= BoundedDepth(d.head + 1, v.rung)
        BY ONLY <1>1, <4>1, <4>2 DEF BoundedDepth
      <4> QED BY ONLY <1>5, <1>6, <1>16, <4>1, <4>3
    <3>2. c.stage = "idle" /\ c.budget \in Nat /\ c.budget + 0 = c.budget
      BY ONLY <1>1, <1>5, <1>16
    <3> QED BY ONLY <3>1, <3>2 DEF BudgetCovers
  <2>8. ASSUME NEW i \in 1 .. L
        PROVE  /\ Answered(c, i) => (c.comps[SlotOf(c, i)].ok <=> w.stored[v.open[i]] > 0)
               /\ ~Answered(c, i) /\ w.stored[v.open[i]] > 0 =>
                    aiMem.badSlot \in Slots /\ aiMem.subs[SlotOf(c, i)].kind = "good"
    <3>1. CASE i = k
      <4>1. ok <=> w.stored[sub.num] > 0
        <5>1. v.stored[sub.num] \in 0 .. 2 /\ w.stored[sub.num] \in 0 .. 2
          BY ONLY <1>3, <1>8
        <5>2. ~ok => v.stored[sub.num] = 0
          BY ONLY <1>7, <5>1, ok <=> sub.kind = "good", ok \in BOOLEAN
        <5>3. CASE ok
          BY ONLY <1>6, <5>3
        <5>4. CASE ~ok
          BY ONLY <1>6, <5>2, <5>4
        <5> QED BY <5>3, <5>4
      <4>2. Answered(c, i)
        BY ONLY <1>1, <1>2, <2>3, <3>1
      <4>3. c.comps[SlotOf(c, i)].ok = ok
        BY ONLY <2>2, <2>5, <3>1
      <4>4. w.stored[v.open[i]] = w.stored[sub.num]
        BY ONLY <1>3, <3>1
      <4>5. c.comps[SlotOf(c, i)].ok <=> w.stored[v.open[i]] > 0
        BY ONLY <4>1, <4>3, <4>4
      <4> QED BY ONLY <4>2, <4>5
    <3>2. CASE i < k
      <4>1. Answered(d, i) /\ Answered(c, i) /\ i # k
        BY ONLY <1>1, <1>2, <2>3, <3>2, i \in 1 .. L
      <4>2. w.stored[v.open[i]] = v.stored[v.open[i]]
        BY ONLY <1>3, <1>6, <4>1, i \in 1 .. L
      <4> QED BY ONLY <1>18, <2>2, <2>4, <3>2, <4>1, <4>2, i \in 1 .. L
    <3>3. CASE i > k
      <4>1. ~Answered(d, i) /\ ~Answered(c, i) /\ i # k
        BY ONLY <1>1, <1>2, <2>3, <3>3, i \in 1 .. L
      <4>2. w.stored[v.open[i]] = v.stored[v.open[i]]
        BY ONLY <1>3, <1>6, <4>1, i \in 1 .. L
      <4> QED BY ONLY <1>18, <2>2, <4>1, <4>2, i \in 1 .. L
    <3>4. i = k \/ i < k \/ i > k
      BY ONLY <1>1, <1>2, i \in 1 .. L
    <3> QED BY ONLY <3>1, <3>2, <3>3, <3>4
  <2>9. StoresKnown(c, aiMem, w)
    BY ONLY <1>13, <1>14, <1>20, <2>8 DEF StoresKnown
  <2> QED BY <1>5, <1>6, <1>10, <1>11, <1>12, <2>1, <2>6, <2>7, <2>9 DEF PumpInv
<1> QED BY <1>5, <1>15, <1>16

\* A device that differs in its budget, its fault, its stage and line only.
LEMMA PaidFacts ==
  ASSUME NEW d \in AiDevices, NEW b \in 0 .. AiEntries, NEW e, e = [d EXCEPT !.budget = b]
  PROVE  /\ e \in AiDevices /\ e.budget = b
         /\ e.head = d.head /\ e.tail = d.tail /\ e.chead = d.chead /\ e.ctail = d.ctail
         /\ e.stage = d.stage /\ e.active = d.active /\ e.irq = d.irq /\ e.stopped = d.stopped
         /\ e.comps = d.comps
BY DEF AiDevices

\* A submission that begins keeps the invariant (begin_submission).
LEMMA BegunKeeps ==
  ASSUME NEW d \in AiDevices, NEW v \in AiDrivers, PumpInv(d, aiMem, v), d.stage = "idle", d.budget > 0
  PROVE  PumpInv(Begun(d), aiMem, v)
<1> DEFINE sub == aiMem.subs[d.head % AiEntries]
           paid == [d EXCEPT !.budget = d.budget - 1]
<1>1. /\ d.head \in Nat /\ d.tail \in Nat /\ d.chead \in Nat /\ d.ctail = d.head
      /\ v.tail \in Nat /\ v.rung \in Nat /\ v.tail < AiSpan /\ d.tail < AiSpan
      /\ d.chead <= d.head /\ d.budget \in Nat /\ d.budget - 1 \in 0 .. AiEntries
      /\ AiEntries \in Nat \ {0} /\ AiSpan \in Nat \ {0}
  BY DeviceFields, DriverFields, AiConstants DEF PumpInv, CountersInOrder
<1>2. sub \in AiSubs
  BY <1>1, AiSizes DEF AiMemories, PumpInv
<1>3. CASE PendingDepth(d) = 0
  <2> DEFINE e == [d EXCEPT !.budget = 0]
  <2>1. Begun(d) = e
    BY <1>3 DEF Begun
  <2>2. /\ e \in AiDevices /\ e.budget = 0
        /\ e.head = d.head /\ e.tail = d.tail /\ e.chead = d.chead /\ e.ctail = d.ctail
        /\ e.stage = d.stage /\ e.active = d.active /\ e.irq = d.irq /\ e.stopped = d.stopped
        /\ e.comps = d.comps
    BY <1>1, PaidFacts
  <2> HIDE DEF e
  <2>3. CountersInOrder(e, v) /\ ActiveIsHead(e, aiMem, v)
    BY ONLY PumpInv(d, aiMem, v), <2>2 DEF PumpInv, CountersInOrder, ActiveIsHead, LastTail
  <2>4. OpenInPlace(e, aiMem, v) /\ StoresKnown(e, aiMem, v) /\ AnswersSeen(e, v)
    BY ONLY PumpInv(d, aiMem, v), <2>2 DEF PumpInv, OpenInPlace, StoresKnown, AnswersSeen, LastTail, SlotOf, Answered
  <2>5. BudgetCovers(e, v)
    <3>1. ASSUME d.head <= d.tail PROVE v.rung <= d.tail /\ BoundedDepth(d.head, v.rung) = 0
      <4>1. v.rung <= d.tail
        BY <3>1 DEF PumpInv, BudgetCovers
      <4>2. d.tail <= d.head
        BY <1>1, <1>3, <3>1 DEF PendingDepth, BoundedDepth
      <4> QED BY ONLY <1>1, <4>1, <4>2 DEF BoundedDepth
    <3> QED BY <1>1, <2>2, <3>1 DEF BudgetCovers
  <2> QED BY <2>1, <2>2, <2>3, <2>4, <2>5 DEF PumpInv
<1>4. CASE PendingDepth(d) # 0 /\ ~CompletionHasSpace(d)
  <2> DEFINE e == [d EXCEPT !.irq = d.irq \cup {"fault"}, !.budget = 0, !.stopped = TRUE]
  <2>1. Begun(d) = e
    BY <1>4 DEF Begun, Faulted, AiDevices
  <2>2. /\ e \in AiDevices /\ e.stopped /\ e.irq # {}
        /\ e.head = d.head /\ e.tail = d.tail /\ e.chead = d.chead /\ e.ctail = d.ctail
        /\ e.stage = d.stage /\ e.active = d.active /\ e.comps = d.comps
    <3>1. d.irq \cup {"fault"} \in SUBSET {"completion", "fault"} /\ 0 \in 0 .. AiEntries
      BY <1>1, DeviceFields
    <3>2. e \in AiDevices
      BY ONLY d \in AiDevices, <3>1 DEF AiDevices
    <3> QED BY <3>2 DEF AiDevices
  <2> HIDE DEF e
  <2>3. CountersInOrder(e, v) /\ ActiveIsHead(e, aiMem, v)
    BY ONLY PumpInv(d, aiMem, v), <2>2 DEF PumpInv, CountersInOrder, ActiveIsHead, LastTail
  <2>4. OpenInPlace(e, aiMem, v) /\ StoresKnown(e, aiMem, v) /\ AnswersSeen(e, v)
    BY ONLY PumpInv(d, aiMem, v), <2>2 DEF PumpInv, OpenInPlace, StoresKnown, AnswersSeen, LastTail, SlotOf, Answered
  <2>5. BudgetCovers(e, v)
    BY ONLY PumpInv(d, aiMem, v), <2>2 DEF PumpInv, BudgetCovers
  <2> QED BY <2>1, <2>2, <2>3, <2>4, <2>5 DEF PumpInv
<1>5. CASE PendingDepth(d) # 0 /\ CompletionHasSpace(d)
  <2>1. /\ paid \in AiDevices /\ paid.budget = d.budget - 1
        /\ paid.head = d.head /\ paid.tail = d.tail /\ paid.chead = d.chead
        /\ paid.ctail = d.ctail /\ paid.stage = d.stage /\ paid.active = d.active
        /\ paid.irq = d.irq /\ paid.stopped = d.stopped /\ paid.comps = d.comps
    BY <1>1, PaidFacts
  <2>2. d.head < d.tail
    BY <1>1, <1>5 DEF PendingDepth, BoundedDepth
  <2>3. d.head < LastTail(d, v)
    BY <1>1, <2>2 DEF PumpInv, CountersInOrder, LastTail
  <2>4. d.ctail < d.chead + AiEntries
    BY <1>1, <1>5 DEF CompletionHasSpace, BoundedDepth
  <2>5. CountersInOrder(paid, v) /\ LastTail(paid, v) = LastTail(d, v)
    BY ONLY PumpInv(d, aiMem, v), <2>1 DEF PumpInv, CountersInOrder, LastTail
  <2>6. OpenInPlace(paid, aiMem, v) /\ StoresKnown(paid, aiMem, v) /\ AnswersSeen(paid, v)
    BY ONLY PumpInv(d, aiMem, v), <2>1 DEF PumpInv, OpenInPlace, StoresKnown, AnswersSeen, LastTail, SlotOf, Answered
  <2>7. v.rung <= d.tail /\ (~d.stopped => d.budget >= BoundedDepth(d.head, v.rung))
    <3>1. d.head <= d.tail /\ d.budget + 0 = d.budget
      BY <1>1, <2>2
    <3> QED BY <3>1 DEF PumpInv, BudgetCovers
  <2>8. aiMem \in AiMemories /\ OpenNumbered(v)
    BY DEF PumpInv
  <2>9. d.head + 1 < AiSpan /\ d.tail # d.head
    BY <1>1, <2>2
  <2> DEFINE e == [paid EXCEPT !.active = sub, !.stage = "load"]
             c == Completed(paid, sub, FALSE)
  <2>10. Begun(d) = IF sub.kind = "invalid" THEN c ELSE e
    BY <1>5 DEF Begun
  <2>11. CASE sub.kind = "invalid"
    <3>1. PumpInv(c, aiMem, v)
      <4>1. /\ paid.head + 1 < AiSpan /\ paid.ctail < paid.chead + AiEntries
            /\ paid.head < LastTail(paid, v) /\ paid.tail # paid.head
            /\ sub = aiMem.subs[paid.head % AiEntries]
        BY <2>1, <2>3, <2>4, <2>5, <2>9
      <4>2. v.rung <= paid.tail /\ (~paid.stopped => paid.budget + 1 >= BoundedDepth(paid.head, v.rung))
        BY <1>1, <2>1, <2>7
      <4>3. FALSE <=> sub.kind = "good"
        BY <2>11
      <4> HIDE DEF paid, sub
      <4>4. \A cc, w : cc = Completed(paid, sub, FALSE) /\ w = (IF FALSE THEN StoredOnce(v, sub.num) ELSE v)
                       => PumpInv(cc, aiMem, w)
        BY ONLY v \in AiDrivers, <2>1, <2>5, <2>6, <2>8, <4>1, <4>2, <4>3, AnswerKeeps
      <4> QED BY <4>4
    <3> QED BY <2>10, <2>11, <3>1
  <2>12. CASE sub.kind # "invalid"
    <3>1. /\ e \in AiDevices /\ e.budget = d.budget - 1 /\ e.stage = "load" /\ e.active = sub
          /\ e.head = d.head /\ e.tail = d.tail /\ e.chead = d.chead /\ e.ctail = d.ctail
          /\ e.irq = d.irq /\ e.stopped = d.stopped /\ e.comps = d.comps
      BY ONLY <1>2, <2>1 DEF AiDevices
    <3>2. e.active.kind # "invalid" /\ e.active = aiMem.subs[e.head % AiEntries]
      BY <2>12, <3>1
    <3> HIDE DEF e, sub
    <3>3. CountersInOrder(e, v) /\ LastTail(e, v) = LastTail(d, v)
      BY ONLY PumpInv(d, aiMem, v), <3>1 DEF PumpInv, CountersInOrder, LastTail
    <3>4. OpenInPlace(e, aiMem, v) /\ StoresKnown(e, aiMem, v) /\ AnswersSeen(e, v)
      BY ONLY PumpInv(d, aiMem, v), <3>1 DEF PumpInv, OpenInPlace, StoresKnown, AnswersSeen, LastTail, SlotOf, Answered
    <3>5. ActiveIsHead(e, aiMem, v)
      BY ONLY <2>3, <2>4, <2>9, <3>1, <3>2, <3>3 DEF ActiveIsHead
    <3>6. BudgetCovers(e, v)
      BY ONLY <1>1, <2>7, <3>1 DEF BudgetCovers
    <3> QED BY <2>8, <2>10, <2>12, <3>1, <3>3, <3>4, <3>5, <3>6 DEF PumpInv
  <2> QED BY <2>11, <2>12
<1> QED BY <1>3, <1>4, <1>5

\* So do all that a pump begins (pump_queue).
LEMMA BeginNextKeepsInv ==
  ASSUME NEW d \in AiDevices, NEW v \in AiDrivers, PumpInv(d, aiMem, v)
  PROVE  PumpInv(BeginNext(d), aiMem, v)
<1> DEFINE S == {e \in AiDevices : PumpInv(e, aiMem, v)}
<1>1. d \in S
  OBVIOUS
<1>2. ASSUME NEW e \in S, e.stage = "idle", e.budget > 0 PROVE Begun(e) \in S
  <2>1. PumpInv(Begun(e), aiMem, v)
    BY <1>2, BegunKeeps
  <2> QED BY <2>1 DEF PumpInv
<1> HIDE DEF S
<1>3. BeginNext(d) \in S
  BY <1>1, <1>2, BeginNextKeeps
<1> QED BY <1>3 DEF S

\* The driver's history after a call of the pump.
StoredBy(d, v, finished) ==
  IF d.stage = "store" /\ finished THEN StoredOnce(v, d.active.num) ELSE v

\* A submission that ends while it loads, or with its store, keeps the invariant.
LEMMA EndKeeps ==
  ASSUME NEW d \in AiDevices, NEW v \in AiDrivers, PumpInv(d, aiMem, v), d.stage # "idle",
         NEW ok \in BOOLEAN, ok <=> d.active.kind = "good",
         NEW w, w = IF ok THEN StoredOnce(v, d.active.num) ELSE v
  PROVE  PumpInv(BeginNext(Completed(d, d.active, ok)), aiMem, w)
<1> DEFINE c == Completed(d, d.active, ok)
<1>1. PumpInv(c, aiMem, w)
  <2>1. /\ aiMem \in AiMemories /\ CountersInOrder(d, v) /\ OpenNumbered(v) /\ OpenInPlace(d, aiMem, v)
        /\ StoresKnown(d, aiMem, v) /\ AnswersSeen(d, v)
    BY DEF PumpInv
  <2>2. /\ d.head + 1 < AiSpan /\ d.ctail < d.chead + AiEntries /\ d.head < LastTail(d, v)
        /\ d.tail # d.head /\ d.active = aiMem.subs[d.head % AiEntries]
    BY DEF PumpInv, ActiveIsHead
  <2>3. d.head <= d.tail =>
          v.rung <= d.tail /\ (~d.stopped => d.budget + 1 >= BoundedDepth(d.head, v.rung))
    BY DEF PumpInv, BudgetCovers
  <2>4. \A cc : cc = Completed(d, d.active, ok) => PumpInv(cc, aiMem, w)
    BY ONLY d \in AiDevices, v \in AiDrivers, ok \in BOOLEAN, ok <=> d.active.kind = "good",
            w = IF ok THEN StoredOnce(v, d.active.num) ELSE v, <2>1, <2>2, <2>3, AnswerKeeps
  <2> QED BY <2>4
<1> HIDE DEF c
<1>2. c \in AiDevices /\ w \in AiDrivers
  BY <1>1 DEF PumpInv
<1>3. PumpInv(BeginNext(c), aiMem, w)
  BY <1>1, <1>2, BeginNextKeepsInv
<1> QED BY <1>3 DEF c

\* A stage that ends without ending the submission.
LEMMA StageKeeps ==
  ASSUME NEW d \in AiDevices, NEW v \in AiDrivers, PumpInv(d, aiMem, v), d.stage # "idle",
         d.active.kind = "good", NEW s \in {"compute", "store"}
  PROVE  PumpInv([d EXCEPT !.stage = s], aiMem, v)
<1> DEFINE e == [d EXCEPT !.stage = s]
<1>1. /\ e \in AiDevices /\ e.budget = d.budget /\ e.stage = s /\ e.active = d.active
      /\ e.head = d.head /\ e.tail = d.tail /\ e.chead = d.chead /\ e.ctail = d.ctail
      /\ e.irq = d.irq /\ e.stopped = d.stopped /\ e.comps = d.comps
  BY DEF AiDevices
<1> HIDE DEF e
<1>2. CountersInOrder(e, v) /\ ActiveIsHead(e, aiMem, v)
  BY ONLY PumpInv(d, aiMem, v), d.stage # "idle", d.active.kind = "good", <1>1
     DEF PumpInv, CountersInOrder, ActiveIsHead, LastTail
<1>3. OpenInPlace(e, aiMem, v) /\ StoresKnown(e, aiMem, v) /\ AnswersSeen(e, v)
  BY ONLY PumpInv(d, aiMem, v), <1>1 DEF PumpInv, OpenInPlace, StoresKnown, AnswersSeen, LastTail, SlotOf, Answered
<1>4. BudgetCovers(e, v)
  BY ONLY PumpInv(d, aiMem, v), d.stage # "idle", s \in {"compute", "store"}, <1>1 DEF PumpInv, BudgetCovers
<1>5. PumpInv(e, aiMem, v)
  BY <1>1, <1>2, <1>3, <1>4 DEF PumpInv
<1> QED BY <1>5 DEF e

\* The pump keeps the invariant (pump_queue).
LEMMA PumpedKeeps ==
  ASSUME NEW d \in AiDevices, NEW v \in AiDrivers, PumpInv(d, aiMem, v), NEW finished \in BOOLEAN
  PROVE  PumpInv(Pumped(d, finished), aiMem, StoredBy(d, v, finished))
<1>1. d.stage \in {"idle", "load", "compute", "store"}
  BY DeviceFields
<1>2. CASE d.stage = "idle"
  BY <1>2, BeginNextKeepsInv DEF Pumped, StoredBy
<1>3. CASE d.stage # "idle" /\ ~finished
  BY <1>3 DEF Pumped, StoredBy
<1>4. CASE d.stage = "load" /\ finished
  <2>1. d.active.kind \in {"good", "fault"}
    BY <1>4, DeviceFields DEF PumpInv, ActiveIsHead, AiSubs
  <2>2. CASE d.active.kind = "fault"
    <3>1. PumpInv(BeginNext(Completed(d, d.active, FALSE)), aiMem, v)
      BY <1>4, <2>2, EndKeeps
    <3> QED BY <1>4, <2>2, <3>1 DEF Pumped, StoredBy
  <2>3. CASE d.active.kind = "good"
    <3>1. PumpInv([d EXCEPT !.stage = "compute"], aiMem, v)
      BY <1>4, <2>3, StageKeeps
    <3> QED BY <1>4, <2>3, <3>1 DEF Pumped, StoredBy
  <2> QED BY <2>1, <2>2, <2>3
<1>5. CASE d.stage = "compute" /\ finished
  <2>1. d.active.kind = "good"
    BY <1>5 DEF PumpInv, ActiveIsHead
  <2>2. PumpInv([d EXCEPT !.stage = "store"], aiMem, v)
    BY <1>5, <2>1, StageKeeps
  <2> QED BY <1>5, <2>2 DEF Pumped, StoredBy
<1>6. CASE d.stage = "store" /\ finished
  <2>1. d.active.kind = "good"
    BY <1>6 DEF PumpInv, ActiveIsHead
  <2>2. PumpInv(BeginNext(Completed(d, d.active, TRUE)), aiMem, StoredOnce(v, d.active.num))
    BY <1>6, <2>1, EndKeeps
  <2> QED BY <1>6, <2>2 DEF Pumped, StoredBy
<1> QED BY <1>1, <1>2, <1>3, <1>4, <1>5, <1>6

\* The line is nothing that the pump looks at.
LEMMA LinedKeeps ==
  ASSUME NEW d \in AiDevices, NEW v \in AiDrivers, PumpInv(d, aiMem, v)
  PROVE  PumpInv(Lined(d), aiMem, v) /\ (Lined(d).line <=> Lined(d).irq # {})
<1> DEFINE e == Lined(d)
<1>1. /\ e \in AiDevices /\ e.budget = d.budget /\ e.stage = d.stage /\ e.active = d.active
      /\ e.head = d.head /\ e.tail = d.tail /\ e.chead = d.chead /\ e.ctail = d.ctail
      /\ e.irq = d.irq /\ e.stopped = d.stopped /\ e.comps = d.comps /\ e.line = (d.irq # {})
  BY DEF AiDevices, Lined
<1> HIDE DEF e
<1>2. CountersInOrder(e, v) /\ ActiveIsHead(e, aiMem, v) /\ BudgetCovers(e, v)
  BY ONLY PumpInv(d, aiMem, v), <1>1 DEF PumpInv, CountersInOrder, ActiveIsHead, BudgetCovers, LastTail
<1>3. OpenInPlace(e, aiMem, v) /\ StoresKnown(e, aiMem, v) /\ AnswersSeen(e, v)
  BY ONLY PumpInv(d, aiMem, v), <1>1 DEF PumpInv, OpenInPlace, StoresKnown, AnswersSeen, LastTail, SlotOf, Answered
<1>4. PumpInv(e, aiMem, v)
  BY <1>1, <1>2, <1>3 DEF PumpInv
<1> QED BY <1>1, <1>4 DEF e

\* The invariant of the next state, in parts.
LEMMA AiInvPrimed ==
  ASSUME PumpInv(ai', aiMem', aiDrv'), ai'.line <=> ai'.irq # {}
  PROVE  AiInv'
BY DEF AiInv

\* The driver after a doorbell.
RungAt(v, t) == [v EXCEPT !.rung = t]

\* A doorbell only notes where the tail was.
LEMMA RungFacts ==
  ASSUME NEW v \in AiDrivers, NEW t \in 0 .. AiSpan - 1, NEW w, w = RungAt(v, t)
  PROVE  /\ w \in AiDrivers /\ w.rung = t
         /\ w.tail = v.tail /\ w.chead = v.chead /\ w.ctail = v.ctail /\ w.open = v.open
         /\ w.handling = v.handling /\ w.last = v.last /\ w.stored = v.stored
BY DEF AiDrivers, RungAt

\* A tick keeps the invariant (tick).
LEMMA AiTickPreserves ==
  ASSUME AiInv, NEW finished \in BOOLEAN, AiTick(finished) PROVE AiInv'
<1> DEFINE p == Pumped(ai, finished)
           w == StoredBy(ai, aiDrv, finished)
<1>1. ai \in AiDevices /\ aiDrv \in AiDrivers /\ PumpInv(ai, aiMem, aiDrv)
  BY DEF AiInv, PumpInv
<1>2. PumpInv(p, aiMem, w)
  BY <1>1, PumpedKeeps
<1>3. ai' = Lined(p) /\ aiDrv' = w /\ aiMem' = aiMem
  BY DEF AiTick, SegmentStored, StoredBy, StoredOnce
<1> HIDE DEF p, w
<1>4. p \in AiDevices /\ w \in AiDrivers
  BY <1>2 DEF PumpInv
<1>5. PumpInv(Lined(p), aiMem, w) /\ (Lined(p).line <=> Lined(p).irq # {})
  BY <1>2, <1>4, LinedKeeps
<1>6. PumpInv(ai', aiMem', aiDrv') /\ (ai'.line <=> ai'.irq # {})
  BY <1>3, <1>5
<1> QED BY <1>6, AiInvPrimed

\* A doorbell keeps the invariant: it grants no less than what is pending (ring_doorbell).
LEMMA DoorbellPreserves ==
  ASSUME AiInv, NEW finished \in BOOLEAN, Doorbell(finished) PROVE AiInv'
<1> DEFINE v == RungAt(aiDrv, ai.tail)
           b == IF ai.budget + PendingDepth(ai) > AiEntries THEN AiEntries
                ELSE ai.budget + PendingDepth(ai)
           d == [ai EXCEPT !.stopped = FALSE, !.budget = b]
<1>1. ai \in AiDevices /\ aiDrv \in AiDrivers /\ PumpInv(ai, aiMem, aiDrv)
  BY DEF AiInv, PumpInv
<1>2. /\ ai.head \in Nat /\ ai.tail \in Nat /\ ai.tail \in 0 .. AiSpan - 1 /\ ai.budget \in 0 .. AiEntries
      /\ AiEntries \in Nat /\ aiDrv.tail \in Nat /\ AiSpan \in Nat
  BY <1>1, DeviceFields, DriverFields, AiConstants
<1>3. /\ v \in AiDrivers /\ v.rung = ai.tail
      /\ v.tail = aiDrv.tail /\ v.chead = aiDrv.chead /\ v.ctail = aiDrv.ctail
      /\ v.open = aiDrv.open /\ v.handling = aiDrv.handling /\ v.last = aiDrv.last
      /\ v.stored = aiDrv.stored
  BY <1>1, <1>2, RungFacts
<1>4. PendingDepth(ai) \in 0 .. AiEntries /\ PendingDepth(ai) = BoundedDepth(ai.head, ai.tail)
      /\ b \in 0 .. AiEntries /\ b >= PendingDepth(ai)
  BY <1>2 DEF PendingDepth, BoundedDepth
<1> HIDE DEF b, v
<1>5. /\ d \in AiDevices /\ d.budget = b /\ d.stopped = FALSE
      /\ d.head = ai.head /\ d.tail = ai.tail /\ d.chead = ai.chead /\ d.ctail = ai.ctail
      /\ d.stage = ai.stage /\ d.active = ai.active /\ d.irq = ai.irq /\ d.comps = ai.comps
  BY <1>1, <1>4 DEF AiDevices
<1> HIDE DEF d
<1>6. ASSUME NEW e \in {ai, d}
      PROVE  /\ CountersInOrder(e, v) /\ ActiveIsHead(e, aiMem, v) /\ OpenNumbered(v)
             /\ OpenInPlace(e, aiMem, v) /\ StoresKnown(e, aiMem, v) /\ AnswersSeen(e, v)
             /\ e \in AiDevices
  <2>1. /\ e.head = ai.head /\ e.tail = ai.tail /\ e.chead = ai.chead /\ e.ctail = ai.ctail
        /\ e.stage = ai.stage /\ e.active = ai.active /\ e.irq = ai.irq /\ e.comps = ai.comps
        /\ e \in AiDevices
    BY <1>1, <1>5
  <2>2. CountersInOrder(e, v) /\ ActiveIsHead(e, aiMem, v) /\ OpenNumbered(v)
    BY ONLY <1>1, <1>3, <2>1 DEF PumpInv, CountersInOrder, ActiveIsHead, OpenNumbered, LastTail
  <2>3. OpenInPlace(e, aiMem, v) /\ StoresKnown(e, aiMem, v) /\ AnswersSeen(e, v)
    BY ONLY <1>1, <1>3, <2>1 DEF PumpInv, OpenInPlace, StoresKnown, AnswersSeen, LastTail, SlotOf, Answered
  <2> QED BY <2>1, <2>2, <2>3
<1>7. CASE PendingDepth(ai) = 0
  <2>1. ai' = Lined(ai) /\ aiDrv' = v /\ aiMem' = aiMem
    BY <1>7 DEF Doorbell, SegmentStored, v, RungAt
  <2>2. BudgetCovers(ai, v)
    BY <1>2, <1>3, <1>4, <1>7 DEF BudgetCovers
  <2>3. PumpInv(ai, aiMem, v)
    BY <1>1, <1>3, <1>6, <2>2 DEF PumpInv
  <2>4. PumpInv(Lined(ai), aiMem, v) /\ (Lined(ai).line <=> Lined(ai).irq # {})
    BY <1>1, <1>3, <2>3, LinedKeeps
  <2>5. PumpInv(ai', aiMem', aiDrv') /\ (ai'.line <=> ai'.irq # {})
    BY <2>1, <2>4
  <2> QED BY <2>5, AiInvPrimed
<1>8. CASE PendingDepth(ai) # 0
  <2> DEFINE p == Pumped(d, finished)
             w == StoredBy(d, v, finished)
  <2>1. ai' = Lined(p) /\ aiMem' = aiMem
    BY <1>8 DEF Doorbell, b, d
  <2>2. aiDrv' = w
    <3>1. aiDrv' = RungAt(SegmentStored(finished), ai.tail)
      BY <1>8 DEF Doorbell, RungAt
    <3>2. CASE d.stage = "store" /\ finished
      <4>1. SegmentStored(finished) = StoredOnce(aiDrv, d.active.num) /\ w = StoredOnce(v, d.active.num)
        BY <1>5, <3>2 DEF SegmentStored, StoredBy, StoredOnce
      <4> DEFINE s == [aiDrv.stored EXCEPT ![d.active.num] = IF @ = 2 THEN 2 ELSE @ + 1]
      <4>2. StoredOnce(aiDrv, d.active.num) = [aiDrv EXCEPT !.stored = s]
        BY <1>1 DEF StoredOnce, AiDrivers
      <4>3. StoredOnce(v, d.active.num) = [v EXCEPT !.stored = s]
        BY <1>3 DEF StoredOnce, AiDrivers
      <4> HIDE DEF s
      <4>4. RungAt([aiDrv EXCEPT !.stored = s], ai.tail) = [v EXCEPT !.stored = s]
        BY <1>1 DEF RungAt, AiDrivers, v
      <4> QED BY <3>1, <4>1, <4>2, <4>3, <4>4
    <3>3. CASE ~(d.stage = "store" /\ finished)
      BY <1>5, <3>1, <3>3 DEF SegmentStored, StoredBy, v
    <3> QED BY <3>2, <3>3
  <2>3. BudgetCovers(d, v)
    BY <1>2, <1>3, <1>4, <1>5 DEF BudgetCovers
  <2>4. PumpInv(d, aiMem, v)
    BY <1>1, <1>3, <1>6, <2>3 DEF PumpInv
  <2>5. PumpInv(p, aiMem, w)
    BY <1>3, <1>5, <2>4, PumpedKeeps
  <2> HIDE DEF p, w
  <2>6. p \in AiDevices /\ w \in AiDrivers
    BY <2>5 DEF PumpInv
  <2>7. PumpInv(Lined(p), aiMem, w) /\ (Lined(p).line <=> Lined(p).irq # {})
    BY <2>5, <2>6, LinedKeeps
  <2>8. PumpInv(ai', aiMem', aiDrv') /\ (ai'.line <=> ai'.irq # {})
    BY <2>1, <2>2, <2>7
  <2> QED BY <2>8, AiInvPrimed
<1> QED BY <1>7, <1>8

\* A reset device, configured or not, and a driver that starts anew.
LEMMA FreshQueuesInv ==
  ASSUME NEW d \in {ResetAi, [ResetAi EXCEPT !.ready = TRUE]}, NEW m \in AiMemories
  PROVE  PumpInv(d, m, FreshDriver) /\ (d.line <=> d.irq # {})
<1>1. /\ d \in AiDevices /\ d.stage = "idle" /\ d.irq = {} /\ d.line = FALSE /\ d.budget = 0
      /\ d.head = 0 /\ d.tail = 0 /\ d.chead = 0 /\ d.ctail = 0
  <2> DEFINE comps == [s \in Slots |-> [num |-> 0, ok |-> FALSE]]
  <2>1. comps \in [Slots -> [num : Nat, ok : BOOLEAN]] /\ NoSubmission \in AiSubs
        /\ 0 \in 0 .. AiSpan - 1 /\ 0 \in 0 .. AiEntries
    BY AiConstants DEF AiSubs, NoSubmission
  <2> HIDE DEF comps
  <2>2. ResetAi = [ready |-> FALSE, head |-> 0, tail |-> 0, chead |-> 0, ctail |-> 0, budget |-> 0,
                   active |-> NoSubmission, stage |-> "idle", irq |-> {}, line |-> FALSE,
                   stopped |-> FALSE, comps |-> comps]
    BY DEF ResetAi, comps
  <2>3. ResetAi \in AiDevices
    BY <2>1, <2>2 DEF AiDevices
  <2>4. [ResetAi EXCEPT !.ready = TRUE] \in AiDevices
    BY <2>3 DEF AiDevices
  <2>5. d \in AiDevices
    BY <2>3, <2>4
  <2> QED BY <2>2, <2>5
<1>2. /\ FreshDriver \in AiDrivers
      /\ FreshDriver.tail = 0 /\ FreshDriver.chead = 0 /\ FreshDriver.ctail = 0
      /\ FreshDriver.open = <<>> /\ FreshDriver.last = 0 /\ FreshDriver.rung = 0
      /\ \A n \in Numbers : FreshDriver.stored[n] = 0
  BY AiConstants DEF FreshDriver, AiDrivers
<1>3. Len(FreshDriver.open) = 0 /\ 1 .. 0 = {}
  BY <1>2
<1> DEFINE v == FreshDriver
<1> HIDE DEF v
<1>4. CountersInOrder(d, v) /\ ActiveIsHead(d, m, v) /\ LastTail(d, v) = 0
  BY <1>1, <1>2, AiConstants DEF CountersInOrder, ActiveIsHead, LastTail, v
<1>5. OpenNumbered(v) /\ OpenInPlace(d, m, v) /\ StoresKnown(d, m, v)
  BY <1>1, <1>2, <1>3, <1>4 DEF OpenNumbered, OpenInPlace, StoresKnown, v
<1>6. BudgetCovers(d, v) /\ AnswersSeen(d, v)
  <2>1. BoundedDepth(0, 0) = 0
    BY AiConstants DEF BoundedDepth
  <2> QED BY <1>1, <1>2, <2>1 DEF BudgetCovers, AnswersSeen, v
<1> QED BY <1>1, <1>2, <1>4, <1>5, <1>6 DEF PumpInv, v

\* The invariant holds at first.
LEMMA AiInitOK == AiInit => AiInv
<1> SUFFICES ASSUME AiInit PROVE AiInv
  OBVIOUS
<1>1. ai = ResetAi /\ aiDrv = FreshDriver
  BY DEF AiInit
<1>2. aiMem \in AiMemories
  BY AiConstants DEF AiInit, AiMemories, AiSubs, NoSubmission
<1> QED BY <1>1, <1>2, FreshQueuesInv DEF AiInv

\* A reset keeps the invariant (ai_accel_reset).
LEMMA AiResetPreserves == ASSUME AiInv, AiReset PROVE AiInv'
<1>1. ai' = ResetAi /\ aiDrv' = FreshDriver /\ aiMem' \in AiMemories
  BY DEF AiReset, AiInv, PumpInv
<1>2. PumpInv(ai', aiMem', FreshDriver) /\ (ai'.line <=> ai'.irq # {})
  BY <1>1, FreshQueuesInv
<1> QED BY <1>1, <1>2, AiInvPrimed

\* Configuring the queues keeps it (ai_accel_configure_queues).
LEMMA ConfigureQueuesPreserves ==
  ASSUME AiInv, NEW badSlot \in 0 .. AiEntries, ConfigureQueues(badSlot) PROVE AiInv'
<1>1. ai' = [ResetAi EXCEPT !.ready = TRUE] /\ aiDrv' = FreshDriver
  BY DEF ConfigureQueues
<1>2. aiMem' \in AiMemories
  BY AiConstants DEF ConfigureQueues, AiMemories, AiSubs, NoSubmission
<1>3. PumpInv(ai', aiMem', FreshDriver) /\ (ai'.line <=> ai'.irq # {})
  BY <1>1, <1>2, FreshQueuesInv
<1> QED BY <1>1, <1>3, AiInvPrimed

\* Publishing the tail keeps it: only here can the published tail wrap.
LEMMA PublishPreserves == ASSUME AiInv, Publish PROVE AiInv'
<1> DEFINE d == [ai EXCEPT !.tail = aiDrv.tail]
           v == aiDrv
<1>1. ai \in AiDevices /\ v \in AiDrivers /\ PumpInv(ai, aiMem, v) /\ (ai.line <=> ai.irq # {})
  BY DEF AiInv, PumpInv
<1>2. v.tail \in 0 .. AiSpan - 1 /\ ai.tail # v.tail
  BY <1>1 DEF AiDrivers, Publish
<1>3. /\ d \in AiDevices /\ d.budget = ai.budget /\ d.stopped = ai.stopped
      /\ d.head = ai.head /\ d.tail = v.tail /\ d.chead = ai.chead /\ d.ctail = ai.ctail
      /\ d.stage = ai.stage /\ d.active = ai.active /\ d.irq = ai.irq /\ d.comps = ai.comps
      /\ d.line = ai.line
  BY <1>1, <1>2 DEF AiDevices
<1>4. ai' = d /\ aiDrv' = v /\ aiMem' = aiMem
  BY DEF Publish
<1> HIDE DEF d, v
<1>5. /\ ai.head \in Nat /\ ai.tail \in Nat /\ v.tail \in Nat /\ AiSpan \in Nat /\ v.rung \in Nat
      /\ ai.budget \in Nat /\ AiEntries \in Nat /\ v.tail < AiSpan
  BY <1>1, DeviceFields, DriverFields, AiConstants
<1>6. CountersInOrder(d, v) /\ LastTail(d, v) = LastTail(ai, v)
  BY ONLY <1>1, <1>3, <1>5 DEF PumpInv, CountersInOrder, LastTail
<1>7. ActiveIsHead(d, aiMem, v)
  <2>1. ai.stage # "idle" => v.tail # ai.head
    BY ONLY <1>1, <1>5 DEF PumpInv, ActiveIsHead, LastTail
  <2> QED BY ONLY <1>1, <1>3, <1>6, <2>1 DEF PumpInv, ActiveIsHead
<1>8. OpenNumbered(v) /\ OpenInPlace(d, aiMem, v) /\ StoresKnown(d, aiMem, v) /\ AnswersSeen(d, v)
  BY ONLY <1>1, <1>3, <1>6 DEF PumpInv, OpenInPlace, StoresKnown, AnswersSeen, SlotOf, Answered
<1>9. BudgetCovers(d, v)
  <2>1. ASSUME ai.head <= v.tail PROVE ai.head <= ai.tail /\ ai.tail <= v.tail
    BY ONLY <1>1, <1>2, <1>5, <2>1 DEF PumpInv, CountersInOrder, LastTail
  <2>2. ai.head <= ai.tail =>
          /\ v.rung <= ai.tail
          /\ ~ai.stopped =>
               ai.budget + (IF ai.stage = "idle" THEN 0 ELSE 1) >= BoundedDepth(ai.head, v.rung)
    BY <1>1 DEF PumpInv, BudgetCovers
  <2> QED BY ONLY <1>3, <1>5, <2>1, <2>2 DEF BudgetCovers
<1>10. PumpInv(d, aiMem, v)
  BY <1>1, <1>3, <1>6, <1>7, <1>8, <1>9 DEF PumpInv
<1>11. PumpInv(ai', aiMem', aiDrv') /\ (ai'.line <=> ai'.irq # {})
  BY <1>1, <1>3, <1>4, <1>10
<1> QED BY <1>11, AiInvPrimed

\* Acknowledging keeps it: the handler still looks at the completion tail.
LEMMA AiAcknowledgePreserves == ASSUME AiInv, AiAcknowledge PROVE AiInv'
<1> DEFINE d == [ai EXCEPT !.irq = {}, !.line = FALSE]
           v == [aiDrv EXCEPT !.handling = TRUE]
<1>1. ai \in AiDevices /\ aiDrv \in AiDrivers /\ PumpInv(ai, aiMem, aiDrv)
  BY DEF AiInv, PumpInv
<1>2. /\ d \in AiDevices /\ d.budget = ai.budget /\ d.stopped = ai.stopped
      /\ d.head = ai.head /\ d.tail = ai.tail /\ d.chead = ai.chead /\ d.ctail = ai.ctail
      /\ d.stage = ai.stage /\ d.active = ai.active /\ d.irq = {} /\ d.comps = ai.comps
      /\ d.line = FALSE
  BY <1>1 DEF AiDevices
<1>3. /\ v \in AiDrivers /\ v.rung = aiDrv.rung /\ v.handling
      /\ v.tail = aiDrv.tail /\ v.chead = aiDrv.chead /\ v.ctail = aiDrv.ctail
      /\ v.open = aiDrv.open /\ v.last = aiDrv.last /\ v.stored = aiDrv.stored
  BY <1>1 DEF AiDrivers
<1>4. ai' = d /\ aiDrv' = v /\ aiMem' = aiMem
  BY DEF AiAcknowledge
<1> HIDE DEF d, v
<1>5. CountersInOrder(d, v) /\ ActiveIsHead(d, aiMem, v) /\ OpenNumbered(v) /\ BudgetCovers(d, v)
  BY ONLY <1>1, <1>2, <1>3
     DEF PumpInv, CountersInOrder, ActiveIsHead, OpenNumbered, BudgetCovers, LastTail
<1>6. OpenInPlace(d, aiMem, v) /\ StoresKnown(d, aiMem, v) /\ AnswersSeen(d, v)
  BY ONLY <1>1, <1>2, <1>3
     DEF PumpInv, OpenInPlace, StoresKnown, AnswersSeen, SlotOf, Answered, LastTail
<1>7. PumpInv(d, aiMem, v)
  BY <1>1, <1>2, <1>3, <1>5, <1>6 DEF PumpInv
<1>8. PumpInv(ai', aiMem', aiDrv') /\ (ai'.line <=> ai'.irq # {})
  BY <1>2, <1>4, <1>7
<1> QED BY <1>8, AiInvPrimed

\* Reading the completion tail keeps it: the device's value is never refused.
LEMMA SyncCompletionTailPreserves == ASSUME AiInv, SyncCompletionTail PROVE AiInv'
<1> DEFINE v == [aiDrv EXCEPT !.handling = FALSE, !.ctail = ai.ctail]
<1>1. ai \in AiDevices /\ aiDrv \in AiDrivers /\ PumpInv(ai, aiMem, aiDrv) /\ (ai.line <=> ai.irq # {})
  BY DEF AiInv, PumpInv
<1>2. ai.ctail \in 0 .. AiSpan - 1
  BY <1>1 DEF AiDevices
<1>3. /\ v \in AiDrivers /\ v.rung = aiDrv.rung /\ v.ctail = ai.ctail
      /\ v.tail = aiDrv.tail /\ v.chead = aiDrv.chead
      /\ v.open = aiDrv.open /\ v.last = aiDrv.last /\ v.stored = aiDrv.stored
  BY <1>1, <1>2 DEF AiDrivers
<1>4. ~(ai.ctail < aiDrv.ctail \/ ai.ctail < aiDrv.chead \/ ai.ctail - aiDrv.chead > AiEntries)
  <2>1. /\ ai.ctail \in Nat /\ aiDrv.ctail \in Nat /\ aiDrv.chead \in Nat /\ AiEntries \in Nat
    BY <1>1, DeviceFields, DriverFields, AiConstants
  <2>2. aiDrv.chead <= aiDrv.ctail /\ aiDrv.ctail <= ai.ctail /\ ai.ctail <= aiDrv.chead + AiEntries
    BY <1>1 DEF PumpInv, CountersInOrder
  <2> QED BY ONLY <2>1, <2>2
<1>5. ai' = ai /\ aiDrv' = v /\ aiMem' = aiMem
  BY <1>4 DEF SyncCompletionTail
<1> HIDE DEF v
<1>6. aiDrv.chead <= ai.ctail
  <2>1. /\ ai.ctail \in Nat /\ aiDrv.ctail \in Nat /\ aiDrv.chead \in Nat
    BY <1>1, DeviceFields, DriverFields
  <2> QED BY <2>1, <1>1 DEF PumpInv, CountersInOrder
<1>7. CountersInOrder(ai, v) /\ ActiveIsHead(ai, aiMem, v) /\ OpenNumbered(v) /\ BudgetCovers(ai, v)
  BY ONLY <1>1, <1>2, <1>3, <1>6
     DEF PumpInv, CountersInOrder, ActiveIsHead, OpenNumbered, BudgetCovers, LastTail
<1>8. OpenInPlace(ai, aiMem, v) /\ StoresKnown(ai, aiMem, v) /\ AnswersSeen(ai, v)
  BY ONLY <1>1, <1>3 DEF PumpInv, OpenInPlace, StoresKnown, AnswersSeen, SlotOf, Answered, LastTail
<1>9. PumpInv(ai, aiMem, v)
  BY <1>1, <1>3, <1>7, <1>8 DEF PumpInv
<1>10. PumpInv(ai', aiMem', aiDrv') /\ (ai'.line <=> ai'.irq # {})
  BY <1>1, <1>5, <1>9
<1> QED BY <1>10, AiInvPrimed

\* A new submission keeps it: its slot is none that is still waited for.
LEMMA EnqueuePreserves ==
  ASSUME AiInv, NEW kind \in {"good", "invalid", "fault"}, Enqueue(kind) PROVE AiInv'
<1> DEFINE n == aiDrv.last + 1
           sub == [num |-> n, kind |-> kind]
           at == aiDrv.tail % AiEntries
           subs == [aiMem.subs EXCEPT ![at] = sub]
           m == [aiMem EXCEPT !.subs = subs]
           open == Append(aiDrv.open, n)
           v == [aiDrv EXCEPT !.tail = Next1(aiDrv.tail), !.open = open, !.last = n]
           L == Len(aiDrv.open)
<1>1. /\ ai \in AiDevices /\ aiDrv \in AiDrivers /\ PumpInv(ai, aiMem, aiDrv)
      /\ aiMem \in AiMemories /\ (ai.line <=> ai.irq # {})
  BY DEF AiInv, PumpInv
<1>2. /\ ai.head <= aiDrv.tail /\ aiDrv.tail < ai.head + AiEntries
      /\ aiDrv.last < AiSubmissions
  <2>1. ai.head \in Nat /\ aiDrv.tail \in Nat /\ AiEntries \in Nat
    BY <1>1, DeviceFields, DriverFields, AiConstants
  <2>2. ai.head <= aiDrv.tail /\ aiDrv.tail - ai.head < AiEntries /\ aiDrv.last < AiSubmissions
    BY DEF Enqueue
  <2> QED BY <2>1, <2>2
<1>3. ai' = ai /\ aiMem' = m /\ aiDrv' = v
  <2>1. aiMem' = [aiMem EXCEPT !.subs[at] = sub] /\ ai' = ai
        /\ aiDrv' = [aiDrv EXCEPT !.tail = Next1(@), !.open = Append(@, n), !.last = @ + 1]
    BY DEF Enqueue
  <2>2. aiMem' = m
    BY <1>1, <2>1 DEF AiMemories
  <2>3. aiDrv' = v
    BY <1>1, <2>1 DEF AiDrivers
  <2> QED BY <2>1, <2>2, <2>3
<1>4. /\ ai.head \in Nat /\ ai.tail \in Nat /\ ai.chead \in Nat /\ aiDrv.tail \in Nat
      /\ aiDrv.tail < AiSpan /\ ai.head < AiSpan /\ AiSpan \in Nat /\ AiEntries \in Nat \ {0}
      /\ 2 * AiEntries <= AiSpan /\ L \in Nat /\ aiDrv.last \in Nat /\ AiSubmissions \in Nat
      /\ aiDrv.open \in Seq(Nat) /\ aiDrv.stored \in [Numbers -> 0 .. 2] /\ ai.tail < AiSpan
  BY <1>1, DeviceFields, DriverFields, AiConstants
<1>5. n \in Nat /\ n \in Numbers /\ n \in 0 .. AiSubmissions
  BY <1>2, <1>4 DEF Numbers
<1>6. sub \in AiSubs /\ at \in Slots /\ aiMem.subs \in [Slots -> AiSubs]
  BY <1>1, <1>4, <1>5, AiSizes DEF AiSubs, AiMemories
<1>7. /\ subs \in [Slots -> AiSubs] /\ subs[at] = sub
      /\ \A s \in Slots : s # at => subs[s] = aiMem.subs[s]
  BY <1>6
<1> HIDE DEF subs
<1>8. m \in AiMemories /\ m.subs = subs /\ m.badSlot = aiMem.badSlot
  BY <1>1, <1>7 DEF AiMemories
<1>9. Next1(aiDrv.tail) \in 0 .. AiSpan - 1
  <2>1. aiDrv.tail \in 0 .. AiSpan - 1
    BY <1>4
  <2> QED BY <2>1, AiSizes
<1>10. /\ open \in Seq(Nat) /\ Len(open) = L + 1 /\ open[L + 1] = n
       /\ \A i \in 1 .. L : open[i] = aiDrv.open[i]
  BY <1>4, <1>5
<1>24. n = aiDrv.last + 1 /\ L = Len(aiDrv.open)
  OBVIOUS
<1> HIDE DEF open, n, L
<1>11. /\ v \in AiDrivers /\ v.tail = Next1(aiDrv.tail) /\ v.open = open /\ v.last = n
       /\ v.chead = aiDrv.chead /\ v.ctail = aiDrv.ctail /\ v.handling = aiDrv.handling
       /\ v.rung = aiDrv.rung /\ v.stored = aiDrv.stored
  BY <1>1, <1>5, <1>9, <1>10 DEF AiDrivers
<1> HIDE DEF m, v
<1>12. LastTail(ai, aiDrv) = aiDrv.tail /\ LastTail(ai, v) = aiDrv.tail + 1
       /\ (v.tail < ai.head => v.tail = 0)
  <2>1. CASE aiDrv.tail + 1 < AiSpan
    <3>1. v.tail = aiDrv.tail + 1
      <4>1. aiDrv.tail \in 0 .. AiSpan - 1
        BY <1>4
      <4>2. Next1(aiDrv.tail) = aiDrv.tail + 1
        BY ONLY <2>1, <4>1, AiSizes
      <4> QED BY <1>11, <4>2
    <3> QED BY ONLY <1>2, <1>4, <3>1 DEF LastTail
  <2>2. CASE aiDrv.tail + 1 = AiSpan
    <3>1. v.tail = 0
      <4>1. aiDrv.tail \in 0 .. AiSpan - 1
        BY <1>4
      <4>2. Next1(aiDrv.tail) = 0
        BY ONLY <2>2, <4>1, AiSizes
      <4> QED BY <1>11, <4>2
    <3>2. ai.head > 0
      BY ONLY <1>2, <1>4, <2>2
    <3> QED BY ONLY <1>2, <1>4, <2>2, <3>1, <3>2 DEF LastTail
  <2>3. aiDrv.tail + 1 < AiSpan \/ aiDrv.tail + 1 = AiSpan
    <3>1. aiDrv.tail \in Nat /\ AiSpan \in Nat /\ aiDrv.tail < AiSpan
      BY <1>4
    <3> QED BY ONLY <3>1
  <2> QED BY <2>1, <2>2, <2>3
<1>13. L + ai.chead = aiDrv.tail
  BY <1>1, <1>12 DEF PumpInv, OpenInPlace, L
<1>14. CountersInOrder(ai, v)
  <2>1. ai.tail >= ai.head
    BY ONLY <1>1, <1>2, <1>4 DEF PumpInv, CountersInOrder
  <2>2. ai.tail <= aiDrv.tail
    BY ONLY <1>1, <1>12, <2>1 DEF PumpInv, CountersInOrder
  <2>3. ai.tail <= LastTail(ai, v) /\ LastTail(ai, v) <= ai.head + AiEntries /\ ~(ai.tail < ai.head)
    BY ONLY <1>2, <1>4, <1>12, <2>1, <2>2
  <2> QED BY ONLY <1>1, <1>11, <1>12, <2>3 DEF PumpInv, CountersInOrder
<1>15. ActiveIsHead(ai, m, v)
  <2>1. ASSUME ai.stage # "idle"
        PROVE ai.head < aiDrv.tail /\ subs[ai.head % AiEntries] = aiMem.subs[ai.head % AiEntries]
    <3>1. ai.head < aiDrv.tail
      BY <1>1, <1>12, <2>1 DEF PumpInv, ActiveIsHead
    <3>2. ai.head % AiEntries # at
      BY <1>2, <1>4, <3>1, SlotsApart
    <3>3. ai.head % AiEntries \in Slots
      BY <1>4, AiSizes
    <3> QED BY <1>7, <3>1, <3>2, <3>3
  <2>2. ai.stage # "idle" => ai.head < LastTail(ai, v)
    BY ONLY <1>4, <1>12, <2>1
  <2> QED BY ONLY <1>1, <1>8, <2>1, <2>2 DEF PumpInv, ActiveIsHead
<1>16. OpenNumbered(v)
  <2>1. L <= aiDrv.last /\ \A i \in 1 .. L : aiDrv.open[i] + L = aiDrv.last + i
    BY <1>1 DEF PumpInv, OpenNumbered, L
  <2>2. \A i \in 1 .. L : aiDrv.open[i] \in Nat
    BY <1>1, DriverFields DEF L
  <2>3. ASSUME NEW i \in 1 .. L + 1 PROVE open[i] + (L + 1) = n + i
    <3>0. L \in Nat /\ n \in Nat /\ aiDrv.last \in Nat /\ n = aiDrv.last + 1
      BY <1>4, <1>5, <1>24
    <3>1. CASE i = L + 1
      <4>1. open[i] = n
        BY <1>10, <3>1
      <4> QED BY ONLY <3>0, <3>1, <4>1
    <3>2. CASE i \in 1 .. L
      <4>1. aiDrv.open[i] \in Nat /\ aiDrv.open[i] + L = aiDrv.last + i /\ open[i] = aiDrv.open[i]
        BY <1>10, <2>1, <2>2, <3>2
      <4> QED BY ONLY <3>0, <3>2, <4>1
    <3> QED BY <1>4, <3>1, <3>2
  <2>4. L + 1 <= n
    <3>1. L \in Nat /\ n = aiDrv.last + 1 /\ aiDrv.last \in Nat /\ L <= aiDrv.last
      BY <1>4, <1>24, <2>1
    <3> QED BY ONLY <3>1
  <2> QED BY ONLY <1>10, <1>11, <2>3, <2>4 DEF OpenNumbered
<1>17. ASSUME NEW i \in 1 .. L, ~Answered(ai, i)
       PROVE  subs[SlotOf(ai, i)] = aiMem.subs[SlotOf(ai, i)]
  <2>1. ai.chead + i - 1 \in Nat /\ ai.chead + i - 1 < aiDrv.tail
        /\ aiDrv.tail < (ai.chead + i - 1) + AiEntries
    <3>1. ~(ai.chead + i <= ai.head)
      BY <1>17 DEF Answered
    <3>2. /\ ai.head \in Nat /\ ai.chead \in Nat /\ aiDrv.tail \in Nat /\ AiEntries \in Nat
          /\ i \in Nat /\ 1 <= i /\ i <= L /\ L \in Nat
      BY <1>4
    <3>3. aiDrv.tail < ai.head + AiEntries /\ L + ai.chead = aiDrv.tail
      BY <1>2, <1>13
    <3>4. PICK c \in Nat : c = ai.chead
      BY <3>2
    <3>5. c + i - 1 \in Nat /\ c + i - 1 < aiDrv.tail
      BY ONLY <3>2, <3>3, <3>4
    <3>6. aiDrv.tail < (c + i - 1) + AiEntries
      BY ONLY <3>1, <3>2, <3>3, <3>4
    <3> QED BY ONLY <3>4, <3>5, <3>6
  <2>2. SlotOf(ai, i) # at
    BY <1>4, <2>1, SlotsApart DEF SlotOf
  <2>3. SlotOf(ai, i) \in Slots
    BY <2>1, AiSizes DEF SlotOf
  <2> QED BY <1>7, <2>2, <2>3
<1>18. SlotOf(ai, L + 1) = at /\ ~Answered(ai, L + 1)
  <2>1. ai.chead + (L + 1) - 1 = aiDrv.tail /\ ~(ai.chead + (L + 1) <= ai.head)
    BY <1>2, <1>4, <1>13
  <2> QED BY <2>1 DEF SlotOf, Answered
<1>19. OpenInPlace(ai, m, v)
  <2>1. ASSUME NEW i \in 1 .. L + 1
        PROVE  open[i] = IF Answered(ai, i) THEN ai.comps[SlotOf(ai, i)].num
                         ELSE subs[SlotOf(ai, i)].num
    <3>1. CASE i = L + 1
      BY <1>7, <1>10, <1>18, <3>1
    <3>2. CASE i \in 1 .. L
      <4>1. aiDrv.open[i] = IF Answered(ai, i) THEN ai.comps[SlotOf(ai, i)].num
                            ELSE aiMem.subs[SlotOf(ai, i)].num
        BY <1>1, <3>2 DEF PumpInv, OpenInPlace, L
      <4> QED BY ONLY <1>10, <1>17, <3>2, <4>1
    <3> QED BY <1>4, <3>1, <3>2
  <2>2. (L + 1) + ai.chead = LastTail(ai, v)
    BY <1>4, <1>12, <1>13
  <2> QED BY ONLY <1>8, <1>10, <1>11, <2>1, <2>2 DEF OpenInPlace
<1>20. StoresKnown(ai, m, v)
  <2>1. /\ \A k \in Numbers : k > aiDrv.last => aiDrv.stored[k] = 0
        /\ \A i \in 1 .. L :
             /\ aiDrv.stored[aiDrv.open[i]] > 1 => aiMem.badSlot \in Slots
             /\ Answered(ai, i) => (ai.comps[SlotOf(ai, i)].ok <=> aiDrv.stored[aiDrv.open[i]] > 0)
             /\ ~Answered(ai, i) /\ aiDrv.stored[aiDrv.open[i]] > 0 =>
                  aiMem.badSlot \in Slots /\ aiMem.subs[SlotOf(ai, i)].kind = "good"
    BY <1>1 DEF PumpInv, StoresKnown, L
  <2>2. \A k \in Numbers : k > n => aiDrv.stored[k] = 0
    <3>1. \A k \in Numbers : k \in Nat
      BY <1>4 DEF Numbers
    <3>2. n = aiDrv.last + 1 /\ aiDrv.last \in Nat
      BY <1>4, <1>24
    <3>3. \A k \in Nat : k > n => k > aiDrv.last
      BY ONLY <3>2
    <3> QED BY ONLY <2>1, <3>1, <3>3
  <2>3. aiDrv.stored[n] = 0
    <3>1. n > aiDrv.last /\ n \in Numbers
      BY <1>4, <1>5, <1>24
    <3> QED BY ONLY <2>1, <3>1
  <2>4. ASSUME NEW i \in 1 .. L + 1
        PROVE  /\ aiDrv.stored[open[i]] > 1 => aiMem.badSlot \in Slots
               /\ Answered(ai, i) => (ai.comps[SlotOf(ai, i)].ok <=> aiDrv.stored[open[i]] > 0)
               /\ ~Answered(ai, i) /\ aiDrv.stored[open[i]] > 0 =>
                    aiMem.badSlot \in Slots /\ subs[SlotOf(ai, i)].kind = "good"
    <3>1. CASE i = L + 1
      <4>1. aiDrv.stored[open[i]] = 0 /\ ~Answered(ai, i)
        BY <1>10, <1>18, <2>3, <3>1
      <4> QED BY ONLY <4>1
    <3>2. CASE i \in 1 .. L
      <4>1. open[i] = aiDrv.open[i]
        BY <1>10, <3>2
      <4> QED BY ONLY <1>17, <2>1, <3>2, <4>1
    <3> QED BY <1>4, <3>1, <3>2
  <2> QED BY ONLY <1>8, <1>10, <1>11, <2>2, <2>4 DEF StoresKnown
<1>21. BudgetCovers(ai, v) /\ AnswersSeen(ai, v)
  BY ONLY <1>1, <1>11 DEF PumpInv, BudgetCovers, AnswersSeen
<1>22. PumpInv(ai, m, v)
  BY <1>1, <1>8, <1>11, <1>14, <1>15, <1>16, <1>19, <1>20, <1>21 DEF PumpInv
<1>23. PumpInv(ai', aiMem', aiDrv') /\ (ai'.line <=> ai'.irq # {})
  BY <1>1, <1>3, <1>22
<1> QED BY <1>23, AiInvPrimed

\* Reading a completion keeps it: what is waited for moves up by one.
LEMMA DequeueCompletionPreserves == ASSUME AiInv, DequeueCompletion PROVE AiInv'
<1> DEFINE first == Head(aiDrv.open)
           open == Tail(aiDrv.open)
           stored == [aiDrv.stored EXCEPT ![first] = 0]
           d == [ai EXCEPT !.chead = Next1(aiDrv.chead)]
           v == [aiDrv EXCEPT !.chead = Next1(aiDrv.chead), !.open = open, !.stored = stored]
           L == Len(aiDrv.open)
<1>1. /\ ai \in AiDevices /\ aiDrv \in AiDrivers /\ PumpInv(ai, aiMem, aiDrv)
      /\ (ai.line <=> ai.irq # {}) /\ aiDrv.chead < aiDrv.ctail
  BY DEF AiInv, PumpInv, DequeueCompletion
<1>2. /\ ai.head \in Nat /\ ai.tail \in Nat /\ ai.chead \in Nat /\ aiDrv.tail \in Nat
      /\ ai.ctail \in Nat /\ aiDrv.ctail \in Nat
      /\ aiDrv.tail < AiSpan /\ ai.head < AiSpan /\ AiSpan \in Nat /\ AiEntries \in Nat \ {0}
      /\ L \in Nat /\ aiDrv.open \in Seq(Nat) /\ aiDrv.stored \in [Numbers -> 0 .. 2]
      /\ aiDrv.last \in Nat /\ aiDrv.chead \in Nat
  BY <1>1, DeviceFields, DriverFields, AiConstants
<1>3. /\ ai.ctail = ai.head /\ aiDrv.chead = ai.chead /\ ai.chead < ai.head
      /\ ai.chead + 1 <= aiDrv.ctail /\ aiDrv.ctail <= ai.ctail
      /\ ai.ctail <= ai.chead + AiEntries
  <2>1. /\ ai.ctail = ai.head /\ aiDrv.chead = ai.chead /\ aiDrv.ctail <= ai.ctail
        /\ ai.ctail <= ai.chead + AiEntries
    BY <1>1 DEF PumpInv, CountersInOrder
  <2> QED BY ONLY <1>1, <1>2, <2>1
<1>4. Next1(aiDrv.chead) = ai.chead + 1 /\ ai.chead + 1 \in 0 .. AiSpan - 1
  <2>1. ai.chead \in 0 .. AiSpan - 1 /\ ai.chead + 1 < AiSpan
    BY <1>2, <1>3
  <2> QED BY <1>3, <2>1, AiSizes
<1>5. L + ai.chead = LastTail(ai, aiDrv) /\ L > 0
  <2>1. L + ai.chead = LastTail(ai, aiDrv)
    BY <1>1 DEF PumpInv, OpenInPlace, L
  <2> QED BY <1>2, <1>3, <2>1 DEF LastTail
<1>22. L \in Nat /\ L > 0 /\ L = Len(aiDrv.open)
  BY <1>2, <1>5
<1>6. /\ open \in Seq(Nat) /\ Len(open) = L - 1 /\ first = aiDrv.open[1]
      /\ \A i \in 1 .. L - 1 : i + 1 \in 1 .. L /\ open[i] = aiDrv.open[i + 1]
  BY <1>2, <1>5
<1>7. first \in Numbers /\ \A i \in 1 .. L - 1 : open[i] # first /\ open[i] \in Numbers
  <2>1. 1 \in 1 .. L /\ \A i \in 1 .. L - 1 : i + 1 # 1
    BY <1>2, <1>5
  <2> QED BY <1>1, <1>6, <2>1, OpenFacts DEF PumpInv
<1> HIDE DEF first, open, L
<1>8. /\ stored \in [Numbers -> 0 .. 2] /\ stored[first] = 0
      /\ \A k \in Numbers : k # first => stored[k] = aiDrv.stored[k]
  BY <1>2, <1>7
<1> HIDE DEF stored
<1>9. /\ d \in AiDevices /\ d.chead = ai.chead + 1
      /\ d.head = ai.head /\ d.tail = ai.tail /\ d.ctail = ai.ctail /\ d.budget = ai.budget
      /\ d.stage = ai.stage /\ d.active = ai.active /\ d.irq = ai.irq /\ d.comps = ai.comps
      /\ d.line = ai.line /\ d.stopped = ai.stopped
  BY <1>1, <1>4 DEF AiDevices
<1>10. /\ v \in AiDrivers /\ v.chead = ai.chead + 1 /\ v.open = open /\ v.stored = stored
       /\ v.tail = aiDrv.tail /\ v.ctail = aiDrv.ctail /\ v.handling = aiDrv.handling
       /\ v.rung = aiDrv.rung /\ v.last = aiDrv.last
  BY <1>1, <1>4, <1>6, <1>8 DEF AiDrivers
<1>11. ai' = d /\ aiDrv' = v /\ aiMem' = aiMem
  <2>1. /\ ai' = d /\ aiMem' = aiMem
        /\ aiDrv' = [aiDrv EXCEPT !.chead = Next1(@), !.open = Tail(@), !.stored[first] = 0]
    BY DEF DequeueCompletion, first
  <2>2. aiDrv' = v
    BY <1>1, <2>1 DEF AiDrivers, stored, open
  <2> QED BY <2>1, <2>2
<1> HIDE DEF d, v
<1>12. LastTail(d, v) = LastTail(ai, aiDrv)
  BY <1>9, <1>10 DEF LastTail
<1>13. CountersInOrder(d, v)
  <2>1. d.chead <= v.ctail /\ d.ctail <= d.chead + AiEntries
    BY ONLY <1>2, <1>3, <1>9, <1>10
  <2> QED BY ONLY <1>1, <1>9, <1>10, <1>12, <2>1 DEF PumpInv, CountersInOrder
<1>14. ActiveIsHead(d, aiMem, v)
  <2>1. d.ctail < ai.chead + AiEntries => d.ctail < d.chead + AiEntries
    BY ONLY <1>2, <1>9
  <2> QED BY ONLY <1>1, <1>9, <1>10, <1>12, <2>1 DEF PumpInv, ActiveIsHead
<1>15. OpenNumbered(v)
  <2>1. L <= aiDrv.last /\ \A i \in 1 .. L : aiDrv.open[i] + L = aiDrv.last + i
    BY <1>1 DEF PumpInv, OpenNumbered, L
  <2>2. \A i \in 1 .. L : aiDrv.open[i] \in Nat
    BY <1>1, DriverFields DEF L
  <2>3. ASSUME NEW i \in 1 .. L - 1 PROVE open[i] + (L - 1) = aiDrv.last + i
    <3>1. i + 1 \in 1 .. L /\ open[i] = aiDrv.open[i + 1]
      BY <1>6
    <3>2. aiDrv.open[i + 1] + L = aiDrv.last + (i + 1) /\ aiDrv.open[i + 1] \in Nat
      BY <2>1, <2>2, <3>1
    <3>3. L \in Nat /\ L > 0 /\ aiDrv.last \in Nat
      BY <1>2, <1>22
    <3>4. open[i] \in Nat /\ open[i] + L = aiDrv.last + (i + 1) /\ i \in Nat
      BY <3>1, <3>2, <3>3
    <3> QED BY ONLY <3>3, <3>4
  <2>4. L - 1 <= aiDrv.last
    <3>1. L \in Nat /\ L > 0 /\ aiDrv.last \in Nat /\ L <= aiDrv.last
      BY <1>2, <1>22, <2>1
    <3> QED BY ONLY <3>1
  <2> QED BY ONLY <1>6, <1>10, <2>3, <2>4 DEF OpenNumbered
<1>16. \A i \in 1 .. L - 1 : SlotOf(d, i) = SlotOf(ai, i + 1) /\ (Answered(d, i) <=> Answered(ai, i + 1))
  <2> TAKE i \in 1 .. L - 1
  <2>1. d.chead + i - 1 = ai.chead + (i + 1) - 1 /\ d.chead + i = ai.chead + (i + 1) /\ d.head = ai.head
    <3>1. i \in Nat /\ ai.chead \in Nat /\ d.chead = ai.chead + 1 /\ d.head = ai.head
      BY <1>2, <1>9, <1>22
    <3> QED BY ONLY <3>1
  <2> QED BY ONLY <2>1 DEF SlotOf, Answered
<1>17. OpenInPlace(d, aiMem, v)
  <2>1. ASSUME NEW i \in 1 .. L - 1
        PROVE  open[i] = IF Answered(d, i) THEN d.comps[SlotOf(d, i)].num
                         ELSE aiMem.subs[SlotOf(d, i)].num
    <3>1. aiDrv.open[i + 1] = IF Answered(ai, i + 1) THEN ai.comps[SlotOf(ai, i + 1)].num
                              ELSE aiMem.subs[SlotOf(ai, i + 1)].num
      BY <1>1, <1>6 DEF PumpInv, OpenInPlace, L
    <3> QED BY ONLY <1>6, <1>9, <1>16, <3>1, i \in 1 .. L - 1
  <2>2. (L - 1) + d.chead = LastTail(d, v)
    BY <1>2, <1>5, <1>9, <1>12
  <2> QED BY ONLY <1>6, <1>10, <2>1, <2>2 DEF OpenInPlace
<1>18. StoresKnown(d, aiMem, v)
  <2>1. /\ \A k \in Numbers : k > aiDrv.last => aiDrv.stored[k] = 0
        /\ \A i \in 1 .. L :
             /\ aiDrv.stored[aiDrv.open[i]] > 1 => aiMem.badSlot \in Slots
             /\ Answered(ai, i) => (ai.comps[SlotOf(ai, i)].ok <=> aiDrv.stored[aiDrv.open[i]] > 0)
             /\ ~Answered(ai, i) /\ aiDrv.stored[aiDrv.open[i]] > 0 =>
                  aiMem.badSlot \in Slots /\ aiMem.subs[SlotOf(ai, i)].kind = "good"
    BY <1>1 DEF PumpInv, StoresKnown, L
  <2>2. \A k \in Numbers : k > aiDrv.last => stored[k] = 0
    BY <1>8, <2>1
  <2>3. ASSUME NEW i \in 1 .. L - 1
        PROVE  /\ stored[open[i]] > 1 => aiMem.badSlot \in Slots
               /\ Answered(d, i) => (d.comps[SlotOf(d, i)].ok <=> stored[open[i]] > 0)
               /\ ~Answered(d, i) /\ stored[open[i]] > 0 =>
                    aiMem.badSlot \in Slots /\ aiMem.subs[SlotOf(d, i)].kind = "good"
    <3>1. stored[open[i]] = aiDrv.stored[aiDrv.open[i + 1]] /\ i + 1 \in 1 .. L
      BY <1>6, <1>7, <1>8
    <3>2. SlotOf(d, i) = SlotOf(ai, i + 1) /\ (Answered(d, i) <=> Answered(ai, i + 1)) /\ d.comps = ai.comps
      BY <1>9, <1>16
    <3> QED BY ONLY <2>1, <3>1, <3>2
  <2> QED BY ONLY <1>6, <1>10, <2>2, <2>3 DEF StoresKnown
<1>19. BudgetCovers(d, v) /\ AnswersSeen(d, v)
  BY ONLY <1>1, <1>9, <1>10 DEF PumpInv, BudgetCovers, AnswersSeen
<1>20. PumpInv(d, aiMem, v)
  BY <1>1, <1>9, <1>10, <1>13, <1>14, <1>15, <1>17, <1>18, <1>19 DEF PumpInv
<1>21. PumpInv(ai', aiMem', aiDrv') /\ (ai'.line <=> ai'.irq # {})
  BY <1>1, <1>9, <1>11, <1>20
<1> QED BY <1>21, AiInvPrimed

\* Where the numbers that the driver waits for lie: first the completions not read, then the
\* submissions not served.
LEMMA QueuesSplit ==
  ASSUME AiInv, NEW p, p = ai.head - ai.chead, NEW q, q = LastTail(ai, aiDrv) - ai.head
  PROVE  /\ p \in Nat /\ q \in Nat /\ Len(aiDrv.open) = p + q /\ p <= AiEntries /\ q <= AiEntries
         /\ Unread = [i \in 1 .. p |-> ai.comps[SlotOf(ai, i)]]
         /\ Unserved = [i \in 1 .. q |-> aiMem.subs[SlotOf(ai, p + i)]]
<1> DEFINE h == ai.head
           c == ai.chead
           t == aiDrv.tail
           T == LastTail(ai, aiDrv)
           S == AiSpan
           N == AiEntries
<1>1. h \in Nat /\ c \in Nat /\ t \in Nat /\ S \in Nat \ {0} /\ N \in Nat \ {0} /\ S > N
      /\ h < S /\ t < S
  BY DeviceFields, DriverFields, AiConstants DEF AiInv, PumpInv
<1>2. /\ ai.ctail = h /\ aiDrv.chead = c /\ c <= h /\ h <= c + N
      /\ T <= h + N /\ (t < h => t = 0) /\ T = (IF t < h THEN S ELSE t)
      /\ Len(aiDrv.open) + c = T /\ p = h - c /\ q = T - h
  <2>1. /\ ai.ctail = h /\ aiDrv.chead = c /\ aiDrv.chead <= aiDrv.ctail
        /\ aiDrv.ctail <= ai.ctail /\ h <= c + N /\ T <= h + N /\ (t < h => t = 0)
    BY DEF AiInv, PumpInv, CountersInOrder
  <2>2. aiDrv.ctail \in Nat
    BY DriverFields DEF AiInv, PumpInv
  <2>3. c <= h
    BY ONLY <1>1, <2>1, <2>2
  <2>4. Len(aiDrv.open) + c = T
    BY DEF AiInv, PumpInv, OpenInPlace
  <2> QED BY <2>1, <2>3, <2>4 DEF LastTail
<1>3. Len(aiDrv.open) \in Nat
  BY DriverFields DEF AiInv, PumpInv
<1> HIDE DEF h, c, t, T, S, N
<1>4. /\ p \in Nat /\ q \in Nat /\ Len(aiDrv.open) = p + q /\ p <= N /\ q <= N /\ p < S /\ q < S
      /\ h = c + p /\ T = h + q
  BY ONLY <1>1, <1>2, <1>3
<1>5. ((ai.ctail + S - aiDrv.chead) % S) = p
  <2>1. ai.ctail + S - aiDrv.chead = p + S
    BY ONLY <1>1, <1>2, <1>4
  <2>2. p + S = 1 * S + p /\ p \in 0 .. S - 1 /\ p + S \in Int
    BY ONLY <1>1, <1>4
  <2>3. (p + S) % S = p
    BY ONLY <1>1, <2>2, ModUnique, 1 \in Int
  <2> QED BY ONLY <2>1, <2>3
<1>6. ((t + S - h) % S) = q
  <2>1. CASE t < h
    <3>1. t + S - h = q /\ q = 0 * S + q /\ q \in 0 .. S - 1 /\ q \in Int
      BY ONLY <1>1, <1>2, <1>4, <2>1
    <3>2. q % S = q
      BY ONLY <1>1, <3>1, ModUnique, 0 \in Int
    <3> QED BY ONLY <3>1, <3>2
  <2>2. CASE ~(t < h)
    <3>1. t + S - h = q + S
      BY ONLY <1>1, <1>2, <1>4, <2>2
    <3>2. q + S = 1 * S + q /\ q \in 0 .. S - 1 /\ q + S \in Int
      BY ONLY <1>1, <1>4
    <3>3. (q + S) % S = q
      BY ONLY <1>1, <3>2, ModUnique, 1 \in Int
    <3> QED BY ONLY <3>1, <3>3
  <2> QED BY <2>1, <2>2
<1>7. Unread = [i \in 1 .. p |-> ai.comps[SlotOf(ai, i)]]
  <2>1. aiDrv.chead = ai.chead
    BY <1>2 DEF c
  <2> QED BY ONLY <1>5, <2>1 DEF Unread, SlotOf, S
<1>8. Unserved = [i \in 1 .. q |-> aiMem.subs[SlotOf(ai, p + i)]]
  <2>1. \A i \in 1 .. q : ai.head + i - 1 = ai.chead + (p + i) - 1
    <3>1. h \in Nat /\ c \in Nat /\ p \in Nat /\ q \in Nat /\ h = c + p
      BY <1>1, <1>4
    <3>2. \A i \in 1 .. q : h + i - 1 = c + (p + i) - 1
      BY ONLY <3>1
    <3> QED BY <3>2 DEF h, c
  <2>2. Unserved = [i \in 1 .. q |-> aiMem.subs[(ai.head + i - 1) % AiEntries]]
    BY ONLY <1>6 DEF Unserved, t, h, S
  <2> QED BY ONLY <2>1, <2>2 DEF SlotOf
<1> QED BY <1>4, <1>7, <1>8 DEF N

\* The invariant says that submissions are answered.
LEMMA AiInvAnswers == ASSUME AiInv PROVE SubmissionsAnswered
<1> DEFINE p == ai.head - ai.chead
           q == LastTail(ai, aiDrv) - ai.head
           L == Len(aiDrv.open)
           read == [i \in DOMAIN Unread |-> Unread[i].num]
           rest == [i \in DOMAIN Unserved |-> Unserved[i].num]
<1>1. /\ p \in Nat /\ q \in Nat /\ L = p + q /\ p <= AiEntries /\ q <= AiEntries
      /\ Unread = [i \in 1 .. p |-> ai.comps[SlotOf(ai, i)]]
      /\ Unserved = [i \in 1 .. q |-> aiMem.subs[SlotOf(ai, p + i)]]
  BY QueuesSplit
<1>2. PumpInv(ai, aiMem, aiDrv) /\ (ai.line <=> ai.irq # {}) /\ ai \in AiDevices
      /\ aiMem \in AiMemories /\ aiDrv \in AiDrivers
  BY DEF AiInv, PumpInv
<1>3. /\ ai.head \in Nat /\ ai.chead \in Nat /\ AiEntries \in Nat /\ aiDrv.open \in Seq(Nat)
      /\ p = ai.head - ai.chead /\ L \in Nat /\ L = Len(aiDrv.open)
  BY <1>2, DeviceFields, DriverFields, AiConstants
<1> HIDE DEF p, q, L
<1>4. \A i \in 1 .. L : (Answered(ai, i) <=> i <= p)
  <2> TAKE i \in 1 .. L
  <2>1. i \in Nat /\ L \in Nat
    BY <1>3
  <2>2. ai.chead + i <= ai.head <=> i <= p
    BY ONLY <1>1, <1>3, <2>1
  <2> QED BY <2>2 DEF Answered
<1>5. \A i \in 1 .. p : i \in 1 .. L /\ aiDrv.open[i] = Unread[i].num
  <2> TAKE i \in 1 .. p
  <2>1. i \in 1 .. L /\ i <= p
    BY ONLY <1>1, i \in 1 .. p
  <2>2. aiDrv.open[i] = ai.comps[SlotOf(ai, i)].num
    BY <1>2, <1>3, <1>4, <2>1 DEF PumpInv, OpenInPlace
  <2> QED BY <1>1, <2>1, <2>2
<1>6. \A i \in 1 .. q : p + i \in 1 .. L /\ aiDrv.open[p + i] = Unserved[i].num
  <2> TAKE i \in 1 .. q
  <2>1. p + i \in 1 .. L /\ ~(p + i <= p)
    BY ONLY <1>1, i \in 1 .. q
  <2>2. aiDrv.open[p + i] = aiMem.subs[SlotOf(ai, p + i)].num
    BY <1>2, <1>3, <1>4, <2>1 DEF PumpInv, OpenInPlace
  <2> QED BY <1>1, <2>1, <2>2
<1>7. AnsweredInOrder
  <2>1. \A i \in 1 .. L : aiDrv.open[i] \in Nat
    BY <1>2, <1>3, DriverFields
  <2>2. read \in Seq(Nat) /\ Len(read) = p /\ \A i \in 1 .. p : read[i] = aiDrv.open[i]
    <3>1. read = [i \in 1 .. p |-> aiDrv.open[i]]
      BY <1>1, <1>5
    <3> HIDE DEF read
    <3>2. \A i \in 1 .. p : aiDrv.open[i] \in Nat
      BY <1>5, <2>1
    <3>3. p \in Nat
      BY <1>1
    <3>4. read \in Seq(Nat)
      BY ONLY <3>1, <3>2, <3>3
    <3>5. Len(read) = p
      BY ONLY <3>1, <3>3, <3>4
    <3>6. \A i \in 1 .. p : read[i] = aiDrv.open[i]
      BY ONLY <3>1
    <3> QED BY <3>4, <3>5, <3>6
  <2>3. rest \in Seq(Nat) /\ Len(rest) = q /\ \A i \in 1 .. q : rest[i] = aiDrv.open[p + i]
    <3>1. rest = [i \in 1 .. q |-> aiDrv.open[p + i]]
      BY <1>1, <1>6
    <3> HIDE DEF rest
    <3>2. \A i \in 1 .. q : aiDrv.open[p + i] \in Nat
      BY <1>6, <2>1
    <3>3. q \in Nat
      BY <1>1
    <3>4. rest \in Seq(Nat)
      BY ONLY <3>1, <3>2, <3>3
    <3>5. Len(rest) = q
      BY ONLY <3>1, <3>3, <3>4
    <3>6. \A i \in 1 .. q : rest[i] = aiDrv.open[p + i]
      BY ONLY <3>1
    <3> QED BY <3>4, <3>5, <3>6
  <2> HIDE DEF read, rest
  <2>4. read \o rest \in Seq(Nat) /\ Len(read \o rest) = L
    <3>1. read \o rest \in Seq(Nat) /\ Len(read \o rest) = Len(read) + Len(rest)
      BY <2>2, <2>3, ConcatProperties
    <3> QED BY <1>1, <2>2, <2>3, <3>1
  <2>5. ASSUME NEW i \in 1 .. L PROVE (read \o rest)[i] = aiDrv.open[i]
    <3>1. CASE i <= p
      BY ONLY <1>1, <2>2, <2>3, <3>1, i \in 1 .. L
    <3>2. CASE ~(i <= p)
      <4>1. i - p \in 1 .. q /\ p + (i - p) = i
        BY ONLY <1>1, <3>2, i \in 1 .. L
      <4>2. rest[i - p] = aiDrv.open[i]
        BY ONLY <2>3, <4>1
      <4>3. (read \o rest)[i] = rest[i - p]
        BY ONLY <1>1, <2>2, <2>3, <3>2, i \in 1 .. L
      <4> QED BY <4>2, <4>3
    <3> QED BY <3>1, <3>2
  <2>6. aiDrv.open = read \o rest
    BY <1>3, <2>4, <2>5, SeqEqual
  <2> QED BY <2>6 DEF AnsweredInOrder, read, rest
<1>8. SuccessMeansStored
  <2>1. ASSUME NEW i \in 1 .. p PROVE Unread[i].ok <=> aiDrv.stored[Unread[i].num] > 0
    <3>1. Unread[i] = ai.comps[SlotOf(ai, i)] /\ i \in 1 .. L /\ aiDrv.open[i] = Unread[i].num
      BY <1>1, <1>5
    <3>2. Answered(ai, i)
      BY <1>1, <1>4, <3>1
    <3>3. ai.comps[SlotOf(ai, i)].ok <=> aiDrv.stored[aiDrv.open[i]] > 0
      BY <1>2, <1>3, <3>1, <3>2 DEF PumpInv, StoresKnown
    <3> QED BY ONLY <3>1, <3>3
  <2>2. DOMAIN Unread = 1 .. p
    BY <1>1
  <2> QED BY <2>1, <2>2 DEF SuccessMeansStored
<1>9. StoredTwiceOnlyIfRefused
  <2>1. ToSet(aiDrv.open) = {aiDrv.open[i] : i \in 1 .. L}
    BY <1>3 DEF ToSet
  <2>2. \A i \in 1 .. L : aiDrv.stored[aiDrv.open[i]] > 1 => aiMem.badSlot \in Slots
    BY <1>2, <1>3 DEF PumpInv, StoresKnown
  <2> QED BY <2>1, <2>2 DEF StoredTwiceOnlyIfRefused
<1>10. DoorbellCovers
  BY <1>2 DEF PumpInv, BudgetCovers, DoorbellCovers
<1>11. AnswerSignalled
  <2>1. ASSUME Unread # << >>, aiDrv.ctail = ai.ctail PROVE aiDrv.chead < aiDrv.ctail
    <3>1. p # 0
      BY <1>1, <2>1
    <3>2. ai.ctail = ai.head /\ aiDrv.chead = ai.chead
      BY <1>2 DEF PumpInv, CountersInOrder
    <3>3. ai.chead < ai.head
      BY ONLY <1>1, <1>3, <3>1
    <3> QED BY <2>1, <3>2, <3>3
  <2>2. aiDrv.ctail = ai.ctail \/ ai.irq # {} \/ aiDrv.handling
    BY <1>2 DEF PumpInv, AnswersSeen
  <2> QED BY <1>2, <2>1, <2>2 DEF AnswerSignalled
<1>12. AiTypeOK
  <2>1. ai.head \in 0 .. AiSpan - 1 /\ ai.tail \in 0 .. AiSpan - 1 /\ ai.chead \in 0 .. AiSpan - 1
        /\ ai.ctail \in 0 .. AiSpan - 1 /\ ai.budget \in 0 .. AiEntries
        /\ ai.stage \in {"idle", "load", "compute", "store"}
        /\ ai.irq \subseteq {"completion", "fault"} /\ ai.line \in BOOLEAN
        /\ aiMem.badSlot \in 0 .. AiEntries
    BY <1>2 DEF AiDevices, AiMemories
  <2>2. Len(aiDrv.open) <= 2 * AiEntries
    BY ONLY <1>1, <1>3
  <2> QED BY <2>1, <2>2 DEF AiTypeOK
<1> QED BY <1>7, <1>8, <1>9, <1>10, <1>11, <1>12 DEF SubmissionsAnswered

\* Every submission gets one true answer, in order, and the driver hears of it, for queues of
\* any size and counters of any width (ai_accelerator.cpp, ai_submission_queue.cpp; ai_accel.c).
THEOREM SubmissionsAreAnswered == AiSpec => []SubmissionsAnswered
<1>1. AiInit => AiInv
  BY AiInitOK
<1>2. ASSUME AiInv, [AiNext]_aiVars PROVE AiInv'
  <2>1. ASSUME NEW finished \in BOOLEAN, AiTick(finished) PROVE AiInv'
    BY <1>2, <2>1, AiTickPreserves
  <2>2. ASSUME NEW finished \in BOOLEAN, Doorbell(finished) PROVE AiInv'
    BY <1>2, <2>2, DoorbellPreserves
  <2>3. CASE AiReset
    BY <1>2, <2>3, AiResetPreserves
  <2>4. ASSUME NEW badSlot \in 0 .. AiEntries, ConfigureQueues(badSlot) PROVE AiInv'
    BY <1>2, <2>4, ConfigureQueuesPreserves
  <2>5. ASSUME NEW kind \in {"good", "invalid", "fault"}, Enqueue(kind) PROVE AiInv'
    BY <1>2, <2>5, EnqueuePreserves
  <2>6. CASE Publish
    BY <1>2, <2>6, PublishPreserves
  <2>7. CASE AiAcknowledge
    BY <1>2, <2>7, AiAcknowledgePreserves
  <2>8. CASE SyncCompletionTail
    BY <1>2, <2>8, SyncCompletionTailPreserves
  <2>9. CASE DequeueCompletion
    BY <1>2, <2>9, DequeueCompletionPreserves
  <2>10. CASE UNCHANGED aiVars
    <3>1. ai' = ai /\ aiMem' = aiMem /\ aiDrv' = aiDrv
      BY <2>10 DEF aiVars
    <3>2. PumpInv(ai', aiMem', aiDrv') /\ (ai'.line <=> ai'.irq # {})
      BY <1>2, <3>1 DEF AiInv
    <3> QED BY <3>2, AiInvPrimed
  <2> QED BY <1>2, <2>1, <2>2, <2>3, <2>4, <2>5, <2>6, <2>7, <2>8, <2>9, <2>10 DEF AiNext
<1>3. AiInv => SubmissionsAnswered
  BY AiInvAnswers
<1> QED BY <1>1, <1>2, <1>3, PTL DEF AiSpec
=============================================================================
