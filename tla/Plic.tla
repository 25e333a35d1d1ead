-------------------------------- MODULE Plic --------------------------------
(***************************************************************************)
(* The interrupt controller (devices/plic.cpp): level-triggered sources, a *)
(* machine and a supervisor context.  A source is pending until a context  *)
(* claims it, and is sampled again when that context completes it.         *)
(* Devices raise and drop their lines at any time, claimed or not; guests  *)
(* write the registers at any time.                                        *)
(***************************************************************************)
EXTENDS Naturals

CONSTANTS
  NumSources,   \* kNumSources
  MaxPriority   \* priorities and thresholds are 0..MaxPriority (7 in the code)

ASSUME PlicAssumption == NumSources \in Nat /\ MaxPriority \in Nat

VARIABLE plic   \* level, pending and claimedBy of the sources; priority, enables, threshold

Sources == 1..NumSources
Contexts == {"machine", "supervisor"}
Unclaimed == "none"

-----------------------------------------------------------------------------
\* best_pending_source considers it for the context.
Eligible(ctx, s) ==
  /\ plic.pending[s] /\ plic.claimedBy[s] = Unclaimed /\ s \in plic.enables[ctx]
  /\ plic.priority[s] # 0 /\ plic.priority[s] > plic.threshold[ctx]

PriorityOf(s) == IF s = 0 THEN 0 ELSE plic.priority[s]

\* Mutant: a later source of the same priority wins.
BestPendingSourceLast(ctx) ==
  LET best[s \in 0..NumSources] ==
        IF s = 0 THEN 0
        ELSE IF Eligible(ctx, s) /\ plic.priority[s] >= PriorityOf(best[s - 1]) THEN s
        ELSE best[s - 1]
  IN  best[NumSources]

\* The loop over the sources, 0 when there is none.
BestPendingSource(ctx) ==
  LET best[s \in 0..NumSources] ==
        IF s = 0 THEN 0
        ELSE IF Eligible(ctx, s) /\ plic.priority[s] > PriorityOf(best[s - 1]) THEN s
        ELSE best[s - 1]
  IN  best[NumSources]

PlicInit ==
  plic = [level     |-> [s \in Sources |-> FALSE],
          pending   |-> [s \in Sources |-> FALSE],
          claimedBy |-> [s \in Sources |-> Unclaimed],
          priority  |-> [s \in Sources |-> 0],
          enables   |-> [c \in Contexts |-> {}],
          threshold |-> [c \in Contexts |-> 0]]

\* Mutant: a source that is being handled becomes pending at once.
SetSourceLevelAlways(s, asserted) ==
  plic' = [plic EXCEPT !.level[s] = asserted, !.pending[s] = @ \/ asserted]

SetSourceLevel(s, asserted) ==
  plic' = [plic EXCEPT !.level[s] = asserted,
             !.pending[s] = @ \/ (asserted /\ plic.claimedBy[s] = Unclaimed)]

\* Mutant: the value is stored as it was written.
MaskedNot(value) == value

\* Priorities and thresholds keep their width.
Masked(value) == value % (MaxPriority + 1)

WritePriority(s, value) == plic' = [plic EXCEPT !.priority[s] = Masked(value)]
WriteEnables(ctx, set) == plic' = [plic EXCEPT !.enables[ctx] = set]
WriteThreshold(ctx, value) == plic' = [plic EXCEPT !.threshold[ctx] = Masked(value)]

\* Reading the claim register.  Without a source to claim it reads 0 and changes nothing.
Claim(ctx) ==
  LET s == BestPendingSource(ctx)
  IN  /\ s # 0
      /\ plic' = [plic EXCEPT !.pending[s] = FALSE, !.claimedBy[s] = ctx]

\* Mutant: the level is not sampled again.
CompleteUnsampled(ctx, s) ==
  /\ plic.claimedBy[s] = ctx
  /\ plic' = [plic EXCEPT !.claimedBy[s] = Unclaimed]

\* Writing the claim register.  Only the context that claimed the source can complete it.
Complete(ctx, s) ==
  /\ plic.claimedBy[s] = ctx
  /\ plic' = [plic EXCEPT !.claimedBy[s] = Unclaimed, !.pending[s] = plic.level[s]]

PlicNext ==
  \/ \E s \in Sources, on \in BOOLEAN : SetSourceLevel(s, on)
  \/ \E s \in Sources, p \in 0..(MaxPriority + 1) : WritePriority(s, p)
  \/ \E ctx \in Contexts, set \in SUBSET Sources : WriteEnables(ctx, set)
  \/ \E ctx \in Contexts, t \in 0..(MaxPriority + 1) : WriteThreshold(ctx, t)
  \/ \E ctx \in Contexts : Claim(ctx)
  \/ \E ctx \in Contexts, s \in Sources : Complete(ctx, s)

PlicSpec == PlicInit /\ [][PlicNext]_plic

\* A context with something pending traps and claims; what was claimed is completed.
PlicFairness ==
  /\ \A ctx \in Contexts : WF_plic(Claim(ctx))
  /\ \A ctx \in Contexts, s \in Sources : WF_plic(Complete(ctx, s))

-----------------------------------------------------------------------------
(* Properties *)

PlicTypeOK ==
  plic \in [level : [Sources -> BOOLEAN], pending : [Sources -> BOOLEAN],
            claimedBy : [Sources -> Contexts \cup {Unclaimed}],
            priority : [Sources -> 0..MaxPriority],
            enables : [Contexts -> SUBSET Sources],
            threshold : [Contexts -> 0..MaxPriority]]

\* No level is lost and none is delivered twice: an asserted source is pending or being
\* handled, and one that is being handled is not pending.
LevelsDeliveredOnce ==
  \A s \in Sources :
    /\ plic.level[s] => plic.pending[s] \/ plic.claimedBy[s] # Unclaimed
    /\ plic.claimedBy[s] # Unclaimed => ~plic.pending[s]

\* A claim takes the most urgent source of the context, the one with the lowest number
\* among equals.
ClaimTakesMostUrgent ==
  [][\A ctx \in Contexts, s \in Sources :
       plic.claimedBy[s] # ctx /\ plic'.claimedBy[s] = ctx =>
         \A t \in Sources \ {s} :
           Eligible(ctx, t) =>
             \/ plic.priority[t] < plic.priority[s]
             \/ plic.priority[t] = plic.priority[s] /\ s < t]_plic

\* A source that stays asserted and stays the most urgent of a context is delivered again
\* and again, however lines, priorities and enables of the others change.
Urgent(ctx, s) ==
  /\ plic.level[s] /\ s \in plic.enables[ctx] /\ plic.priority[s] > plic.threshold[ctx]
  /\ \A t \in Sources \ {s} : plic.priority[t] < plic.priority[s]

UrgentIsDelivered ==
  \A ctx \in Contexts, s \in Sources :
    <>[]Urgent(ctx, s) => []<>(plic.claimedBy[s] # Unclaimed)

\* Both, of every level.
DeliveredOnce == PlicTypeOK /\ LevelsDeliveredOnce
=============================================================================
