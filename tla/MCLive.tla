------------------------------- MODULE MCLive -------------------------------
(***************************************************************************)
(* What must eventually happen, for TLC: the online scheduler under round  *)
(* robin, the interrupt controller, the console input and the pipeline on  *)
(* small programs.  One of them runs, the others rest in their initial     *)
(* states.                                                                 *)
(***************************************************************************)
EXTENDS CourseScheduler, Plic, Console

VARIABLES
  unit,   \* the one that runs
  cpu, pipe, predictor, irq, program

Programs == INSTANCE MCPipeline WITH
  NumArch <- 3, CodeLen <- 5, TrapVector <- 4, SyscallReg <- 2, ExitCode <- 3, NumPhys <- 7,
  TableSize <- 2, RobBound <- 4, LsqBound <- 3, Starts <- {}

Core == INSTANCE Pipeline WITH
  NumArch <- 3, CodeLen <- 5, TrapVector <- 4, SyscallReg <- 2, ExitCode <- 3, NumPhys <- 7,
  TableSize <- 2, RobBound <- 4, LsqBound <- 3, Starts <- Programs!LiveStarts

\* The pipeline at rest.
Rest == INSTANCE Pipeline WITH
  NumArch <- 3, CodeLen <- 5, TrapVector <- 4, SyscallReg <- 2, ExitCode <- 3, NumPhys <- 7,
  TableSize <- 2, RobBound <- 4, LsqBound <- 3, Starts <- {CHOOSE s \in Programs!LiveStarts : TRUE}

coreVars == <<cpu, pipe, predictor, irq, program>>
liveVars == <<unit, schedulerVars, plic, consoleVars, coreVars>>

Units == {"scheduler", "plic", "console", "pipeline"}

LiveInit ==
  /\ unit \in Units
  /\ SchedulerInit /\ PlicInit /\ ConsoleInit
  /\ IF unit = "pipeline" THEN Core!Init ELSE Rest!Init

Scheduled(A) == unit = "scheduler" /\ A /\ UNCHANGED <<unit, plic, consoleVars, coreVars>>
Controlled(A) == unit = "plic" /\ A /\ UNCHANGED <<unit, schedulerVars, consoleVars, coreVars>>
Typed(A) == unit = "console" /\ A /\ UNCHANGED <<unit, schedulerVars, plic, coreVars>>
Clocked(A) == unit = "pipeline" /\ A /\ UNCHANGED <<unit, schedulerVars, plic, consoleVars>>

LiveNext ==
  Scheduled(SchedulerNext) \/ Controlled(PlicNext) \/ Typed(ConsoleNext) \/ Clocked(Core!Next)

\* FairSpec, PlicFairness, ConsoleFairness and Core!FairSpec, each of the unit that runs.
LiveSpec ==
  /\ LiveInit /\ [][LiveNext]_liveVars
  /\ WF_liveVars(Scheduled(Tick))
  /\ \A ctx \in Contexts :
       /\ WF_liveVars(Controlled(Claim(ctx)))
       /\ \A s \in Sources : WF_liveVars(Controlled(Complete(ctx, s)))
  /\ WF_liveVars(Typed(HandlerStep)) /\ WF_liveVars(Typed(ShellStep))
  /\ WF_liveVars(Clocked(Core!Cycle))

PipelineServes == unit = "pipeline" => Core!PipelineServes
=============================================================================
