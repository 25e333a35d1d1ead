----------------------------- MODULE MCServices -----------------------------
(***************************************************************************)
(* The processes of the course OS, the memory of the guest kernel and of   *)
(* Linux programs, and the debug session and server, for TLC: as in        *)
(* MCDevices one unit runs and the others rest in their initial states.    *)
(* Four units share the page tables: two programs short of frames (tasks), one *)
(* whose regions and device are played with (memory), and a Linux program  *)
(* with anonymous memory (heap) or with mapped files (files).              *)
(***************************************************************************)
EXTENDS CourseSync, DebugCliSession, DebugServer, LinuxVm

CONSTANT MaxStarts   \* bound on the programs that unit "tasks" creates

VARIABLES
  unit,   \* the one that runs
  starts  \* programs created so far

Units == {"process", "sync", "cli", "server", "tasks", "memory", "heap", "files"}

memoryVars == linuxVmVars

ServicesInit ==
  /\ unit \in Units /\ starts = 0
  /\ SyncInit /\ (unit # "sync" => semaphore.value = 0)
  /\ CliInit /\ ServerInit
  /\ IF unit \in {"heap", "files"} THEN LinuxVmInit
     ELSE VmInit /\ expected = [p \in VmPages |-> "none"]

\* Only unit u moves.
Rest(u) ==
  /\ unit = u /\ UNCHANGED unit
  /\ IF u = "tasks" THEN TRUE ELSE UNCHANGED starts
  /\ IF u = "sync" THEN TRUE ELSE UNCHANGED <<semaphore, mutex, ledger, slips>>
  /\ IF u \in {"process", "sync"} THEN TRUE ELSE UNCHANGED table
  /\ IF u = "cli" THEN TRUE ELSE UNCHANGED cliVars
  /\ IF u = "server" THEN TRUE ELSE UNCHANGED serverVars
  /\ IF u \in {"tasks", "memory", "heap", "files"} THEN TRUE ELSE UNCHANGED memoryVars
  /\ IF u \in {"tasks", "memory"} THEN UNCHANGED expected ELSE TRUE

TaskStep == \E t \in Tasks :
  /\ ProgramStep(t)
  /\ starts' = IF t \in kernel'.created \ kernel.created THEN starts + 1 ELSE starts
  /\ starts' <= MaxStarts

LinuxStep ==
  \/ ExecStep \/ ExitStep \/ ProgramAccess
  \/ kernel.running = 1 /\ CopyUserCall
  \/ kernel.running = 1 /\ \E first \in Accessed, size \in {1, 2} : MunmapCall(first, size)

ServicesNext ==
  \/ Rest("process") /\ Next
  \/ Rest("sync") /\ ShellNext
  \/ Rest("cli") /\ CliNext
  \/ Rest("server") /\ ServerNext
  \/ Rest("tasks") /\ TaskStep
  \/ Rest("tasks") /\ \E p \in {1, 2} : UserAccess(p, "w") /\ UNCHANGED starts
  \/ Rest("memory") /\ (ProgramStep(1) \/ MemoryStep(1) \/ DeviceStep)
  \/ Rest("memory") /\ \E p \in {1, 2, 6}, need \in {"r", "w"} : UserAccess(p, need)
  \/ Rest("heap") /\ LinuxStep
  \/ Rest("heap") /\ kernel.running = 1 /\ AnonymousCall
  \/ Rest("files") /\ LinuxStep
  \/ Rest("files") /\ kernel.running = 1 /\ FileCall

ServicesSpec ==
  ServicesInit /\ [][ServicesNext]_<<unit, starts, vars, cliVars, serverVars, memoryVars>>
=============================================================================
