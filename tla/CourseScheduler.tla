--------------------------- MODULE CourseScheduler ---------------------------
(***************************************************************************)
(* The online scheduler of the course OS (guest/kernel/course_scheduler.c),*)
(* moved on by timer ticks, over the process table it keeps a pointer to.  *)
(* Between two ticks processes are created, blocked, woken, killed, reaped *)
(* and their slots given away; the scheduler finds out at the next tick.   *)
(*                                                                         *)
(* Abstraction: a task is its pid; vruntime is counted under CFS-lite and  *)
(* slice_used under RR only, the policies that read them; statistics are   *)
(* left out.  The policy is chosen before the first tick, as every caller  *)
(* does, and index 0 stands for COURSE_ONLINE_SCHEDULER_NO_INDEX.          *)
(***************************************************************************)
EXTENDS CourseProcess, Sequences

CONSTANTS
  Policies,     \* subset of {"FCFS", "RR", "CFS_LITE"}
  TimeSlice,    \* ticks a process may run under RR
  MaxTasks,     \* COURSE_SCHEDULER_MAX_TASKS (8)
  MaxVruntime   \* bound on the ticks a process runs under CFS-lite

ASSUME SchedulerAssumption ==
  /\ Policies \subseteq {"FCFS", "RR", "CFS_LITE"}
  /\ TimeSlice \in Nat \ {0}
  /\ MaxTasks \in Nat
  /\ MaxVruntime \in Nat

VARIABLES
  policy,
  tasks,      \* pids registered, in registration order; never removed
  vruntime,   \* ticks each task has run
  current,    \* current_index
  sliceUsed   \* slice_used

schedulerVars == <<table, policy, tasks, vruntime, current, sliceUsed>>
scheduler == <<policy, tasks, vruntime, current, sliceUsed>>

-----------------------------------------------------------------------------
(* Picking the next task: an index, 0 for nobody *)

Ready(i) == StateOf(table, tasks[i]) = "READY"

CurrentRunning == current # 0 /\ StateOf(table, tasks[current]) = "RUNNING"

LeastIndex(S) == IF S = {} THEN 0 ELSE CHOOSE i \in S : \A j \in S : i <= j

\* Mutant: the search stops one short of the last task.
PickFcfsButLast == LeastIndex({i \in DOMAIN tasks : i < Len(tasks) /\ Ready(i)})

\* online_pick_fcfs
PickFcfs == LeastIndex({i \in DOMAIN tasks : Ready(i)})

\* Mutant: the search starts at the first task whoever ran last.
PickRrFromStart(previous) == LeastIndex({i \in DOMAIN tasks : Ready(i)})

\* Mutant: the search does not wrap around.
PickRrNoWrap(previous) == LeastIndex({i \in DOMAIN tasks : i > previous /\ Ready(i)})

\* online_pick_rr: the first ready task after the previous one, wrapping around, the
\* previous one itself last.
PickRr(previous) ==
  LET after == LeastIndex({i \in DOMAIN tasks : i > previous /\ Ready(i)})
  IN  IF after # 0 THEN after ELSE LeastIndex({i \in DOMAIN tasks : Ready(i)})

\* online_process_cfs_candidate: ready, or running and current.
CfsCandidates == {i \in DOMAIN tasks : Ready(i) \/ (i = current /\ CurrentRunning)}

\* Mutant: the order of pids decides, whoever has run how long.
PickCfsByPid ==
  IF CfsCandidates = {} THEN 0
  ELSE CHOOSE i \in CfsCandidates : \A j \in CfsCandidates : tasks[i] <= tasks[j]

\* online_pick_cfs_lite: least vruntime, then least pid.
PickCfs ==
  LET ahead(i, j) ==
        vruntime[i] < vruntime[j] \/ (vruntime[i] = vruntime[j] /\ tasks[i] <= tasks[j])
  IN  IF CfsCandidates = {} THEN 0
      ELSE CHOOSE i \in CfsCandidates : \A j \in CfsCandidates : ahead(i, j)

Pick(previous) ==
  CASE policy = "FCFS" -> PickFcfs
    [] policy = "RR" -> PickRr(previous)
    [] policy = "CFS_LITE" -> PickCfs

-----------------------------------------------------------------------------
(* A tick *)

\* Mutant: the process switched from is not made ready again.
TableAfterKeepsRunning(next, previous) ==
  IF next = 0 THEN table ELSE SetState(table, tasks[next], "RUNNING")

\* online_select: the next process runs and the previous one, if it still does, is ready
\* again.  With nobody to select the table is left as it is.
TableAfter(next, previous) ==
  IF next = 0 THEN table
  ELSE LET running == SetState(table, tasks[next], "RUNNING")
       IN  IF previous # 0 /\ previous # next /\ StateOf(table, tasks[previous]) = "RUNNING"
           THEN SetState(running, tasks[previous], "READY")
           ELSE running

\* The end of course_online_scheduler_tick: the tick is charged to the current process.
Charge(next, used) ==
  /\ current' = next
  /\ sliceUsed' = IF policy = "RR" /\ next # 0 THEN used + 1 ELSE 0
  /\ vruntime' = IF policy = "CFS_LITE" /\ next # 0 THEN [vruntime EXCEPT ![next] = @ + 1]
                 ELSE vruntime
  /\ policy = "CFS_LITE" /\ next # 0 => vruntime[next] < MaxVruntime
  /\ UNCHANGED <<policy, tasks>>

\* The current process stopped running, or there is none: online_release_current, which
\* has nobody to put back, then a new selection.
TickSelect ==
  /\ ~CurrentRunning
  /\ LET next == Pick(current)
     IN  table' = TableAfter(next, 0) /\ Charge(next, 0)

\* The policy lets the current process run on.
KeepsCurrent ==
  \/ policy = "FCFS"
  \/ policy = "RR" /\ sliceUsed < TimeSlice
  \/ policy = "CFS_LITE" /\ PickCfs = current

TickContinue ==
  /\ CurrentRunning /\ KeepsCurrent
  /\ Charge(current, sliceUsed)
  /\ UNCHANGED table

\* The current process still runs and is preempted.
TickPreempt ==
  /\ CurrentRunning /\ ~KeepsCurrent
  /\ LET next == Pick(current)
     IN  table' = TableAfter(next, current) /\ Charge(next, 0)

Tick == TickSelect \/ TickContinue \/ TickPreempt

\* Mutant: registration without the test that the array has room.
AddProcessUnbounded(pid) ==
  /\ IsLive(table, pid)
  /\ \A i \in DOMAIN tasks : tasks[i] # pid
  /\ tasks' = Append(tasks, pid) /\ vruntime' = Append(vruntime, 0)
  /\ UNCHANGED <<table, policy, current, sliceUsed>>

\* course_online_scheduler_add_process: neither gone nor registered before.
AddProcess(pid) ==
  /\ IsLive(table, pid) /\ Len(tasks) < MaxTasks
  /\ \A i \in DOMAIN tasks : tasks[i] # pid
  /\ tasks' = Append(tasks, pid) /\ vruntime' = Append(vruntime, 0)
  /\ UNCHANGED <<table, policy, current, sliceUsed>>

\* A semaphore or the mutex blocks a process (course_sync.c), and wakes it.
Block(pid) == StateOf(table, pid) \in {"READY", "RUNNING"} /\ table' = SetState(table, pid, "BLOCKED")
WakeUp(pid) == StateOf(table, pid) = "BLOCKED" /\ table' = SetState(table, pid, "READY")

\* What happens between two ticks; the shell is everybody's parent.
Processes ==
  /\ \/ Fork(1)
     \/ Wait(1)
     \/ \E p \in Pids : Exec(p) \/ Exit(p) \/ Kill(1, p) \/ Block(p) \/ WakeUp(p)
  /\ UNCHANGED scheduler

SchedulerInit ==
  /\ Init
  /\ policy \in Policies
  /\ tasks = <<>> /\ vruntime = <<>> /\ current = 0 /\ sliceUsed = 0

SchedulerNext == Tick \/ Processes \/ \E p \in Pids : AddProcess(p)

SchedulerSpec == SchedulerInit /\ [][SchedulerNext]_schedulerVars

\* The timer keeps interrupting (course_online_scheduler_timer_post_handler).
FairSpec == SchedulerSpec /\ WF_schedulerVars(Tick)

-----------------------------------------------------------------------------
(* Properties *)

SchedulerTypeOK ==
  /\ TypeOK
  /\ policy \in Policies
  /\ tasks \in Seq(Pids) /\ Len(tasks) <= MaxTasks
  /\ vruntime \in Seq(0 .. MaxVruntime) /\ Len(vruntime) = Len(tasks)
  /\ current \in 0 .. Len(tasks)
  /\ sliceUsed \in 0 .. TimeSlice

\* A process is in state RUNNING only while it is the scheduler's current one, so at
\* most one is: what online_select's comment (course_scheduler.c:611) says it keeps up.
RunningIsCurrent ==
  \A p \in Pids : StateOf(table, p) = "RUNNING" => current # 0 /\ tasks[current] = p

\* Types too.
OneRuns == SchedulerTypeOK /\ RunningIsCurrent

\* A tick is idle only when no registered process could have used it.
NoIdleWhileRunnable ==
  Tick /\ current' = 0 =>
    \A i \in DOMAIN tasks : StateOf(table, tasks[i]) \notin {"READY", "RUNNING"}

\* Under CFS-lite nobody runs ahead of a ready process by more than the tick just charged,
\* however the processes blocked and woke before.
FairShare ==
  Tick /\ policy = "CFS_LITE" /\ current' # 0 =>
    \A i \in DOMAIN tasks : Ready(i)' => vruntime'[current'] <= vruntime'[i] + 1

\* No tick is wasted and, under CFS-lite, none goes to a process that is ahead.
TicksWellSpent == [][NoIdleWhileRunnable /\ FairShare]_schedulerVars

\* Under RR, whatever happened before, a tick is never idle beside a ready process.
NoIdleBesideReady == [][Tick /\ current' = 0 => \A i \in DOMAIN tasks : ~Ready(i)]_schedulerVars

\* Under RR a ready process gets the processor, however often others block and wake.
ReadyIsServed ==
  \A p \in Pids :
    ((\E i \in DOMAIN tasks : tasks[i] = p) /\ StateOf(table, p) = "READY")
      ~> StateOf(table, p) # "READY"
=============================================================================
