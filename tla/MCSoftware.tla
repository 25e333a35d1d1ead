------------------------------ MODULE MCSoftware ------------------------------
(***************************************************************************)
(* Parts of the guest's and the simulator's software, for TLC: as in       *)
(* MCDevices one unit runs and the others rest in their initial states.    *)
(* The files of the Linux layer are three units, each with the calls whose *)
(* interplay it is about: names, contents, pipes.                          *)
(***************************************************************************)
EXTENDS CourseScheduler, MCLinuxFiles, DbtRuntime, LoadStoreQueue

VARIABLE unit   \* the one that runs

Units == {"scheduler", "names", "contents", "pipes", "dbt", "queue"}

\* Two virtual cells exchanged with the physical ones, or seen as the same.
CellMaps == {Identity, <<2, 1>>, <<1, 1>>}

SoftwareInit ==
  /\ unit \in Units
  /\ SchedulerInit /\ LinuxInit
  /\ DbtInit /\ (unit # "dbt" => dbtCode = [c \in Cells |-> "other"])
  /\ LsqInit /\ (unit # "queue" => ~lsqCaller.eager)
  /\ unit # "scheduler" => policy = "FCFS"

\* Only unit u moves.
Rest(u) ==
  /\ unit = u /\ UNCHANGED unit
  /\ IF u = "scheduler" THEN TRUE ELSE UNCHANGED schedulerVars
  /\ IF u \in {"names", "contents", "pipes"} THEN TRUE ELSE UNCHANGED linuxVars
  /\ IF u = "dbt" THEN TRUE ELSE UNCHANGED dbtVars
  /\ IF u = "queue" THEN TRUE ELSE UNCHANGED lsqVars

Kinds(K) == \A fd \in Fds : fds'[fd].kind \in K

SoftwareNext ==
  \/ Rest("scheduler") /\ SchedulerNext
  \/ Rest("names") /\ (DescriptorCall \/ CopyCall \/ NameCall)
       /\ Kinds({"closed", "lower", "overlay"})
       /\ \A fd \in Fds : ~fds'[fd].append /\ ~fds'[fd].cloexec
  \/ Rest("contents") /\ (DescriptorCall \/ DataCall)
       /\ Kinds({"closed", "lower", "overlay", "terminal"}) /\ UNCHANGED pipes
       /\ \A n \in NodeSlots : nodes'[n].path \in {NoName, "/l"}
  \/ Rest("pipes") /\ (DescriptorCall \/ DataCall)
       /\ Kinds({"closed", "reader", "writer", "device"}) /\ UNCHANGED nodes
  \/ Rest("dbt") /\ DbtNext
  \/ Rest("queue") /\ LsqNext

SoftwareSpec == SoftwareInit /\ [][SoftwareNext]_<<unit, schedulerVars, linuxVars, dbtVars, lsqVars>>
=============================================================================
