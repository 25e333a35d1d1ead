----------------------------- MODULE CourseSync -----------------------------
(***************************************************************************)
(* The counting semaphore and the mutex of the course OS                   *)
(* (guest/kernel/course_sync.c), over the process table they keep a        *)
(* pointer to.  A queue holds pids, not processes: between the wait and    *)
(* the wake-up a waiter may be killed, reaped, and its slot given away.    *)
(*                                                                         *)
(* The environment is the shell's: `sem` and `mutex` take any pid          *)
(* (course_shell.c:961 and 1040), `kill` any other process.  A step that   *)
(* no program would take (a process that does not run calls, locks what it *)
(* holds, or goes while it waits or holds; a primitive is initialised      *)
(* again) is a slip.  Slips are counted and bounded: some properties hold  *)
(* only as long as there was none.                                         *)
(*                                                                         *)
(* The misuse counter is left out.  `ledger` is a history variable.        *)
(***************************************************************************)
EXTENDS CourseProcess, Sequences, SequencesExt

CONSTANTS
  InitialValues,  \* values a semaphore is initialised with
  MaxPosts,       \* bound on the posts between two initialisations
  MaxSlips        \* bound on the slips

ASSUME SyncAssumption == InitialValues \subseteq Int /\ MaxPosts \in Nat /\ MaxSlips \in Nat

VARIABLES
  semaphore,  \* course_semaphore_t: value and waiters, first come first
  mutex,      \* course_mutex_t: owner (0 when free) and waiters
  ledger,     \* what the semaphore was given and gave: start, posts, grants
  slips       \* slips so far

vars == <<table, semaphore, mutex, ledger, slips>>

MaxWaiters == MaxProcesses   \* COURSE_SYNC_MAX_WAITERS

Exists(pid) == StateOf(table, pid) \notin {"UNUSED", "DEAD"}   \* find_process

-----------------------------------------------------------------------------
\* course_process_set_state as the wake-ups use it: it fails for a pid nobody has.
Wake(pid) ==
  IF SlotOf(table, pid) = 0 THEN UNCHANGED table ELSE table' = SetState(table, pid, "READY")

SemaphoreInit(v) ==
  /\ semaphore' = [value |-> v, waiters |-> <<>>]
  /\ ledger' = [start |-> v, posts |-> 0, grants |-> 0]
  /\ UNCHANGED <<table, mutex>>

\* Mutant: the last credit is given away twice.
SemaphoreTakeAtZero(pid) ==
  /\ Exists(pid) /\ semaphore.value >= 0
  /\ semaphore' = [semaphore EXCEPT !.value = IF @ = 0 THEN 0 ELSE @ - 1]
  /\ ledger' = [ledger EXCEPT !.grants = @ + 1]
  /\ UNCHANGED <<table, mutex>>

\* course_semaphore_wait with credit left.
SemaphoreTake(pid) ==
  /\ Exists(pid) /\ semaphore.value > 0
  /\ semaphore' = [semaphore EXCEPT !.value = @ - 1]
  /\ ledger' = [ledger EXCEPT !.grants = @ + 1]
  /\ UNCHANGED <<table, mutex>>

\* Mutant: the test that the queue has room is missing.
SemaphoreBlockUnbounded(pid) ==
  /\ Exists(pid) /\ semaphore.value <= 0
  /\ semaphore' = [semaphore EXCEPT !.waiters = Append(@, pid)]
  /\ table' = SetState(table, pid, "BLOCKED")
  /\ UNCHANGED <<mutex, ledger>>

\* course_semaphore_wait without credit: the caller queues and blocks.
SemaphoreBlock(pid) ==
  /\ Exists(pid) /\ semaphore.value <= 0 /\ Len(semaphore.waiters) < MaxWaiters
  /\ semaphore' = [semaphore EXCEPT !.waiters = Append(@, pid)]
  /\ table' = SetState(table, pid, "BLOCKED")
  /\ UNCHANGED <<mutex, ledger>>

\* Mutant: a post that finds nobody waiting is forgotten.
SemaphorePostForgets ==
  /\ ledger.posts < MaxPosts
  /\ semaphore' = [semaphore EXCEPT !.waiters = IF @ = <<>> THEN @ ELSE Tail(@)]
  /\ IF semaphore.waiters = <<>> THEN UNCHANGED table ELSE Wake(Head(semaphore.waiters))
  /\ ledger' = [ledger EXCEPT !.posts = @ + 1,
                  !.grants = @ + IF semaphore.waiters = <<>> THEN 0 ELSE 1]
  /\ UNCHANGED mutex

\* course_semaphore_post: the first waiter gets the credit, or the value keeps it.
\* A first waiter whose slot was given away is dropped, and the credit with it.
SemaphorePost ==
  LET first == Head(semaphore.waiters)
  IN  /\ ledger.posts < MaxPosts
      /\ IF semaphore.waiters = <<>>
         THEN /\ semaphore' = [semaphore EXCEPT !.value = @ + 1]
              /\ ledger' = [ledger EXCEPT !.posts = @ + 1]
              /\ UNCHANGED table
         ELSE /\ semaphore' = [semaphore EXCEPT !.waiters = Tail(@)]
              /\ ledger' = [ledger EXCEPT !.posts = @ + 1,
                              !.grants = @ + IF SlotOf(table, first) = 0 THEN 0 ELSE 1]
              /\ Wake(first)
      /\ UNCHANGED mutex

MutexInit ==
  /\ mutex' = [owner |-> 0, waiters |-> <<>>]
  /\ UNCHANGED <<table, semaphore, ledger>>

\* course_mutex_lock of a free mutex.
MutexTake(pid) ==
  /\ Exists(pid) /\ mutex.owner = 0
  /\ mutex' = [mutex EXCEPT !.owner = pid]
  /\ UNCHANGED <<table, semaphore, ledger>>

\* course_mutex_lock of a held mutex, the caller's own included: queue and block.
MutexBlock(pid) ==
  /\ Exists(pid) /\ mutex.owner # 0 /\ Len(mutex.waiters) < MaxWaiters
  /\ mutex' = [mutex EXCEPT !.waiters = Append(@, pid)]
  /\ table' = SetState(table, pid, "BLOCKED")
  /\ UNCHANGED <<semaphore, ledger>>

\* Mutant: the mutex is set free and the first waiter woken to try again.
MutexUnlockFrees(pid) ==
  /\ mutex.owner # 0 /\ mutex.owner = pid
  /\ mutex' = [owner |-> 0, waiters |-> IF mutex.waiters = <<>> THEN <<>> ELSE Tail(mutex.waiters)]
  /\ IF mutex.waiters = <<>> THEN UNCHANGED table ELSE Wake(Head(mutex.waiters))
  /\ UNCHANGED <<semaphore, ledger>>

\* Mutant: the new owner is not woken.
MutexUnlockSilent(pid) ==
  /\ mutex.owner # 0 /\ mutex.owner = pid
  /\ mutex' = IF mutex.waiters = <<>> THEN [mutex EXCEPT !.owner = 0]
              ELSE [owner |-> Head(mutex.waiters), waiters |-> Tail(mutex.waiters)]
  /\ UNCHANGED <<table, semaphore, ledger>>

\* Mutant: the new owner is left in the queue.
MutexUnlockKeepsWaiter(pid) ==
  /\ mutex.owner # 0 /\ mutex.owner = pid
  /\ IF mutex.waiters = <<>> THEN mutex' = [mutex EXCEPT !.owner = 0] /\ UNCHANGED table
     ELSE mutex' = [mutex EXCEPT !.owner = Head(mutex.waiters)] /\ Wake(Head(mutex.waiters))
  /\ UNCHANGED <<semaphore, ledger>>

\* Mutant: the last waiter is served first.
MutexUnlockLastFirst(pid) ==
  /\ mutex.owner # 0 /\ mutex.owner = pid
  /\ IF mutex.waiters = <<>> THEN mutex' = [mutex EXCEPT !.owner = 0] /\ UNCHANGED table
     ELSE /\ mutex' = [owner |-> Last(mutex.waiters), waiters |-> Front(mutex.waiters)]
          /\ Wake(Last(mutex.waiters))
  /\ UNCHANGED <<semaphore, ledger>>

\* course_mutex_unlock by the owner: the mutex goes to the first waiter, never free
\* in between.  Anybody else is refused and nothing changes.
MutexUnlock(pid) ==
  /\ mutex.owner # 0 /\ mutex.owner = pid
  /\ IF mutex.waiters = <<>>
     THEN mutex' = [mutex EXCEPT !.owner = 0] /\ UNCHANGED table
     ELSE /\ mutex' = [owner |-> Head(mutex.waiters), waiters |-> Tail(mutex.waiters)]
          /\ Wake(Head(mutex.waiters))
  /\ UNCHANGED <<semaphore, ledger>>

-----------------------------------------------------------------------------
SyncInit ==
  /\ Init
  /\ \E v \in InitialValues : semaphore = [value |-> v, waiters |-> <<>>]
  /\ mutex = [owner |-> 0, waiters |-> <<>>]
  /\ ledger = [start |-> semaphore.value, posts |-> 0, grants |-> 0]
  /\ slips = 0

Unsynchronised == UNCHANGED <<semaphore, mutex, ledger>>

Queued == ToSet(semaphore.waiters) \cup ToSet(mutex.waiters)
Runs(pid) == StateOf(table, pid) \in {"READY", "RUNNING"}
Engaged(pid) == pid \in Queued \/ pid = mutex.owner

\* The step is a slip if `slip'.
Counted(slip) == slips' = slips + (IF slip THEN 1 ELSE 0) /\ slips' <= MaxSlips

\* Processes come, are killed, exit and are reaped at will; only the shell itself,
\* process 1, stays.
ShellNext ==
  \/ \E p \in Pids : Fork(p) /\ Unsynchronised /\ Counted(~Runs(p))
  \/ \E p \in Pids : p # 1 /\ Exit(p) /\ Unsynchronised /\ Counted(~Runs(p) \/ Engaged(p))
  \/ \E p \in Pids : Kill(1, p) /\ Unsynchronised /\ Counted(Engaged(p))
  \/ \E p \in Pids : Wait(p) /\ Unsynchronised /\ Counted(~Runs(p))
  \/ \E v \in InitialValues : SemaphoreInit(v) /\ Counted(TRUE)
  \/ \E p \in Pids : (SemaphoreTake(p) \/ SemaphoreBlock(p)) /\ Counted(~Runs(p))
  \/ SemaphorePost /\ Counted(FALSE)
  \/ MutexInit /\ Counted(TRUE)
  \/ \E p \in Pids : (MutexTake(p) \/ MutexUnlock(p)) /\ Counted(~Runs(p))
  \/ \E p \in Pids : MutexBlock(p) /\ Counted(~Runs(p) \/ p = mutex.owner)

ShellSpec == SyncInit /\ [][ShellNext]_vars

-----------------------------------------------------------------------------
(* Properties *)

\* Types, and queues within their arrays.
SyncTypeOK ==
  /\ TypeOK
  /\ semaphore.value \in Int /\ Len(semaphore.waiters) <= MaxWaiters
  /\ mutex.owner \in Pids \cup {0} /\ Len(mutex.waiters) <= MaxWaiters
  /\ Queued \subseteq Pids

\* Nobody waits for what is there to take: with waiters, the semaphore has no credit
\* and the mutex an owner, whoever was killed or reaped in the meantime.
NobodyWaitsInVain ==
  /\ semaphore.waiters # <<>> => semaphore.value <= 0
  /\ mutex.waiters # <<>> => mutex.owner # 0

\* The semaphore never lets through more callers than it was given credits for.
NoCreditForged == semaphore.value + ledger.grants <= ledger.start + ledger.posts

\* Without slips no credit is lost either.
NoCreditLost ==
  slips = 0 => semaphore.value + ledger.grants = ledger.start + ledger.posts

\* Without slips a process is blocked exactly while it stands in one queue, once: no
\* wake-up is lost and nobody is woken for what it did not wait for.
BlockedIsQueued ==
  slips = 0 =>
    /\ \A p \in Pids : StateOf(table, p) = "BLOCKED" <=> p \in Queued
    /\ IsInjective(semaphore.waiters \o mutex.waiters)

\* Without slips the owner of the mutex can run, or waits for the semaphore: it is
\* never in the mutex's own queue, and never gone.
OwnerNotStuck ==
  slips = 0 /\ mutex.owner # 0 =>
    IsLive(table, mutex.owner) /\ mutex.owner \notin ToSet(mutex.waiters)

\* A waiter leaves the mutex's queue as its owner, and no later waiter before it,
\* unless the mutex is initialised again.
ServedInOrder ==
  [][mutex'.waiters # mutex.waiters =>
       \/ mutex' = [owner |-> 0, waiters |-> <<>>]
       \/ \E p \in Pids : mutex'.waiters = Append(mutex.waiters, p)
       \/ mutex.waiters = <<mutex'.owner>> \o mutex'.waiters]_vars

\* What the comment in course_process_exit says of a process that exited: it stays a
\* zombie until its parent has waited for it.
ExitedStaysExited ==
  [][\A s \in Slots :
       table.procs[s].state = "ZOMBIE" => table'.procs[s].state \in {"ZOMBIE", "DEAD"}]_vars

\* Queues within their arrays; and, without slips, every credit is given to somebody, whoever
\* blocks stands in a queue, and the owner of the mutex can go on.
WaitersServed == SyncTypeOK /\ NoCreditLost /\ BlockedIsQueued /\ OwnerNotStuck
=============================================================================
