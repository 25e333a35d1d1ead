-------------------------- MODULE CourseKernelProofs -------------------------
(***************************************************************************)
(* Proofs about CourseSync for every size of the process table, in the     *)
(* shell's environment, where processes are killed and reaped at will and  *)
(* any pid is made to wait, lock or unlock.                                *)
(*                                                                         *)
(* What CourseProcessProofs shows of the table holds here as well: a step  *)
(* of the shell is one of the table's, or lets a process block or wakes    *)
(* one, a zombie too.                                                      *)
(*                                                                         *)
(* And about CourseScheduler, for every table, number of tasks and bound   *)
(* on the runtimes: the types under every policy, the rest under those     *)
(* that never leave the current process RUNNING and forget it.             *)
(*                                                                         *)
(* And about LinuxFiles, for every number of descriptors, nodes and pipes, *)
(* every size of a file or pipe and every set of names.                    *)
(***************************************************************************)
EXTENDS CourseSync, CourseScheduler, LinuxFiles, CourseProcessProofs, QueueLemmas

\* The part of the types that the proofs need; the process table plays no role.
SyncTypes ==
  /\ semaphore \in [value : Int, waiters : Seq(Pids)]
  /\ mutex \in [owner : Pids \cup {0}, waiters : Seq(Pids)]
  /\ ledger \in [start : Int, posts : Nat, grants : Nat]

\* The inductive invariant: the ledger's balance and the two wait conditions hold
\* step by step once the fields have their types.
SyncInv == SyncTypes /\ NobodyWaitsInVain /\ NoCreditForged

\* What the proofs need to know of a queue of pids.
LEMMA QueueFacts ==
  ASSUME NEW q \in Seq(Pids)
  PROVE  /\ \A p \in Pids : Append(q, p) \in Seq(Pids)
         /\ q # <<>> => Head(q) \in Pids /\ Tail(q) \in Seq(Pids)
BY AppendProperties, HeadTailProperties

LEMMA InitSyncInv == SyncInit => SyncInv
<1> SUFFICES ASSUME SyncInit PROVE SyncInv
  OBVIOUS
<1>1. PICK v \in InitialValues : semaphore = [value |-> v, waiters |-> <<>>]
  BY DEF SyncInit
<1>2. v \in Int
  BY SyncAssumption
<1>3. mutex = [owner |-> 0, waiters |-> <<>>] /\ ledger = [start |-> v, posts |-> 0, grants |-> 0]
  BY <1>1 DEF SyncInit
<1>4. <<>> \in Seq(Pids)
  OBVIOUS
<1>5. SyncTypes
  BY <1>1, <1>2, <1>3, <1>4 DEF SyncTypes
<1> QED
  BY <1>1, <1>2, <1>3, <1>5 DEF SyncInv, NobodyWaitsInVain, NoCreditForged

\* Initialising the semaphore forgets its waiters and balances the ledger.
LEMMA SemaphoreInitPreserves ==
  ASSUME SyncInv, NEW v \in InitialValues, SemaphoreInit(v)
  PROVE  SyncInv'
<1>1. v \in Int /\ <<>> \in Seq(Pids)
  BY SyncAssumption
<1> QED
  BY <1>1 DEF SyncInv, SyncTypes, NobodyWaitsInVain, NoCreditForged, SemaphoreInit

\* A credit taken leaves the semaphore's value for the grants; waiters rule it out.
LEMMA SemaphoreTakePreserves ==
  ASSUME SyncInv, NEW p \in Pids, SemaphoreTake(p)
  PROVE  SyncInv'
<1> USE DEF SyncInv, SyncTypes, NobodyWaitsInVain, NoCreditForged
<1>1. semaphore.value > 0 /\ semaphore.waiters = <<>>
  BY DEF SemaphoreTake
<1>2. /\ semaphore' = [value |-> semaphore.value - 1, waiters |-> semaphore.waiters]
      /\ ledger' = [start |-> ledger.start, posts |-> ledger.posts, grants |-> ledger.grants + 1]
      /\ mutex' = mutex
  BY DEF SemaphoreTake
<1>3. SyncTypes'
  BY <1>1, <1>2
<1> QED
  BY <1>1, <1>2, <1>3

\* Only a caller that found no credit queues.
LEMMA SemaphoreBlockPreserves ==
  ASSUME SyncInv, NEW p \in Pids, SemaphoreBlock(p)
  PROVE  SyncInv'
<1>1. Append(semaphore.waiters, p) \in Seq(Pids)
  BY QueueFacts DEF SyncInv, SyncTypes
<1> QED
  BY <1>1 DEF SyncInv, SyncTypes, NobodyWaitsInVain, NoCreditForged, SemaphoreBlock

\* A post raises the value only when nobody waits, and grants at most the credit it brings.
LEMMA SemaphorePostPreserves ==
  ASSUME SyncInv, SemaphorePost
  PROVE  SyncInv'
<1> USE DEF SyncInv, SyncTypes, NobodyWaitsInVain, NoCreditForged
<1>1. CASE semaphore.waiters = <<>>
  <2>1. /\ semaphore' = [value |-> semaphore.value + 1, waiters |-> semaphore.waiters]
        /\ ledger' = [start |-> ledger.start, posts |-> ledger.posts + 1, grants |-> ledger.grants]
        /\ mutex' = mutex
    BY <1>1 DEF SemaphorePost
  <2>2. SyncTypes'
    BY <2>1
  <2> QED
    BY <1>1, <2>1, <2>2
<1>2. CASE semaphore.waiters # <<>>
  <2>1. Tail(semaphore.waiters) \in Seq(Pids)
    BY <1>2, QueueFacts
  <2>2. PICK g \in {0, 1} :
          /\ semaphore' = [value |-> semaphore.value, waiters |-> Tail(semaphore.waiters)]
          /\ ledger' = [start |-> ledger.start, posts |-> ledger.posts + 1,
                        grants |-> ledger.grants + g]
          /\ mutex' = mutex
    BY <1>2 DEF SemaphorePost
  <2>3. SyncTypes'
    BY <2>1, <2>2
  <2> QED
    BY <1>2, <2>2, <2>3
<1> QED
  BY <1>1, <1>2

\* Only a caller that found an owner queues, and the owner is never no one.
LEMMA MutexPreserves ==
  ASSUME SyncInv, NEW p \in Pids, MutexTake(p) \/ MutexBlock(p) \/ MutexUnlock(p)
  PROVE  SyncInv'
<1> USE DEF SyncInv, SyncTypes, NobodyWaitsInVain, NoCreditForged
<1>1. CASE MutexTake(p)
  BY <1>1 DEF MutexTake
<1>2. CASE MutexBlock(p)
  <2>1. Append(mutex.waiters, p) \in Seq(Pids)
    BY QueueFacts
  <2> QED
    BY <1>2, <2>1 DEF MutexBlock
<1>3. CASE MutexUnlock(p) /\ mutex.waiters = <<>>
  BY <1>3 DEF MutexUnlock
<1>4. CASE MutexUnlock(p) /\ mutex.waiters # <<>>
  <2>1. Head(mutex.waiters) \in Pids /\ Tail(mutex.waiters) \in Seq(Pids)
    BY <1>4
  <2>2. Head(mutex.waiters) # 0
    BY <2>1 DEF Pids
  <2>3. mutex' = [owner |-> Head(mutex.waiters), waiters |-> Tail(mutex.waiters)]
        /\ semaphore' = semaphore /\ ledger' = ledger
    BY <1>4 DEF MutexUnlock
  <2> QED
    BY <2>1, <2>2, <2>3
<1> QED
  BY <1>1, <1>2, <1>3, <1>4

\* Counting the slips disturbs nothing.
LEMMA NextSyncInv == SyncInv /\ [ShellNext]_vars => SyncInv'
<1> SUFFICES ASSUME SyncInv, [ShellNext]_vars PROVE SyncInv'
  OBVIOUS
<1>1. CASE UNCHANGED <<semaphore, mutex, ledger>>
  BY <1>1 DEF SyncInv, SyncTypes, NobodyWaitsInVain, NoCreditForged
<1>2. CASE \E v \in InitialValues : SemaphoreInit(v)
  BY <1>2, SemaphoreInitPreserves
<1>3. CASE \E p \in Pids : SemaphoreTake(p) \/ SemaphoreBlock(p)
  BY <1>3, SemaphoreTakePreserves, SemaphoreBlockPreserves
<1>4. CASE SemaphorePost
  BY <1>4, SemaphorePostPreserves
<1>5. CASE MutexInit
  <2>1. <<>> \in Seq(Pids)
    OBVIOUS
  <2> QED
    BY <1>5, <2>1 DEF SyncInv, SyncTypes, NobodyWaitsInVain, NoCreditForged, MutexInit
<1>6. CASE \E p \in Pids : MutexTake(p) \/ MutexBlock(p) \/ MutexUnlock(p)
  BY <1>6, MutexPreserves
<1> QED
  BY <1>1, <1>2, <1>3, <1>4, <1>5, <1>6 DEF ShellNext, Unsynchronised, vars

LEMMA SyncInvariant == ShellSpec => []SyncInv
BY InitSyncInv, NextSyncInv, PTL DEF ShellSpec

\* Whoever is killed, reaped or made to wait twice, nobody waits for a credit that is
\* there or for a mutex that is free: course_semaphore_post and course_mutex_unlock hand
\* over what they release before anybody else can take it.
THEOREM WaitersHaveReason == ShellSpec => []NobodyWaitsInVain
BY SyncInvariant, PTL DEF SyncInv

\* The semaphore lets through no more callers than the initial value and the posts allow.
THEOREM CreditsBounded == ShellSpec => []NoCreditForged
BY SyncInvariant, PTL DEF SyncInv

-----------------------------------------------------------------------------
(* The table *)

\* A step leaves the table to one of its own operations, or blocks or wakes a process.
LEMMA ShellTableStep ==
  ASSUME SyncInv, [ShellNext]_vars
  PROVE  \/ [Next]_table
         \/ \E p \in Pids, state \in {"READY", "BLOCKED"} :
              SlotOf(table, p) # 0 /\ table' = SetState(table, p, state)
<1>1. CASE UNCHANGED table
  BY <1>1
<1>2. CASE \E p \in Pids : Fork(p) \/ Exit(p) \/ Wait(p)
  BY <1>2 DEF Next
<1>3. CASE \E p \in Pids : Kill(1, p)
  <2>1. 1 \in Pids
    BY ProcessAssumption DEF Pids
  <2> QED BY <1>3, <2>1 DEF Next
<1>4. CASE \E p \in Pids : SemaphoreBlock(p) \/ MutexBlock(p)
  <2>1. PICK p \in Pids : SemaphoreBlock(p) \/ MutexBlock(p)
    BY <1>4
  <2>2. SlotOf(table, p) # 0
    BY <2>1 DEF SemaphoreBlock, MutexBlock, Exists, StateOf
  <2> QED BY <2>1, <2>2 DEF SemaphoreBlock, MutexBlock
<1>5. CASE SemaphorePost /\ semaphore.waiters # <<>>
  <2>1. Head(semaphore.waiters) \in Pids
    BY <1>5, QueueFacts DEF SyncInv, SyncTypes
  <2> QED BY <1>5, <2>1 DEF SemaphorePost, Wake
<1>6. CASE \E p \in Pids : MutexUnlock(p) /\ mutex.waiters # <<>>
  <2>1. Head(mutex.waiters) \in Pids
    BY <1>6, QueueFacts DEF SyncInv, SyncTypes
  <2> QED BY <1>6, <2>1 DEF MutexUnlock, Wake
<1> QED
  BY <1>1, <1>2, <1>3, <1>4, <1>5, <1>6
  DEF ShellNext, vars, SemaphoreInit, SemaphoreTake, SemaphorePost, MutexInit, MutexTake, MutexUnlock

LEMMA ShellTable ==
  ASSUME TableOK, SyncInv, [ShellNext]_vars
  PROVE  TableOK' /\ Keeps(table, table') /\ Allowed(table, table')
<1>1. CASE [Next]_table
  BY <1>1, NextTable, NextKeeps, NextAllowed
<1>2. CASE \E p \in Pids, state \in {"READY", "BLOCKED"} :
             SlotOf(table, p) # 0 /\ table' = SetState(table, p, state)
  <2>1. TableInv(table)
    BY DEF TableOK
  <2>2. PICK p \in Pids, state \in {"READY", "BLOCKED"} :
          SlotOf(table, p) # 0 /\ table' = SetState(table, p, state)
    BY <1>2
  <2>3. state \in {"READY", "RUNNING", "BLOCKED", "ZOMBIE"}
    OBVIOUS
  <2>4. TableInv(table')
    BY <2>1, <2>2, <2>3, SetStateOfPreserves
  <2>5. Keeps(table, table')
    BY <2>1, <2>2, <2>3, SetStateKeeps
  <2>6. Allowed(table, table')
    BY <2>1, <2>2, <2>3, EndAllowed
  <2> QED BY <2>4, <2>5, <2>6 DEF TableOK
<1> QED BY <1>1, <1>2, ShellTableStep

LEMMA ShellTableInvariant == ShellSpec => [](TableOK /\ SyncInv)
<1>1. SyncInit => TableOK
  BY InitTable DEF SyncInit
<1>2. TableOK /\ SyncInv /\ [ShellNext]_vars => TableOK'
  BY ShellTable
<1> QED BY <1>1, <1>2, InitSyncInv, NextSyncInv, PTL DEF ShellSpec

\* However the shell makes processes wait for each other, every reference to a page is
\* counted and a page that may be written without a fault has one user.
THEOREM AccountsKeptByShell == ShellSpec => []PagesAccounted
BY ShellTableInvariant, TableInvAccounts, PTL

\* Blocking and waking, even of a process that was killed while it queued, never makes the
\* table lose a process that its parent may still wait for.
THEOREM KeptWhileWaitedForByShell == ShellSpec => KeptUntilReaped
<1>1. TableOK /\ SyncInv /\ [ShellNext]_vars =>
        [\A s \in Slots :
          table.procs[s].state \notin {"UNUSED", "DEAD"} =>
            /\ table'.procs[s].pid = table.procs[s].pid
            /\ table'.procs[s].ppid = table.procs[s].ppid
            /\ table'.procs[s].state = "DEAD" => table.procs[s].state = "ZOMBIE"]_table
  BY ShellTable DEF Keeps
<1> QED BY <1>1, ShellTableInvariant, PTL DEF ShellSpec, KeptUntilReaped

\* Nor does it show a process another's pages: under the shell too, the copy-on-write table
\* implements processes with private memory.
THEOREM SharingIsInvisibleToShell == ShellSpec => ImplementsPrivateMemory
<1>1. SyncInit => Abstract!Init
  BY InitPrivateMemory DEF SyncInit
<1>2. TableOK /\ SyncInv /\ [ShellNext]_vars => [Abstract!Next]_[p \in Pids |-> MemoryOf(p)]
  BY ShellTable, AllowedImplements
<1> QED
  BY <1>1, <1>2, ShellTableInvariant, PTL
  DEF ShellSpec, ImplementsPrivateMemory, Abstract!Spec

-----------------------------------------------------------------------------
(* States of processes *)

LEMMA StateOfSlot ==
  ASSUME NEW t, TableInv(t), NEW p \in Pids, NEW state, state # "UNUSED"
  PROVE  StateOf(t, p) = state <=>
           \E s \in Slots : t.procs[s].pid = p /\ t.procs[s].state = state
<1>1. CASE SlotOf(t, p) = 0
  BY <1>1, NoSlot DEF StateOf
<1>2. CASE SlotOf(t, p) # 0
  BY <1>2, SlotFacts DEF StateOf
<1> QED BY <1>1, <1>2

\* Nobody is blocked or woken, and nobody alive goes.
Undisturbed(t, u) ==
  \A p \in Pids : /\ StateOf(u, p) = "BLOCKED" <=> StateOf(t, p) = "BLOCKED"
                  /\ IsLive(t, p) => IsLive(u, p)

\* Only p changes its state.
OnlyState(t, u, p, state) ==
  \A q \in Pids : StateOf(u, q) = IF q = p THEN state ELSE StateOf(t, q)

LEMMA SlotsUndisturbed ==
  ASSUME NEW t, TableInv(t), NEW u, TableInv(u),
         \A s \in Slots : t.procs[s].state \in Live =>
           u.procs[s].pid = t.procs[s].pid /\ u.procs[s].state = t.procs[s].state,
         \A s \in Slots : u.procs[s].state = "BLOCKED" =>
           u.procs[s].pid = t.procs[s].pid /\ t.procs[s].state = "BLOCKED"
  PROVE  Undisturbed(t, u)
<1>1. \A p \in Pids, state \in Live : StateOf(t, p) = state => StateOf(u, p) = state
  <2> TAKE p \in Pids, state \in Live
  <2>1. state # "UNUSED"
    BY DEF Live
  <2> QED BY <2>1, StateOfSlot
<1>2. \A p \in Pids : StateOf(u, p) = "BLOCKED" => StateOf(t, p) = "BLOCKED"
  BY StateOfSlot
<1>3. \A p \in Pids : StateOf(t, p) = "BLOCKED" => StateOf(u, p) = "BLOCKED"
  BY <1>1 DEF Live
<1>4. \A p \in Pids : IsLive(t, p) => IsLive(u, p)
  BY <1>1 DEF IsLive
<1> QED BY <1>2, <1>3, <1>4 DEF Undisturbed

LEMMA StateAfterSet ==
  ASSUME NEW t, TableInv(t), NEW p \in Pids, SlotOf(t, p) # 0,
         NEW state \in {"READY", "RUNNING", "BLOCKED", "ZOMBIE"}, NEW u, u = SetState(t, p, state)
  PROVE  OnlyState(t, u, p, state)
<1> DEFINE s == SlotOf(t, p)
<1>1. s \in Slots /\ t.procs[s].pid = p /\ t.procs[s].state # "UNUSED" /\ u = StateSet(t, s, state)
  BY SlotFacts DEF SetState, StateSet
<1>2. \A r \in Slots : u.procs[r].pid = t.procs[r].pid
                       /\ u.procs[r].state = IF r = s THEN state ELSE t.procs[r].state
  <2>1. StateSetTo(t, s, state, u)
    BY <1>1, SetStateFields
  <2> QED BY <2>1 DEF StateSetTo
<1>3. \A q \in Pids : SlotOf(u, q) = SlotOf(t, q)
  BY <1>1, <1>2, SameSlot
<1>4. \A q \in Pids : SlotOf(t, q) # 0 => SlotOf(t, q) \in Slots /\ t.procs[SlotOf(t, q)].pid = q
  BY SlotFacts
<1> HIDE DEF s
<1>5. s # 0
  BY DEF s
<1>6. \A q \in Pids \ {p} : SlotOf(t, q) # s
  BY <1>1, <1>4, <1>5
<1>7. SlotOf(u, p) = s
  BY <1>3 DEF s
<1>8. StateOf(u, p) = state
  BY <1>1, <1>2, <1>5, <1>7 DEF StateOf
<1>9. \A q \in Pids \ {p} : StateOf(u, q) = StateOf(t, q)
  BY <1>2, <1>3, <1>4, <1>6 DEF StateOf
<1> QED BY <1>8, <1>9 DEF OnlyState

LEMMA ForkUndisturbed ==
  ASSUME TableOK, NEW p \in Pids, Fork(p), TableOK'
  PROVE  Undisturbed(table, table')
<1> DEFINE s == SlotOf(table, p)
           child == SpawnSlot(table)
<1>1. ForkedTo(table, s, child, table')
  BY ForkedFields DEF Fork, TableOK
<1>2. child \in FreeSlots(table) /\ child \in Slots
  BY SpawnSlotFacts DEF Fork, CanSpawn
<1>3. s \in Slots /\ s # child
  BY <1>2, LiveSlot DEF Fork, TableOK
<1>4. \A r \in Slots \ {child} : table'.procs[r].pid = table.procs[r].pid
                                /\ table'.procs[r].state = table.procs[r].state
  BY <1>1, <1>2, <1>3 DEF ForkedTo
<1>5. table'.procs[child].state = "READY"
  BY <1>1 DEF ForkedTo
<1>6. table.procs[child].state \notin Live
  BY <1>2 DEF FreeSlots, Live
<1> QED BY <1>4, <1>5, <1>6, SlotsUndisturbed DEF TableOK, Live

LEMMA WaitUndisturbed ==
  ASSUME TableOK, NEW p \in Pids, Wait(p), TableOK'
  PROVE  Undisturbed(table, table')
<1>1. PICK s \in Slots : table.procs[s].state = "ZOMBIE" /\ table' = Reaped(table, s)
  BY DEF Wait
<1> DEFINE v == Released(table, s)
<1>2. TableInv(v) /\ ReleasedTo(table, s, v)
  BY <1>1, ReleasedPreserves, ReleasedFields DEF TableOK
<1>3. table' = StateSet(v, s, "DEAD")
  BY <1>1 DEF Reaped, StateSet
<1> HIDE DEF v
<1>4. \A r \in Slots : table'.procs[r].pid = v.procs[r].pid
                       /\ table'.procs[r].state = IF r = s THEN "DEAD" ELSE v.procs[r].state
  <2>1. StateSetTo(v, s, "DEAD", table')
    BY <1>2, <1>3, SetStateFields
  <2> QED BY <2>1 DEF StateSetTo
<1>5. \A r \in Slots : v.procs[r].pid = table.procs[r].pid /\ v.procs[r].state = table.procs[r].state
  BY <1>2 DEF ReleasedTo
<1> QED BY <1>1, <1>4, <1>5, SlotsUndisturbed DEF TableOK, Live

-----------------------------------------------------------------------------
(* Without slips *)

\* Every credit is held or was given, the blocked processes are those that queue, each in
\* one place, and the owner of the mutex is alive and does not wait for it.
Orderly ==
  /\ semaphore.value + ledger.grants = ledger.start + ledger.posts
  /\ \A p \in Pids : StateOf(table, p) = "BLOCKED" <=> p \in Queued
  /\ Distinct(semaphore.waiters) /\ Distinct(mutex.waiters)
  /\ ToSet(semaphore.waiters) \cap ToSet(mutex.waiters) = {}
  /\ mutex.owner # 0 => IsLive(table, mutex.owner) /\ mutex.owner \notin ToSet(mutex.waiters)

QueuesFit == Len(semaphore.waiters) <= MaxWaiters /\ Len(mutex.waiters) <= MaxWaiters

\* The inductive invariant: the table's, the types, the bounds, and order while nobody slipped.
ShellInv == TableOK /\ SyncInv /\ slips \in Nat /\ QueuesFit /\ (slips = 0 => Orderly)

LEMMA QueuesAreQueues ==
  ASSUME SyncInv
  PROVE  semaphore.waiters \in Seq(Pids) /\ mutex.waiters \in Seq(Pids) /\ mutex.owner \in Pids \cup {0}
BY DEF SyncInv, SyncTypes

\* What happens to processes that neither queue nor hold the mutex is of no consequence.
LEMMA TableStepOrderly ==
  ASSUME SyncInv, Orderly, Undisturbed(table, table'), UNCHANGED <<semaphore, mutex, ledger>>
  PROVE  Orderly'
<1>1. Queued' = Queued
  BY DEF Queued
<1>2. \A p \in Pids : StateOf(table, p)' = StateOf(table', p) /\ IsLive(table, p)' = IsLive(table', p)
  OBVIOUS
<1>3. \A p \in Pids : StateOf(table', p) = "BLOCKED" <=> p \in Queued
  BY DEF Orderly, Undisturbed
<1>4. mutex.owner # 0 => IsLive(table', mutex.owner)
  BY QueuesAreQueues DEF Orderly, Undisturbed
<1> QED BY <1>1, <1>3, <1>4 DEF Orderly

LEMMA EndOrderly ==
  ASSUME TableOK, SyncInv, Orderly, NEW p \in Pids, SlotOf(table, p) # 0, ~Engaged(p),
         table' = SetState(table, p, "ZOMBIE"), UNCHANGED <<semaphore, mutex, ledger>>
  PROVE  Orderly'
<1>1. OnlyState(table, table', p, "ZOMBIE")
  BY StateAfterSet DEF TableOK
<1>2. StateOf(table, p) # "BLOCKED" /\ mutex.owner # p
  BY DEF Orderly, Engaged
<1>3. \A q \in Pids : StateOf(table', q) = "BLOCKED" <=> q \in Queued
  BY <1>1, <1>2 DEF Orderly, OnlyState
<1>4. mutex.owner # 0 => IsLive(table', mutex.owner)
  BY <1>1, <1>2, QueuesAreQueues DEF Orderly, OnlyState, IsLive
<1> QED BY <1>3, <1>4 DEF Orderly, Queued

\* A process that runs stands in no queue, so it may take a credit or join one.
LEMMA SemaphoreOrderly ==
  ASSUME TableOK, SyncInv, Orderly, NEW p \in Pids, Runs(p), SemaphoreTake(p) \/ SemaphoreBlock(p)
  PROVE  Orderly'
<1>1. CASE SemaphoreTake(p)
  <2>1. /\ semaphore' = [value |-> semaphore.value - 1, waiters |-> semaphore.waiters]
        /\ ledger' = [start |-> ledger.start, posts |-> ledger.posts, grants |-> ledger.grants + 1]
        /\ mutex' = mutex /\ table' = table
    BY <1>1 DEF SemaphoreTake, SyncInv, SyncTypes
  <2>2. semaphore.value \in Int /\ ledger.grants \in Nat /\ ledger.start \in Int /\ ledger.posts \in Nat
    BY DEF SyncInv, SyncTypes
  <2>3. semaphore'.value + ledger'.grants = ledger'.start + ledger'.posts
    BY <2>1, <2>2 DEF Orderly
  <2> QED BY <2>1, <2>3 DEF Orderly, Queued
<1>2. CASE SemaphoreBlock(p)
  <2>1. /\ semaphore' = [value |-> semaphore.value, waiters |-> Append(semaphore.waiters, p)]
        /\ ledger' = ledger /\ mutex' = mutex /\ table' = SetState(table, p, "BLOCKED")
        /\ SlotOf(table, p) # 0
    BY <1>2 DEF SemaphoreBlock, SyncInv, SyncTypes, Exists, StateOf
  <2>2. OnlyState(table, table', p, "BLOCKED")
    BY <2>1, StateAfterSet DEF TableOK
  <2>3. p \notin Queued
    BY DEF Runs, Orderly
  <2>4. ToSet(semaphore'.waiters) = ToSet(semaphore.waiters) \cup {p} /\ Distinct(semaphore'.waiters)
    BY <2>1, <2>3, AppendSet, QueuesAreQueues DEF Queued, Orderly
  <2>5. \A q \in Pids : StateOf(table', q) = "BLOCKED" <=> q \in Queued'
    BY <2>1, <2>2, <2>4 DEF Orderly, OnlyState, Queued
  <2>6. mutex.owner # 0 => IsLive(table', mutex.owner)
    BY <2>2, QueuesAreQueues DEF Orderly, OnlyState, IsLive, Live
  <2>7. ToSet(semaphore'.waiters) \cap ToSet(mutex'.waiters) = {}
    BY <2>1, <2>3, <2>4 DEF Orderly, Queued
  <2> QED BY <2>1, <2>4, <2>5, <2>6, <2>7 DEF Orderly
<1> QED BY <1>1, <1>2

\* The waiter that gets the credit was blocked and leaves the only queue it stood in.
LEMMA PostOrderly ==
  ASSUME TableOK, SyncInv, Orderly, SemaphorePost
  PROVE  Orderly'
<1>0. semaphore.value \in Int /\ ledger.grants \in Nat /\ ledger.start \in Int /\ ledger.posts \in Nat
  BY DEF SyncInv, SyncTypes
<1>1. CASE semaphore.waiters = <<>>
  <2>1. /\ semaphore' = [value |-> semaphore.value + 1, waiters |-> semaphore.waiters]
        /\ ledger' = [start |-> ledger.start, posts |-> ledger.posts + 1, grants |-> ledger.grants]
        /\ mutex' = mutex /\ table' = table
    BY <1>1 DEF SemaphorePost, SyncInv, SyncTypes
  <2>2. semaphore'.value + ledger'.grants = ledger'.start + ledger'.posts
    BY <1>0, <2>1 DEF Orderly
  <2> QED BY <2>1, <2>2 DEF Orderly, Queued
<1>2. CASE semaphore.waiters # <<>>
  <2> DEFINE first == Head(semaphore.waiters)
  <2>1. /\ first \in ToSet(semaphore.waiters) /\ first \in Pids
        /\ ToSet(semaphore.waiters) = {first} \cup ToSet(Tail(semaphore.waiters))
        /\ Distinct(Tail(semaphore.waiters)) /\ first \notin ToSet(Tail(semaphore.waiters))
    BY <1>2, TailSet, QueuesAreQueues, QueueFacts DEF Orderly
  <2>2. StateOf(table, first) = "BLOCKED" /\ first \notin ToSet(mutex.waiters)
    BY <2>1 DEF Orderly, Queued
  <2>3. SlotOf(table, first) # 0
    BY <2>2 DEF StateOf
  <2>4. /\ semaphore' = [value |-> semaphore.value, waiters |-> Tail(semaphore.waiters)]
        /\ ledger' = [start |-> ledger.start, posts |-> ledger.posts + 1, grants |-> ledger.grants + 1]
        /\ mutex' = mutex /\ table' = SetState(table, first, "READY")
    BY <1>2, <2>3 DEF SemaphorePost, SyncInv, SyncTypes, Wake
  <2> HIDE DEF first
  <2>5. OnlyState(table, table', first, "READY")
    BY <2>1, <2>3, <2>4, StateAfterSet DEF TableOK
  <2>6. semaphore'.value + ledger'.grants = ledger'.start + ledger'.posts
    <3>1. /\ semaphore'.value = semaphore.value /\ ledger'.start = ledger.start
          /\ ledger'.posts = ledger.posts + 1 /\ ledger'.grants = ledger.grants + 1
      BY <2>4
    <3> QED BY <1>0, <3>1 DEF Orderly
  <2>7. \A q \in Pids : StateOf(table', q) = "BLOCKED" <=> q \in Queued'
    BY <2>1, <2>2, <2>4, <2>5 DEF Orderly, OnlyState, Queued
  <2>8. mutex.owner # 0 => IsLive(table', mutex.owner)
    BY <2>5, QueuesAreQueues DEF Orderly, OnlyState, IsLive, Live
  <2>9. ToSet(semaphore'.waiters) \cap ToSet(mutex'.waiters) = {}
    BY <2>1, <2>4 DEF Orderly
  <2> QED BY <2>1, <2>4, <2>6, <2>7, <2>8, <2>9 DEF Orderly
<1> QED BY <1>1, <1>2

\* A process that runs may take the mutex, or join its queue when it does not hold it.
LEMMA LockOrderly ==
  ASSUME TableOK, SyncInv, Orderly, NEW p \in Pids, Runs(p),
         MutexTake(p) \/ (MutexBlock(p) /\ p # mutex.owner)
  PROVE  Orderly'
<1>0. p \notin Queued
  BY DEF Runs, Orderly
<1>1. CASE MutexTake(p)
  <2>1. /\ mutex' = [owner |-> p, waiters |-> mutex.waiters]
        /\ ledger' = ledger /\ semaphore' = semaphore /\ table' = table
    BY <1>1 DEF MutexTake, SyncInv, SyncTypes
  <2>2. IsLive(table, p) /\ p \notin ToSet(mutex.waiters)
    BY <1>0 DEF Runs, IsLive, Live, Queued
  <2> QED BY <2>1, <2>2 DEF Orderly, Queued
<1>2. CASE MutexBlock(p) /\ p # mutex.owner
  <2>1. /\ mutex' = [owner |-> mutex.owner, waiters |-> Append(mutex.waiters, p)]
        /\ ledger' = ledger /\ semaphore' = semaphore /\ table' = SetState(table, p, "BLOCKED")
        /\ SlotOf(table, p) # 0
    BY <1>2 DEF MutexBlock, SyncInv, SyncTypes, Exists, StateOf
  <2>2. OnlyState(table, table', p, "BLOCKED")
    BY <2>1, StateAfterSet DEF TableOK
  <2>3. ToSet(mutex'.waiters) = ToSet(mutex.waiters) \cup {p} /\ Distinct(mutex'.waiters)
    BY <1>0, <2>1, AppendSet, QueuesAreQueues DEF Queued, Orderly
  <2>4. \A q \in Pids : StateOf(table', q) = "BLOCKED" <=> q \in Queued'
    BY <2>1, <2>2, <2>3 DEF Orderly, OnlyState, Queued
  <2>5. mutex.owner # 0 => IsLive(table', mutex.owner)
    BY <2>2, QueuesAreQueues DEF Orderly, OnlyState, IsLive, Live
  <2>6. ToSet(semaphore'.waiters) \cap ToSet(mutex'.waiters) = {}
    BY <1>0, <2>1, <2>3 DEF Orderly, Queued
  <2>7. mutex'.owner # 0 => mutex'.owner \notin ToSet(mutex'.waiters)
    BY <1>2, <2>1, <2>3 DEF Orderly
  <2> QED BY <2>1, <2>3, <2>4, <2>5, <2>6, <2>7 DEF Orderly
<1> QED BY <1>1, <1>2

\* The first waiter leaves the queue as the owner, awake.
LEMMA UnlockOrderly ==
  ASSUME TableOK, SyncInv, Orderly, NEW p \in Pids, MutexUnlock(p)
  PROVE  Orderly'
<1>1. CASE mutex.waiters = <<>>
  <2>1. /\ mutex' = [owner |-> 0, waiters |-> mutex.waiters]
        /\ ledger' = ledger /\ semaphore' = semaphore /\ table' = table
    BY <1>1 DEF MutexUnlock, SyncInv, SyncTypes
  <2> QED BY <2>1 DEF Orderly, Queued
<1>2. CASE mutex.waiters # <<>>
  <2> DEFINE first == Head(mutex.waiters)
  <2>1. /\ first \in ToSet(mutex.waiters) /\ first \in Pids
        /\ ToSet(mutex.waiters) = {first} \cup ToSet(Tail(mutex.waiters))
        /\ Distinct(Tail(mutex.waiters)) /\ first \notin ToSet(Tail(mutex.waiters))
    BY <1>2, TailSet, QueuesAreQueues, QueueFacts DEF Orderly
  <2>2. StateOf(table, first) = "BLOCKED" /\ first \notin ToSet(semaphore.waiters)
    BY <2>1 DEF Orderly, Queued
  <2>3. SlotOf(table, first) # 0
    BY <2>2 DEF StateOf
  <2>4. /\ mutex' = [owner |-> first, waiters |-> Tail(mutex.waiters)]
        /\ ledger' = ledger /\ semaphore' = semaphore /\ table' = SetState(table, first, "READY")
    BY <1>2, <2>3 DEF MutexUnlock, Wake
  <2> HIDE DEF first
  <2>5. OnlyState(table, table', first, "READY")
    BY <2>1, <2>3, <2>4, StateAfterSet DEF TableOK
  <2>6. \A q \in Pids : StateOf(table', q) = "BLOCKED" <=> q \in Queued'
    BY <2>1, <2>2, <2>4, <2>5 DEF Orderly, OnlyState, Queued
  <2>7. IsLive(table', first)
    BY <2>1, <2>5 DEF OnlyState, IsLive, Live
  <2>8. ToSet(semaphore'.waiters) \cap ToSet(mutex'.waiters) = {}
    BY <2>1, <2>4 DEF Orderly
  <2> QED BY <2>1, <2>4, <2>6, <2>7, <2>8 DEF Orderly
<1> QED BY <1>1, <1>2

LEMMA NextOrderly ==
  ASSUME ShellInv, [ShellNext]_vars, TableOK'
  PROVE  slips' \in Nat /\ (slips' = 0 => Orderly')
<1>0. TableOK /\ SyncInv /\ slips \in Nat /\ (slips = 0 => Orderly)
  BY DEF ShellInv
<1>1. \A slip : Counted(slip) => slips' \in Nat /\ (slips' = 0 => slips = 0 /\ ~slip)
  BY <1>0 DEF Counted
<1>2. slips' \in Nat
  BY <1>0, <1>1 DEF ShellNext, vars
<1>3. ASSUME slips' = 0
      PROVE  Orderly'
  <2>1. CASE UNCHANGED vars
    BY <1>0, <1>3, <2>1 DEF vars, Orderly, Queued
  <2>2. CASE \E p \in Pids : Fork(p) /\ Unsynchronised /\ Counted(~Runs(p))
    BY <1>0, <1>1, <1>3, <2>2, ForkUndisturbed, TableStepOrderly DEF Unsynchronised
  <2>3. CASE \E p \in Pids : p # 1 /\ Exit(p) /\ Unsynchronised /\ Counted(~Runs(p) \/ Engaged(p))
    <3>1. PICK p \in Pids : Exit(p) /\ Unsynchronised /\ ~Engaged(p) /\ Orderly
      BY <1>0, <1>1, <1>3, <2>3
    <3>2. SlotOf(table, p) # 0 /\ table' = SetState(table, p, "ZOMBIE")
      BY <3>1 DEF Exit, IsLive, StateOf, Live
    <3> QED BY <1>0, <3>1, <3>2, EndOrderly DEF Unsynchronised
  <2>4. CASE \E p \in Pids : Kill(1, p) /\ Unsynchronised /\ Counted(Engaged(p))
    <3>1. PICK p \in Pids : Kill(1, p) /\ Unsynchronised /\ ~Engaged(p) /\ Orderly
      BY <1>0, <1>1, <1>3, <2>4
    <3>2. SlotOf(table, p) # 0 /\ table' = SetState(table, p, "ZOMBIE")
      BY <3>1 DEF Kill, StateOf
    <3> QED BY <1>0, <3>1, <3>2, EndOrderly DEF Unsynchronised
  <2>5. CASE \E p \in Pids : Wait(p) /\ Unsynchronised /\ Counted(~Runs(p))
    BY <1>0, <1>1, <1>3, <2>5, WaitUndisturbed, TableStepOrderly DEF Unsynchronised
  <2>6. CASE \E v \in InitialValues : SemaphoreInit(v) /\ Counted(TRUE)
    BY <1>1, <1>3, <2>6
  <2>7. CASE \E p \in Pids : (SemaphoreTake(p) \/ SemaphoreBlock(p)) /\ Counted(~Runs(p))
    BY <1>0, <1>1, <1>3, <2>7, SemaphoreOrderly
  <2>8. CASE SemaphorePost /\ Counted(FALSE)
    BY <1>0, <1>1, <1>3, <2>8, PostOrderly
  <2>9. CASE MutexInit /\ Counted(TRUE)
    BY <1>1, <1>3, <2>9
  <2>10. CASE \E p \in Pids : (MutexTake(p) \/ MutexUnlock(p)) /\ Counted(~Runs(p))
    BY <1>0, <1>1, <1>3, <2>10, LockOrderly, UnlockOrderly
  <2>11. CASE \E p \in Pids : MutexBlock(p) /\ Counted(~Runs(p) \/ p = mutex.owner)
    BY <1>0, <1>1, <1>3, <2>11, LockOrderly
  <2> QED
    BY <2>1, <2>2, <2>3, <2>4, <2>5, <2>6, <2>7, <2>8, <2>9, <2>10, <2>11 DEF ShellNext
<1> QED BY <1>2, <1>3

LEMMA NextFits == SyncInv /\ QueuesFit /\ [ShellNext]_vars => QueuesFit'
<1> SUFFICES ASSUME SyncInv, QueuesFit, [ShellNext]_vars PROVE QueuesFit'
  OBVIOUS
<1>0. MaxWaiters \in Nat /\ semaphore.waiters \in Seq(Pids) /\ mutex.waiters \in Seq(Pids)
  BY QueuesAreQueues, ProcessAssumption DEF MaxWaiters
<1> DEFINE Shorter(q, r) == r = q \/ r = <<>> \/ (q # <<>> /\ r = Tail(q))
                            \/ (Len(q) < MaxWaiters /\ \E p \in Pids : r = Append(q, p))
<1>1. Shorter(semaphore.waiters, semaphore'.waiters)
  <2>1. CASE semaphore' = semaphore
    BY <2>1
  <2>2. CASE \E v \in InitialValues : SemaphoreInit(v)
    BY <2>2 DEF SemaphoreInit
  <2>3. CASE \E p \in Pids : SemaphoreTake(p) \/ SemaphoreBlock(p)
    BY <2>3 DEF SemaphoreTake, SemaphoreBlock, SyncInv, SyncTypes
  <2>4. CASE SemaphorePost
    BY <2>4 DEF SemaphorePost, SyncInv, SyncTypes
  <2> QED
    BY <2>1, <2>2, <2>3, <2>4
    DEF ShellNext, vars, Unsynchronised, MutexInit, MutexTake, MutexBlock, MutexUnlock
<1>2. Shorter(mutex.waiters, mutex'.waiters)
  <2>1. CASE mutex' = mutex
    BY <2>1
  <2>2. CASE MutexInit
    BY <2>2 DEF MutexInit
  <2>3. CASE \E p \in Pids : MutexTake(p) \/ MutexBlock(p)
    BY <2>3 DEF MutexTake, MutexBlock, SyncInv, SyncTypes
  <2>4. CASE \E p \in Pids : MutexUnlock(p)
    BY <2>4 DEF MutexUnlock, SyncInv, SyncTypes
  <2> QED
    BY <2>1, <2>2, <2>3, <2>4
    DEF ShellNext, vars, Unsynchronised, SemaphoreInit, SemaphoreTake, SemaphoreBlock, SemaphorePost
<1>3. ASSUME NEW q \in Seq(Pids), NEW r, Len(q) <= MaxWaiters, Shorter(q, r)
      PROVE  Len(r) <= MaxWaiters
  <2>1. CASE r = q \/ r = <<>>
    BY <1>0, <1>3, <2>1
  <2>2. CASE q # <<>> /\ r = Tail(q)
    BY <1>0, <1>3, <2>2
  <2>3. CASE Len(q) < MaxWaiters /\ \E p \in Pids : r = Append(q, p)
    BY <1>0, <1>3, <2>3
  <2> QED BY <1>3, <2>1, <2>2, <2>3
<1> HIDE DEF Shorter
<1> QED BY <1>0, <1>1, <1>2, <1>3 DEF QueuesFit

LEMMA InitShellInv == SyncInit => ShellInv
<1> SUFFICES ASSUME SyncInit PROVE ShellInv
  OBVIOUS
<1>1. TableOK /\ SyncInv
  BY InitTable, InitSyncInv DEF SyncInit
<1>2. semaphore.waiters = <<>> /\ mutex.waiters = <<>> /\ mutex.owner = 0 /\ slips = 0
  BY DEF SyncInit
<1>3. semaphore.value + ledger.grants = ledger.start + ledger.posts
  <2>1. ledger = [start |-> semaphore.value, posts |-> 0, grants |-> 0] /\ semaphore.value \in Int
    BY <1>1 DEF SyncInit, SyncInv, SyncTypes
  <2> QED BY <2>1
<1>4. ToSet(<<>>) = {} /\ Distinct(<<>>)
  BY <1>1, QueuesAreQueues, QueueSet
<1>5. \A p \in Pids : StateOf(table, p) # "BLOCKED"
  <2>1. TableInv(table) /\ "BLOCKED" # "UNUSED"
    BY <1>1 DEF TableOK
  <2>2. \A s \in Slots : table.procs[s].state # "BLOCKED"
    BY DEF SyncInit, Init, Cleared
  <2> QED BY <2>1, <2>2, StateOfSlot
<1>6. Orderly
  BY <1>2, <1>3, <1>4, <1>5 DEF Orderly, Queued
<1>7. QueuesFit
  BY <1>2, ProcessAssumption DEF QueuesFit, MaxWaiters
<1> QED BY <1>1, <1>2, <1>6, <1>7 DEF ShellInv

LEMMA NextShellInv == ShellInv /\ [ShellNext]_vars => ShellInv'
<1> SUFFICES ASSUME ShellInv, [ShellNext]_vars PROVE ShellInv'
  OBVIOUS
<1>1. TableOK' /\ SyncInv'
  BY ShellTable, NextSyncInv DEF ShellInv
<1>2. QueuesFit'
  BY NextFits DEF ShellInv
<1>3. slips' \in Nat /\ (slips' = 0 => Orderly')
  BY <1>1, NextOrderly
<1> QED BY <1>1, <1>2, <1>3 DEF ShellInv

LEMMA ShellInvServes == ShellInv => WaitersServed
<1> SUFFICES ASSUME ShellInv PROVE WaitersServed
  OBVIOUS
<1>0. TableOK /\ SyncInv /\ QueuesFit /\ (slips = 0 => Orderly)
  BY DEF ShellInv
<1>1. TypeOK
  BY <1>0, TableInvAccounts DEF PagesAccounted
<1>2. semaphore.waiters \in Seq(Pids) /\ mutex.waiters \in Seq(Pids)
      /\ mutex.owner \in Pids \cup {0} /\ semaphore.value \in Int
  BY <1>0 DEF SyncInv, SyncTypes
<1>3. Queued \subseteq Pids
  BY <1>2, QueueSet DEF Queued
<1>4. SyncTypeOK
  BY <1>0, <1>1, <1>2, <1>3 DEF SyncTypeOK, QueuesFit
<1>5. slips = 0 => IsInjective(semaphore.waiters \o mutex.waiters)
  BY <1>0, <1>2, DistinctConcat DEF Orderly
<1> QED BY <1>0, <1>4, <1>5 DEF WaitersServed, NoCreditLost, BlockedIsQueued, OwnerNotStuck, Orderly

\* As long as no program slipped, every credit is held or was given, whoever is blocked stands
\* in exactly one queue, and the owner of the mutex can go on: course_semaphore_wait,
\* course_mutex_lock and the wake-ups lose nobody, whatever forks, exits, kills and waits of
\* other processes fall in between.
THEOREM WaitersAreServed == ShellSpec => []WaitersServed
BY InitShellInv, NextShellInv, ShellInvServes, PTL DEF ShellSpec

\* course_mutex_unlock serves waiters in the order they came, those included that were
\* killed or reaped since.
THEOREM ServedInTurn == ShellSpec => ServedInOrder
<1>1. ASSUME SyncInv, [ShellNext]_vars, mutex'.waiters # mutex.waiters
      PROVE  \/ mutex' = [owner |-> 0, waiters |-> <<>>]
             \/ \E p \in Pids : mutex'.waiters = Append(mutex.waiters, p)
             \/ mutex.waiters = <<mutex'.owner>> \o mutex'.waiters
  <2>1. mutex' # mutex
    BY <1>1
  <2>2. CASE MutexInit
    BY <2>2 DEF MutexInit
  <2>3. CASE \E p \in Pids : MutexTake(p)
    BY <1>1, <2>3 DEF MutexTake, SyncInv, SyncTypes
  <2>4. CASE \E p \in Pids : MutexBlock(p)
    BY <2>4 DEF MutexBlock, SyncInv, SyncTypes
  <2>5. CASE \E p \in Pids : MutexUnlock(p)
    <3>1. CASE mutex.waiters = <<>>
      BY <1>1, <2>5, <3>1 DEF MutexUnlock, SyncInv, SyncTypes
    <3>2. CASE mutex.waiters # <<>>
      <4>1. mutex' = [owner |-> Head(mutex.waiters), waiters |-> Tail(mutex.waiters)]
        BY <2>5, <3>2 DEF MutexUnlock
      <4>2. mutex.waiters \in Seq(Pids)
        BY <1>1, QueuesAreQueues
      <4>3. mutex.waiters = <<Head(mutex.waiters)>> \o Tail(mutex.waiters)
        BY <3>2, <4>2
      <4> QED BY <4>1, <4>3
    <3> QED BY <3>1, <3>2
  <2> QED
    BY <1>1, <2>1, <2>2, <2>3, <2>4, <2>5
    DEF ShellNext, vars, Unsynchronised, SemaphoreInit, SemaphoreTake, SemaphoreBlock, SemaphorePost
<1>2. SyncInv /\ [ShellNext]_vars =>
        [mutex'.waiters # mutex.waiters =>
           \/ mutex' = [owner |-> 0, waiters |-> <<>>]
           \/ \E p \in Pids : mutex'.waiters = Append(mutex.waiters, p)
           \/ mutex.waiters = <<mutex'.owner>> \o mutex'.waiters]_vars
  BY <1>1
<1> QED BY <1>2, SyncInvariant, PTL DEF ShellSpec, ServedInOrder

-----------------------------------------------------------------------------
(* The online scheduler *)

\* Types; a process is registered once.
SchedulerTypes ==
  /\ policy \in Policies
  /\ tasks \in Seq(Pids) /\ Len(tasks) <= MaxTasks /\ Distinct(tasks)
  /\ vruntime \in Seq(0 .. MaxVruntime) /\ Len(vruntime) = Len(tasks)
  /\ current \in 0 .. Len(tasks)
  /\ sliceUsed \in 0 .. TimeSlice

SchedulerTyped == TableOK /\ SchedulerTypes

LEMMA SchedulerFacts ==
  ASSUME SchedulerTypes
  PROVE  /\ policy \in {"FCFS", "RR", "CFS_LITE"} /\ TimeSlice \in Nat \ {0} /\ MaxVruntime \in Nat
         /\ Len(tasks) \in Nat /\ DOMAIN tasks = 1 .. Len(tasks) /\ DOMAIN vruntime = 1 .. Len(tasks)
         /\ \A i \in DOMAIN tasks : tasks[i] \in Pids /\ vruntime[i] \in Nat /\ i \in Nat \ {0}
         /\ \A p \in Pids : p \in Nat
<1>1. \A i \in DOMAIN tasks : tasks[i] \in Pids /\ i \in Nat \ {0}
  BY DEF SchedulerTypes
<1>2. DOMAIN tasks = 1 .. Len(tasks) /\ DOMAIN vruntime = 1 .. Len(tasks) /\ Len(tasks) \in Nat
  BY DEF SchedulerTypes
<1>3. \A i \in DOMAIN tasks : vruntime[i] \in Nat
  <2> SUFFICES ASSUME NEW i \in DOMAIN tasks PROVE vruntime[i] \in Nat
    OBVIOUS
  <2>1. i \in DOMAIN vruntime
    BY <1>2
  <2> DEFINE T == 0 .. MaxVruntime
  <2>3. vruntime \in Seq(T)
    BY DEF SchedulerTypes
  <2> HIDE DEF T
  <2>4. vruntime[i] \in T
    BY <2>1, <2>3
  <2>2. vruntime[i] \in 0 .. MaxVruntime
    BY <2>4 DEF T
  <2> QED BY <2>2
<1> QED BY <1>1, <1>2, <1>3, SchedulerAssumption DEF SchedulerTypes, Pids

LEMMA LeastIndexFacts ==
  ASSUME NEW S \in SUBSET (Nat \ {0})
  PROVE  /\ S = {} => LeastIndex(S) = 0
         /\ S # {} => LeastIndex(S) \in S /\ LeastIndex(S) # 0
<1>1. ASSUME S # {}
      PROVE  LeastIndex(S) \in S
  <2>1. \E x \in S : \A y \in S : x <= y
    BY <1>1, LeastOf
  <2> QED BY <1>1, <2>1 DEF LeastIndex
<1> QED BY <1>1 DEF LeastIndex

\* The candidate with the least runtime, the least pid among equals.
LEMMA CfsFacts ==
  ASSUME SchedulerTypes, CfsCandidates # {}
  PROVE  /\ PickCfs \in CfsCandidates
         /\ \A i \in CfsCandidates : vruntime[PickCfs] <= vruntime[i]
<1> DEFINE C == CfsCandidates
           ahead(i, j) == vruntime[i] < vruntime[j] \/ (vruntime[i] = vruntime[j] /\ tasks[i] <= tasks[j])
<1>1. C \subseteq DOMAIN tasks /\ C # {}
  BY DEF CfsCandidates
<1>2. \A i \in C : vruntime[i] \in Nat /\ tasks[i] \in Nat
  BY <1>1, SchedulerFacts
<1> HIDE DEF C
<1> DEFINE runs == {vruntime[i] : i \in C}
<1>3. PICK least \in runs : \A y \in runs : least <= y
  <2>1. runs \in SUBSET Nat /\ runs # {}
    BY <1>1, <1>2
  <2> HIDE DEF runs
  <2> QED BY <2>1, LeastOf
<1> DEFINE first == {i \in C : vruntime[i] = least}
           pids == {tasks[i] : i \in first}
<1>4. PICK lowest \in pids : \A y \in pids : lowest <= y
  <2>1. pids \in SUBSET Nat /\ pids # {}
    BY <1>2, <1>3
  <2> HIDE DEF pids
  <2> QED BY <2>1, LeastOf
<1>5. PICK i \in first : tasks[i] = lowest
  BY <1>4
<1>6. \A j \in C : ahead(i, j)
  <2> SUFFICES ASSUME NEW j \in C PROVE ahead(i, j)
    OBVIOUS
  <2>1. least <= vruntime[j] /\ vruntime[i] = least /\ i \in C
    BY <1>3, <1>5
  <2>2. vruntime[j] = least => tasks[i] <= tasks[j]
    BY <1>4, <1>5
  <2> QED BY <1>2, <2>1, <2>2
<1>7. PickCfs = CHOOSE k \in C : \A j \in C : ahead(k, j)
  BY <1>1 DEF PickCfs, C
<1>8. PickCfs \in C /\ \A j \in C : ahead(PickCfs, j)
  BY <1>5, <1>6, <1>7
<1>9. \A j \in C : vruntime[PickCfs] <= vruntime[j]
  <2> SUFFICES ASSUME NEW j \in C PROVE vruntime[PickCfs] <= vruntime[j]
    OBVIOUS
  <2> DEFINE k == PickCfs
  <2>1. ahead(k, j) /\ vruntime[k] \in Nat /\ vruntime[j] \in Nat
    BY <1>2, <1>8
  <2> HIDE DEF k
  <2>2. vruntime[k] <= vruntime[j]
    BY <2>1
  <2> QED BY <2>2 DEF k
<1> QED BY <1>8, <1>9 DEF C

\* Whatever the policy, somebody who can run is picked if anybody is ready.
LEMMA PickFacts ==
  ASSUME SchedulerTypes, NEW previous \in 0 .. Len(tasks)
  PROVE  /\ Pick(previous) = 0 => \A i \in DOMAIN tasks : ~Ready(i)
         /\ Pick(previous) = 0 /\ policy = "CFS_LITE" => ~CurrentRunning
         /\ Pick(previous) # 0 => /\ Pick(previous) \in DOMAIN tasks
                                  /\ Ready(Pick(previous)) \/ (Pick(previous) = current /\ CurrentRunning)
         /\ policy = "CFS_LITE" => Pick(previous) = PickCfs
<1> DEFINE R == {i \in DOMAIN tasks : Ready(i)}
           A == {i \in DOMAIN tasks : i > previous /\ Ready(i)}
<1>1. R \in SUBSET (Nat \ {0}) /\ A \in SUBSET (Nat \ {0}) /\ A \subseteq R
  BY SchedulerFacts
<1>2. policy \in {"FCFS", "RR", "CFS_LITE"}
  BY SchedulerFacts
<1>3. R \subseteq DOMAIN tasks /\ \A i \in R : Ready(i)
  OBVIOUS
<1>4. \A i \in DOMAIN tasks : Ready(i) => i \in R
  OBVIOUS
<1>5. CASE policy = "FCFS"
  <2>1. Pick(previous) = LeastIndex(R)
    BY <1>5 DEF Pick, PickFcfs
  <2> HIDE DEF R
  <2> QED BY <1>1, <1>3, <1>4, <1>5, <2>1, LeastIndexFacts
<1>6. CASE policy = "RR"
  <2>1. Pick(previous) = IF LeastIndex(A) # 0 THEN LeastIndex(A) ELSE LeastIndex(R)
    BY <1>6 DEF Pick, PickRr
  <2> HIDE DEF R, A
  <2>2. LeastIndex(A) # 0 => LeastIndex(A) \in R
    BY <1>1, LeastIndexFacts
  <2> QED BY <1>1, <1>3, <1>4, <1>6, <2>1, <2>2, LeastIndexFacts
<1>7. CASE policy = "CFS_LITE"
  <2>1. Pick(previous) = PickCfs
    BY <1>7 DEF Pick
  <2>2. CASE CfsCandidates = {}
    <3>1. PickCfs = 0
      BY <2>2 DEF PickCfs
    <3>2. ~CurrentRunning
      BY <2>2, SchedulerFacts DEF CfsCandidates, CurrentRunning, SchedulerTypes
    <3> QED BY <2>1, <2>2, <3>1, <3>2 DEF CfsCandidates
  <2>3. CASE CfsCandidates # {}
    <3>1. PickCfs \in CfsCandidates
      BY <2>3, CfsFacts
    <3>2. PickCfs # 0
      BY <3>1, SchedulerFacts DEF CfsCandidates
    <3> QED BY <2>1, <3>1, <3>2 DEF CfsCandidates
  <2> QED BY <2>2, <2>3
<1> QED BY <1>2, <1>5, <1>6, <1>7

\* What online_select does to the states of the processes.
LEMMA SelectFacts ==
  ASSUME SchedulerTyped, NEW next \in DOMAIN tasks, NEW previous \in 0 .. Len(tasks),
         StateOf(table, tasks[next]) \in {"READY", "RUNNING"}
  PROVE  /\ TableInv(TableAfter(next, previous))
         /\ \A q \in Pids :
              StateOf(TableAfter(next, previous), q) =
                IF /\ previous # 0 /\ previous # next
                   /\ StateOf(table, tasks[previous]) = "RUNNING" /\ q = tasks[previous]
                THEN "READY"
                ELSE IF q = tasks[next] THEN "RUNNING" ELSE StateOf(table, q)
<1> DEFINE p == tasks[next]
           r == tasks[previous]
           t == SetState(table, p, "RUNNING")
           u == SetState(t, r, "READY")
           back == previous # 0 /\ previous # next /\ StateOf(table, r) = "RUNNING"
<1>1. TableInv(table) /\ SchedulerTypes /\ next # 0
  BY SchedulerFacts DEF SchedulerTyped, TableOK
<1>2. p \in Pids /\ SlotOf(table, p) # 0
  BY <1>1, SchedulerFacts DEF StateOf
<1>3. TableInv(t) /\ OnlyState(table, t, p, "RUNNING")
  BY <1>1, <1>2, SetStateOfPreserves, StateAfterSet
<1>4. TableAfter(next, previous) = IF back THEN u ELSE t
  BY <1>1 DEF TableAfter
<1>5. CASE ~back
  <2>1. TableAfter(next, previous) = t
    BY <1>4, <1>5
  <2> HIDE DEF t
  <2> QED BY <1>3, <1>5, <2>1 DEF OnlyState
<1>6. CASE back
  <2>1. r \in Pids
    BY <1>1, <1>6, SchedulerFacts
  <2> HIDE DEF t
  <2>2. SlotOf(t, r) # 0
    <3>1. StateOf(t, r) = "RUNNING"
      BY <1>3, <1>6, <2>1 DEF OnlyState
    <3> QED BY <3>1 DEF StateOf
  <2>3. TableInv(u) /\ OnlyState(t, u, r, "READY")
    BY <1>3, <2>1, <2>2, SetStateOfPreserves, StateAfterSet
  <2>4. TableAfter(next, previous) = u
    BY <1>4, <1>6
  <2> HIDE DEF u
  <2> QED BY <1>3, <1>6, <2>1, <2>3, <2>4 DEF OnlyState
<1> QED BY <1>5, <1>6

\* A tick, whichever of the three it is: the next one and what becomes of the states.
Picked(next) ==
  \/ /\ ~CurrentRunning /\ next = Pick(current) /\ table' = TableAfter(next, 0) /\ Charge(next, 0)
  \/ CurrentRunning /\ KeepsCurrent /\ next = current /\ UNCHANGED table /\ Charge(next, sliceUsed)
  \/ /\ CurrentRunning /\ ~KeepsCurrent /\ next = Pick(current) /\ table' = TableAfter(next, current)
     /\ Charge(next, 0)

LEMMA TickPicks == Tick <=> \E next \in {current, Pick(current)} : Picked(next)
BY DEF Tick, TickSelect, TickContinue, TickPreempt, Picked

LEMMA ChargeTyped ==
  ASSUME SchedulerTypes, NEW next \in 0 .. Len(tasks), NEW used \in 0 .. TimeSlice,
         policy = "RR" => used < TimeSlice, Charge(next, used)
  PROVE  SchedulerTypes'
<1>1. policy' = policy /\ tasks' = tasks /\ current' = next
  BY DEF Charge
<1>2. sliceUsed' \in 0 .. TimeSlice
  BY SchedulerFacts DEF Charge
<1>3. vruntime' \in Seq(0 .. MaxVruntime) /\ Len(vruntime') = Len(vruntime)
  <2>1. CASE policy = "CFS_LITE" /\ next # 0
    <3> DEFINE more == vruntime[next] + 1
    <3>1. next \in 1 .. Len(vruntime) /\ vruntime[next] \in Nat /\ vruntime[next] < MaxVruntime
      BY <2>1, SchedulerFacts DEF SchedulerTypes, Charge
    <3>2. more \in 0 .. MaxVruntime
      BY <3>1, SchedulerFacts
    <3>3. vruntime' = [vruntime EXCEPT ![next] = more]
      BY <2>1 DEF Charge
    <3> HIDE DEF more
    <3>4. vruntime \in Seq(0 .. MaxVruntime)
      BY DEF SchedulerTypes
    <3> QED BY <3>1, <3>2, <3>3, <3>4
  <2>2. CASE ~(policy = "CFS_LITE" /\ next # 0)
    BY <2>2 DEF Charge, SchedulerTypes
  <2> QED BY <2>1, <2>2
<1> QED BY <1>1, <1>2, <1>3 DEF SchedulerTypes

LEMMA TickTyped ==
  ASSUME SchedulerTyped, Tick
  PROVE  SchedulerTyped'
<1>1. TableInv(table) /\ SchedulerTypes /\ TimeSlice \in Nat \ {0} /\ current \in 0 .. Len(tasks)
      /\ Len(tasks) \in Nat /\ sliceUsed \in 0 .. TimeSlice
  BY SchedulerFacts DEF SchedulerTyped, TableOK, SchedulerTypes
<1>2. PICK next : Picked(next)
  BY TickPicks
<1>3. next \in 0 .. Len(tasks)
  <2>1. Pick(current) \in 0 .. Len(tasks)
    BY <1>1, PickFacts, SchedulerFacts
  <2> QED BY <1>1, <1>2, <2>1 DEF Picked
<1>4. SchedulerTypes'
  <2>1. CASE ~(CurrentRunning /\ KeepsCurrent)
    BY <1>1, <1>2, <1>3, <2>1, ChargeTyped DEF Picked
  <2>2. CASE CurrentRunning /\ KeepsCurrent
    <3>1. policy = "RR" => sliceUsed < TimeSlice
      BY <2>2 DEF KeepsCurrent
    <3> QED BY <1>1, <1>2, <1>3, <2>2, <3>1, ChargeTyped DEF Picked
  <2> QED BY <2>1, <2>2
<1>5. TableInv(table')
  <2>1. CASE UNCHANGED table
    BY <1>1, <2>1
  <2>2. CASE \E previous \in {0, current} : table' = TableAfter(next, previous) /\ next = Pick(current)
    <3>1. PICK previous \in {0, current} : table' = TableAfter(next, previous) /\ next = Pick(current)
      BY <2>2
    <3>2. CASE next = 0
      BY <1>1, <3>1, <3>2 DEF TableAfter
    <3>3. CASE next # 0
      <4>1. next \in DOMAIN tasks /\ StateOf(table, tasks[next]) \in {"READY", "RUNNING"}
        BY <1>1, <3>1, <3>3, PickFacts DEF Ready, CurrentRunning
      <4>2. previous \in 0 .. Len(tasks)
        BY <1>1, <3>1
      <4> QED BY <3>1, <4>1, <4>2, SelectFacts
    <3> QED BY <3>2, <3>3
  <2> QED BY <1>2, <2>1, <2>2 DEF Picked
<1> QED BY <1>4, <1>5 DEF SchedulerTyped, TableOK

\* A step of the processes starts nobody.
NoNewRunner(t, u) == \A p \in Pids : StateOf(u, p) = "RUNNING" => StateOf(t, p) = "RUNNING"

LEMMA SlotsNoRunner ==
  ASSUME NEW t, TableInv(t), NEW u, TableInv(u),
         \A s \in Slots : u.procs[s].state = "RUNNING" =>
           t.procs[s].state = "RUNNING" /\ u.procs[s].pid = t.procs[s].pid
  PROVE  NoNewRunner(t, u)
<1> SUFFICES ASSUME NEW p \in Pids, StateOf(u, p) = "RUNNING" PROVE StateOf(t, p) = "RUNNING"
  BY DEF NoNewRunner
<1>1. \E s \in Slots : u.procs[s].pid = p /\ u.procs[s].state = "RUNNING"
  BY StateOfSlot
<1>2. \E s \in Slots : t.procs[s].pid = p /\ t.procs[s].state = "RUNNING"
  BY <1>1
<1> QED BY <1>2, StateOfSlot

LEMMA SetNoRunner ==
  ASSUME NEW t, TableInv(t), NEW p \in Pids, SlotOf(t, p) # 0,
         NEW state \in {"READY", "BLOCKED", "ZOMBIE"}, NEW u, u = SetState(t, p, state)
  PROVE  NoNewRunner(t, u) /\ TableInv(u)
<1>1. state \in {"READY", "RUNNING", "BLOCKED", "ZOMBIE"}
  OBVIOUS
<1>2. OnlyState(t, u, p, state) /\ TableInv(u)
  BY <1>1, StateAfterSet, SetStateOfPreserves
<1> QED BY <1>2 DEF OnlyState, NoNewRunner

LEMMA ProcessesFacts ==
  ASSUME TableOK, Processes
  PROVE  TableOK' /\ NoNewRunner(table, table')
<1>0. TableInv(table)
  BY DEF TableOK
<1>1. 1 \in Pids
  BY ProcessAssumption DEF Pids
<1>2. CASE Fork(1)
  <2>1. TableInv(table')
    BY <1>0, <1>1, <1>2, ForkedPreserves DEF Fork
  <2> DEFINE s == SlotOf(table, 1)
             child == SpawnSlot(table)
  <2>2. ForkedTo(table, s, child, table')
    BY <1>0, <1>1, <1>2, ForkedFields DEF Fork
  <2>3. \A r \in Slots : table'.procs[r].state = "RUNNING" =>
           table.procs[r].state = "RUNNING" /\ table'.procs[r].pid = table.procs[r].pid
    BY <2>2 DEF ForkedTo
  <2>4. NoNewRunner(table, table')
    BY <1>0, <2>1, <2>3, SlotsNoRunner
  <2> QED BY <2>1, <2>4 DEF TableOK
<1>3. CASE Wait(1)
  <2>1. PICK s \in Slots : table.procs[s].state = "ZOMBIE" /\ table' = Reaped(table, s)
    BY <1>3 DEF Wait
  <2> DEFINE v == Released(table, s)
  <2>2. TableInv(v) /\ ReleasedTo(table, s, v)
    BY <1>0, <2>1, ReleasedPreserves, ReleasedFields
  <2>3. table' = StateSet(v, s, "DEAD")
    BY <2>1 DEF Reaped, StateSet
  <2>4. TableInv(table')
    BY <1>0, <1>1, <1>3, WaitPreserves
  <2> HIDE DEF v
  <2>5. StateSetTo(v, s, "DEAD", table')
    BY <2>2, <2>3, SetStateFields
  <2>6. \A r \in Slots : table'.procs[r].state = "RUNNING" =>
           table.procs[r].state = "RUNNING" /\ table'.procs[r].pid = table.procs[r].pid
    BY <2>2, <2>5 DEF ReleasedTo, StateSetTo
  <2>7. NoNewRunner(table, table')
    BY <1>0, <2>4, <2>6, SlotsNoRunner
  <2> QED BY <2>4, <2>7 DEF TableOK
<1>4. ASSUME NEW p \in Pids, Exec(p)
      PROVE  TableOK' /\ NoNewRunner(table, table')
  <2> DEFINE s == SlotOf(table, p)
             v == Released(table, s)
  <2>1. s \in Slots /\ s # 0
    BY <1>0, <1>4, LiveSlot DEF Exec
  <2>2. TableInv(v) /\ ReleasedTo(table, s, v)
    BY <1>0, <2>1, ReleasedPreserves, ReleasedFields
  <2>3. table' = SetState(v, p, "READY")
    BY <1>4 DEF Exec
  <2> HIDE DEF v
  <2>4. SlotOf(v, p) = s
    BY <2>2, SameSlot DEF ReleasedTo
  <2>5. NoNewRunner(v, table') /\ TableInv(table')
    BY <2>1, <2>2, <2>3, <2>4, SetNoRunner
  <2>6. NoNewRunner(table, v)
    BY <1>0, <2>2, SlotsNoRunner DEF ReleasedTo
  <2> QED BY <2>5, <2>6 DEF TableOK, NoNewRunner
<1>5. ASSUME NEW p \in Pids, Exit(p) \/ Kill(1, p) \/ Block(p) \/ WakeUp(p)
      PROVE  TableOK' /\ NoNewRunner(table, table')
  <2>1. SlotOf(table, p) # 0
    BY <1>5 DEF Exit, Kill, Block, WakeUp, IsLive, StateOf, Live
  <2>2. \E state \in {"READY", "BLOCKED", "ZOMBIE"} : table' = SetState(table, p, state)
    BY <1>5 DEF Exit, Kill, Block, WakeUp
  <2> QED BY <1>0, <2>1, <2>2, SetNoRunner DEF TableOK
<1> QED BY <1>2, <1>3, <1>4, <1>5 DEF Processes

\* The inductive invariant of the policies that never put a process aside that goes on alone.
SchedulerInv == SchedulerTyped /\ RunningIsCurrent

LEMMA SchedulerInitOK == SchedulerInit => SchedulerInv
<1> SUFFICES ASSUME SchedulerInit PROVE SchedulerInv
  OBVIOUS
<1>1. TableOK
  BY InitTable DEF SchedulerInit
<1>2. SchedulerTypes
  <2>1. tasks = <<>> /\ vruntime = <<>> /\ Distinct(<<>>)
    BY DEF SchedulerInit, Distinct
  <2>2. Len(<<>>) = 0 /\ <<>> \in Seq(Pids) /\ <<>> \in Seq(0 .. MaxVruntime)
    OBVIOUS
  <2> QED BY <2>1, <2>2, SchedulerAssumption DEF SchedulerInit, SchedulerTypes
<1>3. \A s \in Slots : table.procs[s].state # "RUNNING"
  BY DEF SchedulerInit, Init, Cleared
<1>4. \A p \in Pids : StateOf(table, p) # "RUNNING"
  BY <1>1, <1>3, StateOfSlot DEF TableOK
<1> QED BY <1>1, <1>2, <1>4 DEF SchedulerInv, SchedulerTyped, RunningIsCurrent

LEMMA AddProcessOK ==
  ASSUME SchedulerInv, NEW pid \in Pids, AddProcess(pid)
  PROVE  SchedulerInv'
<1>1. SchedulerTypes /\ TableOK /\ RunningIsCurrent
  BY DEF SchedulerInv, SchedulerTyped
<1>2. /\ tasks' = Append(tasks, pid) /\ vruntime' = Append(vruntime, 0) /\ table' = table
      /\ policy' = policy /\ current' = current /\ sliceUsed' = sliceUsed /\ Len(tasks) < MaxTasks
      /\ \A i \in DOMAIN tasks : tasks[i] # pid
  BY DEF AddProcess
<1>3. /\ tasks \in Seq(Pids) /\ Distinct(tasks) /\ vruntime \in Seq(0 .. MaxVruntime)
      /\ Len(vruntime) = Len(tasks) /\ MaxTasks \in Nat /\ 0 \in 0 .. MaxVruntime /\ Len(tasks) \in Nat
      /\ current \in 0 .. Len(tasks)
  BY <1>1, SchedulerAssumption DEF SchedulerTypes
<1> DEFINE T == 0 .. MaxVruntime
           more == Append(tasks, pid)
<1>4. /\ more \in Seq(Pids) /\ Len(more) = Len(tasks) + 1
      /\ \A i \in 1 .. Len(tasks) : more[i] = tasks[i]
      /\ more[Len(tasks) + 1] = pid
  BY <1>3
<1>5. Append(vruntime, 0) \in Seq(T) /\ Len(Append(vruntime, 0)) = Len(vruntime) + 1
  <2>1. vruntime \in Seq(T) /\ 0 \in T
    BY <1>3
  <2> HIDE DEF T
  <2> QED BY <2>1
<1> HIDE DEF more
<1>6. Distinct(more)
  <2> SUFFICES ASSUME NEW i \in 1 .. Len(more), NEW j \in 1 .. Len(more), more[i] = more[j]
               PROVE  i = j
    BY DEF Distinct
  <2>1. \A k \in 1 .. Len(tasks) : tasks[k] # pid
    BY <1>2, <1>3
  <2>2. i \in 1 .. Len(tasks) \/ i = Len(tasks) + 1
    BY <1>3, <1>4
  <2>3. j \in 1 .. Len(tasks) \/ j = Len(tasks) + 1
    BY <1>3, <1>4
  <2> QED BY <1>3, <1>4, <2>1, <2>2, <2>3 DEF Distinct
<1>7. SchedulerTypes'
  <2>1. Len(more) <= MaxTasks /\ current \in 0 .. Len(more)
    BY <1>2, <1>3, <1>4
  <2> QED BY <1>1, <1>2, <1>3, <1>4, <1>5, <1>6, <2>1 DEF SchedulerTypes, more
<1>8. RunningIsCurrent'
  <2> SUFFICES ASSUME NEW p \in Pids, StateOf(table', p) = "RUNNING"
               PROVE  current' # 0 /\ tasks'[current'] = p
    BY DEF RunningIsCurrent
  <2>1. current # 0 /\ tasks[current] = p
    BY <1>1, <1>2 DEF RunningIsCurrent
  <2>2. current \in 1 .. Len(tasks)
    BY <1>3, <2>1
  <2> QED BY <1>2, <1>4, <2>1, <2>2 DEF more
<1> QED BY <1>1, <1>2, <1>7, <1>8 DEF SchedulerInv, SchedulerTyped, TableOK

LEMMA ProcessesOK ==
  ASSUME SchedulerInv, Processes
  PROVE  SchedulerInv'
<1>1. TableOK' /\ NoNewRunner(table, table') /\ UNCHANGED scheduler
  BY ProcessesFacts DEF SchedulerInv, SchedulerTyped, Processes
<1>2. SchedulerTypes'
  BY <1>1 DEF SchedulerInv, SchedulerTyped, SchedulerTypes, scheduler
<1>3. RunningIsCurrent'
  BY <1>1 DEF SchedulerInv, RunningIsCurrent, NoNewRunner, scheduler
<1> QED BY <1>1, <1>2, <1>3 DEF SchedulerInv, SchedulerTyped

\* Of two that could run one is put back, so long as it is the policy that chose the other.
LEMMA TickOK ==
  ASSUME SchedulerInv, policy # "RR", Tick
  PROVE  SchedulerInv'
<1>1. SchedulerTyped /\ SchedulerTypes /\ RunningIsCurrent
  BY DEF SchedulerInv, SchedulerTyped
<1>2. SchedulerTyped'
  BY <1>1, TickTyped
<1>3. PICK next : Picked(next)
  BY TickPicks
<1>4. tasks' = tasks /\ current' = next /\ policy' = policy
  BY <1>3 DEF Picked, Charge
<1>5. current \in 0 .. Len(tasks) /\ 0 \in 0 .. Len(tasks)
  BY <1>1, SchedulerFacts DEF SchedulerTypes
<1> SUFFICES ASSUME NEW p \in Pids, StateOf(table', p) = "RUNNING"
             PROVE  next # 0 /\ tasks[next] = p
  BY <1>2, <1>4 DEF SchedulerInv, RunningIsCurrent
<1>6. CASE CurrentRunning /\ KeepsCurrent
  BY <1>1, <1>3, <1>6 DEF Picked, RunningIsCurrent
<1>7. CASE ~(CurrentRunning /\ KeepsCurrent)
  <2>1. PICK previous \in {0, current} :
          /\ table' = TableAfter(next, previous) /\ next = Pick(current)
          /\ CurrentRunning => previous = current
    BY <1>3, <1>7 DEF Picked
  <2>2. previous \in 0 .. Len(tasks)
    BY <1>5, <2>1
  <2>3. next # 0
    <3> SUFFICES ASSUME next = 0 PROVE FALSE
      OBVIOUS
    <3>1. table' = table
      BY <2>1 DEF TableAfter
    <3>2. current # 0 /\ tasks[current] = p
      BY <1>1, <3>1 DEF RunningIsCurrent
    <3>3. CurrentRunning
      BY <3>1, <3>2 DEF CurrentRunning
    <3>4. policy = "CFS_LITE"
      BY <1>1, <1>7, <3>3, SchedulerFacts DEF KeepsCurrent
    <3> QED BY <1>1, <1>5, <2>1, <3>3, <3>4, PickFacts
  <2>4. next \in DOMAIN tasks /\ StateOf(table, tasks[next]) \in {"READY", "RUNNING"}
    BY <1>1, <1>5, <2>1, <2>3, PickFacts DEF Ready, CurrentRunning
  <2>5. StateOf(table', p) =
          IF /\ previous # 0 /\ previous # next
             /\ StateOf(table, tasks[previous]) = "RUNNING" /\ p = tasks[previous]
          THEN "READY"
          ELSE IF p = tasks[next] THEN "RUNNING" ELSE StateOf(table, p)
    BY <1>1, <2>1, <2>2, <2>4, SelectFacts
  <2>6. ASSUME p # tasks[next]
        PROVE  FALSE
    <3>1. StateOf(table, p) = "RUNNING"
      BY <2>5, <2>6
    <3>2. current # 0 /\ tasks[current] = p
      BY <1>1, <3>1 DEF RunningIsCurrent
    <3>3. previous = current /\ previous # next
      BY <2>1, <2>6, <3>1, <3>2 DEF CurrentRunning
    <3> QED BY <2>5, <3>1, <3>2, <3>3
  <2> QED BY <2>3, <2>6
<1> QED BY <1>6, <1>7

LEMMA SchedulerTypesImply == SchedulerTyped => SchedulerTypeOK
BY TableInvAccounts DEF SchedulerTyped, SchedulerTypes, SchedulerTypeOK, PagesAccounted

LEMMA SchedulerInvariant ==
  ASSUME "RR" \notin Policies
  PROVE  SchedulerSpec => []SchedulerInv
<1>1. SchedulerInv => policy # "RR"
  BY DEF SchedulerInv, SchedulerTyped, SchedulerTypes
<1>2. SchedulerInv /\ SchedulerNext => SchedulerInv'
  BY <1>1, TickOK, ProcessesOK, AddProcessOK DEF SchedulerNext
<1>3. SchedulerInv /\ UNCHANGED schedulerVars => SchedulerInv'
  BY DEF SchedulerInv, SchedulerTyped, SchedulerTypes, TableOK, RunningIsCurrent, schedulerVars
<1> QED BY <1>2, <1>3, SchedulerInitOK, PTL DEF SchedulerSpec

\* Under FCFS and CFS-lite, for any table and any number of tasks: whatever is forked, blocked,
\* woken, killed and reaped between two ticks, only the scheduler's current process is in
\* state RUNNING (online_select; under round robin it is not so).
THEOREM OnlyOneRuns ==
  ASSUME "RR" \notin Policies
  PROVE  SchedulerSpec => []OneRuns
<1>1. SchedulerInv => OneRuns
  BY SchedulerTypesImply DEF SchedulerInv, OneRuns
<1> QED BY <1>1, SchedulerInvariant, PTL

\* And no tick is idle while a registered process could use it, nor, under CFS-lite, given to
\* one that is ahead of a ready one (online_pick_fcfs, online_pick_cfs_lite).
THEOREM NoTickWasted ==
  ASSUME "RR" \notin Policies
  PROVE  SchedulerSpec => TicksWellSpent
<1>1. ASSUME SchedulerInv, Tick, current' = 0, NEW i \in DOMAIN tasks
      PROVE  StateOf(table, tasks[i]) \notin {"READY", "RUNNING"}
  <2>1. SchedulerTypes /\ RunningIsCurrent /\ policy # "RR" /\ current \in 0 .. Len(tasks)
    BY <1>1 DEF SchedulerInv, SchedulerTyped, SchedulerTypes
  <2>2. PICK next : Picked(next)
    BY <1>1, TickPicks
  <2>3. next = 0
    BY <1>1, <2>2 DEF Picked, Charge
  <2>4. ~CurrentRunning
    <3> SUFFICES ASSUME CurrentRunning PROVE FALSE
      OBVIOUS
    <3>1. policy = "CFS_LITE" /\ next = Pick(current)
      BY <2>1, <2>2, <2>3, SchedulerFacts DEF Picked, KeepsCurrent, CurrentRunning
    <3> QED BY <2>1, <2>3, <3>1, PickFacts
  <2>5. ~Ready(i)
    BY <1>1, <2>1, <2>2, <2>3, <2>4, PickFacts DEF Picked
  <2>6. StateOf(table, tasks[i]) # "RUNNING"
    BY <1>1, <2>1, <2>4, SchedulerFacts DEF RunningIsCurrent, CurrentRunning
  <2> QED BY <2>5, <2>6 DEF Ready
<1>2. ASSUME SchedulerInv, Tick, policy = "CFS_LITE", current' # 0, NEW i \in DOMAIN tasks, Ready(i)'
      PROVE  vruntime'[current'] <= vruntime'[i] + 1
  <2>1. SchedulerTyped /\ SchedulerTypes /\ RunningIsCurrent /\ current \in 0 .. Len(tasks)
    BY <1>2 DEF SchedulerInv, SchedulerTyped, SchedulerTypes
  <2>2. PICK next : Picked(next)
    BY <1>2, TickPicks
  <2>3. /\ current' = next /\ next # 0 /\ tasks' = tasks
        /\ vruntime' = [vruntime EXCEPT ![next] = vruntime[next] + 1]
    BY <1>2, <2>2 DEF Picked, Charge
  <2>4. next = PickCfs
    BY <1>2, <2>1, <2>2, PickFacts DEF Picked, KeepsCurrent
  <2>5. CfsCandidates # {}
    BY <2>3, <2>4 DEF PickCfs
  <2>6. next \in CfsCandidates /\ \A j \in CfsCandidates : vruntime[next] <= vruntime[j]
    BY <2>1, <2>4, <2>5, CfsFacts
  <2>7. next \in DOMAIN tasks /\ vruntime[next] \in Nat /\ vruntime[i] \in Nat
        /\ i \in DOMAIN vruntime /\ next \in DOMAIN vruntime
    BY <1>2, <2>1, <2>6, SchedulerFacts DEF CfsCandidates
  <2>8. i = next \/ i \in CfsCandidates
    <3> SUFFICES ASSUME i # next PROVE i \in CfsCandidates
      OBVIOUS
    <3>0. StateOf(table', tasks[i]) = "READY" /\ tasks[i] \in Pids
      BY <1>2, <2>1, <2>3, SchedulerFacts DEF Ready
    <3>1. CASE CurrentRunning /\ KeepsCurrent
      BY <1>2, <2>2, <3>0, <3>1 DEF Picked, Ready, CfsCandidates
    <3>2. CASE ~(CurrentRunning /\ KeepsCurrent)
      <4>1. PICK previous \in {0, current} :
              table' = TableAfter(next, previous) /\ (previous = current \/ ~CurrentRunning)
        BY <2>2, <3>2 DEF Picked
      <4>2. previous \in 0 .. Len(tasks) /\ StateOf(table, tasks[next]) \in {"READY", "RUNNING"}
        BY <2>1, <2>6, <4>1, SchedulerFacts DEF CfsCandidates, Ready, CurrentRunning
      <4>3. StateOf(table', tasks[i]) =
              IF /\ previous # 0 /\ previous # next
                 /\ StateOf(table, tasks[previous]) = "RUNNING" /\ tasks[i] = tasks[previous]
              THEN "READY"
              ELSE IF tasks[i] = tasks[next] THEN "RUNNING" ELSE StateOf(table, tasks[i])
        BY <2>1, <2>7, <3>0, <4>1, <4>2, SelectFacts
      <4>4. CASE StateOf(table, tasks[i]) = "READY"
        BY <1>2, <4>4 DEF CfsCandidates, Ready
      <4>5. CASE StateOf(table, tasks[i]) # "READY"
        <5>1. previous # 0 /\ StateOf(table, tasks[previous]) = "RUNNING" /\ tasks[i] = tasks[previous]
          BY <3>0, <4>3, <4>5
        <5>2. previous = current /\ CurrentRunning
          BY <4>1, <5>1 DEF CurrentRunning
        <5>3. i = current
          BY <1>2, <2>1, <5>1, <5>2, SchedulerFacts DEF SchedulerTypes, Distinct, CurrentRunning
        <5> QED BY <1>2, <5>2, <5>3 DEF CfsCandidates
      <4> QED BY <4>4, <4>5
    <3> QED BY <3>1, <3>2
  <2>9. vruntime[next] <= vruntime[i]
    BY <2>6, <2>7, <2>8
  <2>10. vruntime'[next] = vruntime[next] + 1
         /\ vruntime'[i] = IF i = next THEN vruntime[next] + 1 ELSE vruntime[i]
    BY <2>3, <2>7
  <2> QED BY <2>3, <2>7, <2>9, <2>10
<1>3. SchedulerInv /\ [SchedulerNext]_schedulerVars => [NoIdleWhileRunnable /\ FairShare]_schedulerVars
  <2> SUFFICES ASSUME SchedulerInv PROVE NoIdleWhileRunnable /\ FairShare
    OBVIOUS
  <2> QED BY <1>1, <1>2 DEF NoIdleWhileRunnable, FairShare
<1> QED BY <1>3, SchedulerInvariant, PTL DEF SchedulerSpec, TicksWellSpent

-----------------------------------------------------------------------------
(* Files of the Linux compatibility layer *)

\* The parts of the invariant, of descriptors f, nodes ns, pipes ps and the history of slots.
Descriptor ==
  [kind : {"closed", "terminal", "device", "lower", "overlay", "reader", "writer"}, slot : Nat,
   write : BOOLEAN, append : BOOLEAN, cloexec : BOOLEAN, offset : Nat]
Node == [path : Names \cup {NoName}, dir : BOOLEAN, opens : Nat, size : 0 .. FileSize]

DescriptorsKnown(f, ps) ==
  /\ f \in [Fds -> Descriptor]
  /\ \A fd \in Fds : f[fd].kind = "overlay" => f[fd].slot \in NodeSlots
  /\ \A fd \in Fds : f[fd].kind \in {"reader", "writer"} => f[fd].slot \in PipeSlots /\ ps[f[fd].slot].used

PipesKnown(ps) ==
  /\ ps \in [PipeSlots -> [used : BOOLEAN, size : Nat, read : Nat]]
  /\ \A k \in PipeSlots : ps[k].read <= ps[k].size /\ ps[k].size <= PipeSize

\* The descriptors of a node, and that they are counted.
Holders(f, n) == {fd \in Fds : f[fd].kind = "overlay" /\ f[fd].slot = n}
CountedAt(f, ns, h, n) ==
  /\ ns[n].opens >= Cardinality(Holders(f, n))
  /\ n \notin h.abandoned => ns[n].opens = Cardinality(Holders(f, n))
OpensCounted(f, ns, h) == \A n \in NodeSlots \ h.uncounted : CountedAt(f, ns, h, n)

\* Names are unique, and the directory of each is there.
NamesUnique(ns) ==
  \A m, n \in NodeSlots : ns[m].path = ns[n].path /\ ns[m].path # NoName => m = n
ParentIn(ns, p) ==
  ParentOf[p] = Root \/ \E m \in NodeSlots : ns[m].path = ParentOf[p] /\ ns[m].dir
ParentsThere(ns) == \A n \in NodeSlots : ns[n].path # NoName => ParentIn(ns, ns[n].path)

HistoryKnown(h) ==
  h \in [uncounted : SUBSET NodeSlots, abandoned : SUBSET NodeSlots, moved : BOOLEAN]

LinuxInv ==
  /\ DescriptorsKnown(fds, pipes) /\ PipesKnown(pipes)
  /\ nodes \in [NodeSlots -> Node] /\ HistoryKnown(doubted)
  /\ OpensCounted(fds, nodes, doubted)
  /\ NamesUnique(nodes)
  /\ ~doubted.moved => ParentsThere(nodes)

LEMMA LinuxPrimed ==
  ASSUME DescriptorsKnown(fds', pipes'), PipesKnown(pipes'), nodes' \in [NodeSlots -> Node],
         HistoryKnown(doubted'), OpensCounted(fds', nodes', doubted'), NamesUnique(nodes'),
         ~doubted'.moved => ParentsThere(nodes')
  PROVE  LinuxInv'
BY DEF LinuxInv, HistoryKnown, PipesKnown, DescriptorsKnown, OpensCounted, CountedAt, Holders,
       NamesUnique, ParentsThere, ParentIn

\* The constants of the module.
LEMMA LinuxConstants ==
  /\ MaxFds \in Nat /\ MaxNodes \in Nat /\ MaxPipes \in Nat /\ FileSize \in Nat /\ PipeSize \in Nat
  /\ LowerNames \subseteq Names /\ NoName \notin Names
  /\ \A p \in Names : ParentOf[p] # NoName
  /\ \A p \in LowerNames : ParentOf[p] = Root
<1>1. {MaxNodes, MaxPipes, FileSize, PipeSize, MaxLeft} \subseteq Nat /\ MaxFds \in Nat
  BY LinuxFilesAssumption
<1>2. ParentOf \in [Names -> Names \cup {Root}]
  BY LinuxFilesAssumption DEF Root
<1>3. NoName \notin Names /\ NoName # Root
  BY LinuxFilesAssumption DEF NoName, Root
<1>4. LowerNames \subseteq Names /\ \A p \in LowerNames : ParentOf[p] = Root
  BY LinuxFilesAssumption DEF Root
<1> QED BY <1>1, <1>2, <1>3, <1>4

\* The least of a set of slots or descriptors is one of them.
LEMMA LeastMember ==
  ASSUME NEW S \in SUBSET Nat, S # {}
  PROVE  Min(S) \in S
BY LeastOf DEF Min

\* Sets of descriptors are finite.
LEMMA FdsFinite ==
  ASSUME NEW S \in SUBSET Fds
  PROVE  IsFiniteSet(S) /\ Cardinality(S) \in Nat
<1>1. IsFiniteSet(Fds)
  <2>1. 3 \in Int /\ MaxFds - 1 \in Int
    BY LinuxConstants
  <2> QED BY <2>1, FS_Interval DEF Fds
<1>2. IsFiniteSet(S)
  BY <1>1, FS_Subset
<1> QED BY <1>2, FS_CardinalityType

\* A descriptor that takes the place of another joins the holders of its node.
Replaced(f, x, d, g) == g \in [Fds -> Descriptor] /\ g[x] = d /\ \A y \in Fds : y # x => g[y] = f[y]

LEMMA DescriptorReplaced ==
  ASSUME NEW f \in [Fds -> Descriptor], NEW x \in Fds, NEW d \in Descriptor,
         NEW g, g = [f EXCEPT ![x] = d]
  PROVE  Replaced(f, x, d, g)
BY DEF Replaced

HoldersReplaced(f, x, d, g) ==
  \A n : Holders(g, n) = IF d.kind = "overlay" /\ d.slot = n THEN Holders(f, n) \cup {x}
                         ELSE Holders(f, n) \ {x}

LEMMA HoldersChanged ==
  ASSUME NEW f, NEW x \in Fds, NEW d, NEW g, Replaced(f, x, d, g)
  PROVE  HoldersReplaced(f, x, d, g)
BY DEF HoldersReplaced, Holders, Replaced

SlotsKnown(f) == \A y \in Fds : f[y].kind = "overlay" => f[y].slot \in NodeSlots
SameFiles(ns, after) ==
  \A n \in NodeSlots : after[n].path = ns[n].path /\ after[n].dir = ns[n].dir
                         /\ after[n].size = ns[n].size

Closing(f, ns, x) == IF f[x].kind = "overlay" THEN ReleasedOpen(ns, f[x].slot) ELSE ns

\* Closing a descriptor and releasing its node (close, and dup3 first of all).
LEMMA ClosedCounted ==
  ASSUME NEW f \in [Fds -> Descriptor], NEW ns \in [NodeSlots -> Node], NEW h,
         SlotsKnown(f),
         OpensCounted(f, ns, h), NEW x \in Fds, NEW d \in Descriptor, d.kind # "overlay",
         NEW g, Replaced(f, x, d, g), NEW after, after = Closing(f, ns, x)
  PROVE  /\ after \in [NodeSlots -> Node] /\ OpensCounted(g, after, h)
         /\ SameFiles(ns, after)
<1> DEFINE s == f[x].slot
           e == IF ns[s].opens = 0 THEN 0 ELSE ns[s].opens - 1
<1>0. HoldersReplaced(f, x, d, g)
  BY ONLY x \in Fds, Replaced(f, x, d, g), HoldersChanged
<1>1. ASSUME NEW n \in NodeSlots
      PROVE  Holders(g, n) = Holders(f, n) \ {x} /\ IsFiniteSet(Holders(f, n))
             /\ Cardinality(Holders(f, n)) \in Nat
  <2>1. Holders(g, n) = Holders(f, n) \ {x}
    BY ONLY d.kind # "overlay", <1>0 DEF HoldersReplaced
  <2>2. Holders(f, n) \in SUBSET Fds
    BY DEF Holders
  <2> QED BY <2>1, <2>2, FdsFinite
<1>2. CASE f[x].kind = "overlay"
  <2>1. s \in NodeSlots
    BY <1>2 DEF SlotsKnown
  <2>2. ns[s] \in Node /\ ns[s].opens \in Nat /\ e \in Nat
    BY <2>1 DEF Node
  <2>3. after = [ns EXCEPT ![s] = [ns[s] EXCEPT !.opens = e]]
    BY <1>2, <2>1 DEF ReleasedOpen, Closing
  <2> DEFINE new == [ns[s] EXCEPT !.opens = e]
  <2>4. /\ new \in Node /\ new.opens = e /\ new.path = ns[s].path /\ new.dir = ns[s].dir
        /\ new.size = ns[s].size
    BY ONLY <2>2 DEF Node
  <2> HIDE DEF new
  <2>5. /\ after \in [NodeSlots -> Node] /\ after[s] = new
        /\ \A n \in NodeSlots : n # s => after[n] = ns[n]
    BY ONLY <2>1, <2>3, <2>4, ns \in [NodeSlots -> Node] DEF new
  <2>6. ASSUME NEW n \in NodeSlots \ h.uncounted
        PROVE  CountedAt(g, after, h, n)
    <3>1. CountedAt(f, ns, h, n)
      BY DEF OpensCounted
    <3>2. CASE n = s
      <4>1. x \in Holders(f, n)
        BY <1>2, <3>2 DEF Holders
      <4>2. Cardinality(Holders(g, n)) = Cardinality(Holders(f, n)) - 1
        BY ONLY <1>1, <4>1, FS_RemoveElement, n \in NodeSlots
      <4>3. Cardinality(Holders(g, n)) \in Nat
        <5>1. Holders(g, n) \in SUBSET Fds
          BY DEF Holders
        <5> QED BY <5>1, FdsFinite
      <4>4. Cardinality(Holders(f, n)) \in Nat /\ Cardinality(Holders(f, n)) >= 1
        BY ONLY <1>1, <4>2, <4>3, n \in NodeSlots
      <4>5. after[n].opens = ns[n].opens - 1 /\ ns[n].opens \in Nat
        <5>1. ns[n].opens >= Cardinality(Holders(f, n))
          BY ONLY <3>1 DEF CountedAt
        <5>2. ns[s].opens # 0
          BY ONLY <2>2, <3>2, <4>4, <5>1
        <5> QED BY <2>2, <2>4, <2>5, <3>2, <5>2
      <4> QED BY ONLY <3>1, <4>2, <4>4, <4>5 DEF CountedAt
    <3>3. CASE n # s
      <4>1. Holders(g, n) = Holders(f, n)
        BY <1>1, <3>3 DEF Holders
      <4>2. after[n] = ns[n]
        BY ONLY <2>5, <3>3, n \in NodeSlots \ h.uncounted
      <4> QED BY ONLY <3>1, <4>1, <4>2 DEF CountedAt
    <3> QED BY <3>2, <3>3
  <2>7. \A n \in NodeSlots : after[n].path = ns[n].path /\ after[n].dir = ns[n].dir
                             /\ after[n].size = ns[n].size
    BY ONLY <2>4, <2>5
  <2> QED BY ONLY <2>5, <2>6, <2>7 DEF OpensCounted, SameFiles
<1>3. CASE f[x].kind # "overlay"
  <2>1. after = ns
    BY <1>3 DEF Closing
  <2>2. ASSUME NEW n \in NodeSlots PROVE Holders(g, n) = Holders(f, n)
    BY <1>1, <1>3 DEF Holders
  <2> QED BY ONLY <2>1, <2>2, ns \in [NodeSlots -> Node], OpensCounted(f, ns, h)
          DEF OpensCounted, CountedAt, SameFiles
<1> QED BY <1>2, <1>3

\* Opening a descriptor on a node and retaining it (openat, and dup3 in the end).
LEMMA OpenedCounted ==
  ASSUME NEW f \in [Fds -> Descriptor], NEW ns \in [NodeSlots -> Node], NEW h,
         OpensCounted(f, ns, h), NEW x \in Fds, f[x].kind # "overlay",
         NEW d \in Descriptor, d.kind = "overlay", d.slot \in NodeSlots,
         NEW g, Replaced(f, x, d, g), NEW after, after = Retained(ns, d.slot)
  PROVE  /\ after \in [NodeSlots -> Node] /\ OpensCounted(g, after, h)
         /\ SameFiles(ns, after)
<1> DEFINE s == d.slot
           new == [ns[s] EXCEPT !.opens = ns[s].opens + 1]
<1>0. HoldersReplaced(f, x, d, g)
  BY ONLY x \in Fds, Replaced(f, x, d, g), HoldersChanged
<1>1. ns[s] \in Node /\ ns[s].opens \in Nat /\ s \in NodeSlots
  BY DEF Node
<1>2. /\ new \in Node /\ new.opens = ns[s].opens + 1 /\ new.path = ns[s].path
      /\ new.dir = ns[s].dir /\ new.size = ns[s].size
  BY ONLY <1>1 DEF Node
<1>3. after = [ns EXCEPT ![s] = new]
  BY <1>1 DEF Retained
<1> HIDE DEF new
<1>4. /\ after \in [NodeSlots -> Node] /\ after[s] = new
      /\ \A n \in NodeSlots : n # s => after[n] = ns[n]
  BY ONLY <1>1, <1>2, <1>3, ns \in [NodeSlots -> Node]
<1>5. ASSUME NEW n \in NodeSlots \ h.uncounted
      PROVE  CountedAt(g, after, h, n)
  <2>1. CountedAt(f, ns, h, n)
    BY DEF OpensCounted
  <2>2. Holders(f, n) \in SUBSET Fds /\ x \notin Holders(f, n)
    BY DEF Holders
  <2>3. IsFiniteSet(Holders(f, n)) /\ Cardinality(Holders(f, n)) \in Nat
    BY <2>2, FdsFinite
  <2>4. CASE n = s
    <3>1. Holders(g, n) = Holders(f, n) \cup {x}
      BY ONLY d.kind = "overlay", <1>0, <2>4 DEF HoldersReplaced
    <3>2. Cardinality(Holders(g, n)) = Cardinality(Holders(f, n)) + 1
      BY ONLY <2>2, <2>3, <3>1, FS_AddElement
    <3>3. after[n].opens = ns[n].opens + 1 /\ ns[n].opens \in Nat
      BY ONLY <1>1, <1>2, <1>4, <2>4
    <3> QED BY ONLY <2>1, <2>3, <3>2, <3>3 DEF CountedAt
  <2>5. CASE n # s
    <3>1. Holders(g, n) = Holders(f, n)
      <4>1. Holders(g, n) = Holders(f, n) \ {x}
        BY ONLY <1>0, <2>5 DEF HoldersReplaced
      <4> QED BY ONLY <2>2, <4>1
    <3>2. after[n] = ns[n]
      BY ONLY <1>4, <2>5, n \in NodeSlots \ h.uncounted
    <3> QED BY ONLY <2>1, <3>1, <3>2 DEF CountedAt
  <2> QED BY <2>4, <2>5
<1>6. \A n \in NodeSlots : after[n].path = ns[n].path /\ after[n].dir = ns[n].dir
                           /\ after[n].size = ns[n].size
  BY ONLY <1>2, <1>4
<1> QED BY ONLY <1>4, <1>5, <1>6 DEF OpensCounted, SameFiles

\* Descriptors and nodes whose offsets, flags and sizes alone change.
SameHolders(f, g) ==
  g \in [Fds -> Descriptor] /\ \A fd \in Fds : g[fd].kind = f[fd].kind /\ g[fd].slot = f[fd].slot
SameNodes(ns, after) ==
  /\ after \in [NodeSlots -> Node]
  /\ \A n \in NodeSlots : after[n].path = ns[n].path /\ after[n].dir = ns[n].dir
                          /\ after[n].opens = ns[n].opens

\* Counts stand while descriptors and open counts do.
LEMMA CountsStand ==
  ASSUME NEW f, NEW g, NEW ns, NEW after, NEW h, OpensCounted(f, ns, h),
         \A fd \in Fds : g[fd].kind = f[fd].kind /\ g[fd].slot = f[fd].slot,
         \A n \in NodeSlots : after[n].opens = ns[n].opens
  PROVE  OpensCounted(g, after, h)
<1>1. \A n : Holders(g, n) = Holders(f, n)
  BY DEF Holders
<1> QED BY <1>1 DEF OpensCounted, CountedAt

\* Names stand while paths and directories do.
LEMMA NamesStand ==
  ASSUME NEW ns, NEW after,
         \A n \in NodeSlots : after[n].path = ns[n].path /\ after[n].dir = ns[n].dir
  PROVE  /\ NamesUnique(ns) => NamesUnique(after)
         /\ ParentsThere(ns) => ParentsThere(after)
BY DEF NamesUnique, ParentsThere, ParentIn

LEMMA DataKeeps ==
  ASSUME LinuxInv, SameHolders(fds, fds'), SameNodes(nodes, nodes'), UNCHANGED <<pipes, doubted>>
  PROVE  LinuxInv'
<1>1. DescriptorsKnown(fds', pipes)
  BY DEF LinuxInv, DescriptorsKnown, SameHolders
<1>2. OpensCounted(fds', nodes', doubted)
  BY CountsStand DEF LinuxInv, SameHolders, SameNodes
<1>3. NamesUnique(nodes') /\ (~doubted.moved => ParentsThere(nodes'))
  BY NamesStand DEF LinuxInv, SameNodes
<1> QED BY <1>1, <1>2, <1>3, LinuxPrimed DEF SameNodes, LinuxInv

\* The descriptors after one was replaced.
LEMMA KnownReplaced ==
  ASSUME NEW f, NEW ps, DescriptorsKnown(f, ps), NEW x \in Fds, NEW d \in Descriptor,
         d.kind = "overlay" => d.slot \in NodeSlots,
         d.kind \in {"reader", "writer"} => d.slot \in PipeSlots /\ ps[d.slot].used,
         NEW g, g = [f EXCEPT ![x] = d]
  PROVE  DescriptorsKnown(g, ps)
<1>1. Replaced(f, x, d, g)
  BY DescriptorReplaced DEF DescriptorsKnown
<1> QED BY <1>1 DEF Replaced, DescriptorsKnown

\* The kinds of descriptor that calls make.
LEMMA DescriptorsMade ==
  /\ Closed \in Descriptor /\ Closed.kind = "closed"
  /\ \A old : LET c == [Closed EXCEPT !.kind = "terminal"] IN c \in Descriptor /\ c.kind = "terminal"
BY DEF Closed, Descriptor

LEMMA OpenedFacts ==
  ASSUME NEW kind \in {"device", "lower", "overlay", "reader", "writer"}, NEW slot \in Nat, NEW flags
  PROVE  /\ Opened(kind, slot, flags) \in Descriptor
         /\ Opened(kind, slot, flags).kind = kind /\ Opened(kind, slot, flags).slot = slot
<1>1. kind \in {"closed", "terminal", "device", "lower", "overlay", "reader", "writer"}
  OBVIOUS
<1>2. ("write" \in flags) \in BOOLEAN /\ ("append" \in flags) \in BOOLEAN
      /\ ("cloexec" \in flags) \in BOOLEAN
  OBVIOUS
<1> QED BY ONLY <1>1, <1>2, slot \in Nat DEF Opened, Descriptor

\* The copy of a descriptor.
LEMMA CopyFacts ==
  ASSUME LinuxInv, NEW old, Copy(old).kind # "closed"
  PROVE  /\ Copy(old) \in Descriptor
         /\ Copy(old).kind = "overlay" => Copy(old).slot \in NodeSlots /\ old \in Fds
         /\ Copy(old).kind \in {"reader", "writer"} =>
              Copy(old).slot \in PipeSlots /\ pipes[Copy(old).slot].used
<1>1. CASE old \in Fds
  <2>1. Copy(old) = fds[old]
    BY <1>1 DEF Copy
  <2> QED BY <1>1, <2>1 DEF LinuxInv, DescriptorsKnown
<1>2. CASE old \notin Fds
  <2>1. Copy(old) = [Closed EXCEPT !.kind = "terminal"]
    BY <1>2 DEF Copy
  <2> QED BY ONLY <2>1, DescriptorsMade
<1> QED BY <1>1, <1>2

\* A free descriptor.
LEMMA FreeFd ==
  ASSUME FreeFds # {}
  PROVE  Min(FreeFds) \in Fds /\ fds[Min(FreeFds)].kind = "closed"
<1>1. FreeFds \in SUBSET Nat
  BY DEF FreeFds, Fds
<1>2. Min(FreeFds) \in FreeFds
  BY ONLY <1>1, FreeFds # {}, LeastMember
<1> QED BY <1>2 DEF FreeFds

\* What every call that replaces one descriptor, of no node, comes to.
LEMMA ReplacedKeeps ==
  ASSUME LinuxInv, NEW x \in Fds, NEW d \in Descriptor, d.kind # "overlay",
         d.kind \in {"reader", "writer"} => d.slot \in PipeSlots /\ pipes[d.slot].used,
         fds' = [fds EXCEPT ![x] = d], nodes' = WithoutFd(nodes, x), UNCHANGED <<pipes, doubted>>
  PROVE  LinuxInv'
<1>1. /\ fds \in [Fds -> Descriptor] /\ nodes \in [NodeSlots -> Node]
      /\ SlotsKnown(fds)
      /\ OpensCounted(fds, nodes, doubted) /\ DescriptorsKnown(fds, pipes)
  BY DEF LinuxInv, DescriptorsKnown, SlotsKnown
<1>2. nodes' = Closing(fds, nodes, x) /\ Replaced(fds, x, d, fds')
  BY <1>1, DescriptorReplaced DEF WithoutFd, Closing
<1>3. /\ nodes' \in [NodeSlots -> Node] /\ OpensCounted(fds', nodes', doubted) /\ SameFiles(nodes, nodes')
  BY ONLY <1>1, <1>2, x \in Fds, d \in Descriptor, d.kind # "overlay", ClosedCounted
<1>4. DescriptorsKnown(fds', pipes)
  BY <1>1, KnownReplaced
<1>5. NamesUnique(nodes') /\ (~doubted.moved => ParentsThere(nodes'))
  BY <1>3, NamesStand DEF LinuxInv, SameFiles
<1> QED BY <1>3, <1>4, <1>5, LinuxPrimed DEF LinuxInv

LEMMA OpenDeviceKeeps ==
  ASSUME LinuxInv, NEW flags, OpenDevice(flags)
  PROVE  LinuxInv'
<1> DEFINE x == Min(FreeFds)
           d == Opened("device", 0, flags)
<1>1. x \in Fds /\ fds[x].kind = "closed"
  BY FreeFd DEF OpenDevice
<1>2. d \in Descriptor /\ d.kind = "device"
  BY OpenedFacts
<1>3. fds' = [fds EXCEPT ![x] = d] /\ UNCHANGED <<pipes, doubted>> /\ nodes' = nodes
  BY DEF OpenDevice
<1>4. nodes' = WithoutFd(nodes, x)
  BY <1>1, <1>3 DEF WithoutFd
<1> HIDE DEF x, d
<1> QED BY ONLY LinuxInv, <1>1, <1>2, <1>3, <1>4, ReplacedKeeps

LEMMA CloseKeeps ==
  ASSUME LinuxInv, NEW fd \in Fds, Close(fd)
  PROVE  LinuxInv'
<1>1. /\ fds' = [fds EXCEPT ![fd] = Closed] /\ nodes' = WithoutFd(nodes, fd)
      /\ UNCHANGED <<pipes, doubted>>
  BY DEF Close
<1> QED BY ONLY LinuxInv, fd \in Fds, <1>1, DescriptorsMade, ReplacedKeeps

\* A descriptor is opened on a node: openat in the end, and dup3.
LEMMA RetainedKeeps ==
  ASSUME LinuxInv, NEW f, NEW ns \in [NodeSlots -> Node], NEW x \in Fds, NEW d \in Descriptor,
         DescriptorsKnown(f, pipes), OpensCounted(f, ns, doubted), NamesUnique(ns),
         ~doubted.moved => ParentsThere(ns),
         f[x].kind # "overlay", d.kind = "overlay", d.slot \in NodeSlots,
         Replaced(f, x, d, fds'), nodes' = Retained(ns, d.slot), UNCHANGED <<pipes, doubted>>
  PROVE  LinuxInv'
<1>1. f \in [Fds -> Descriptor]
  BY DEF DescriptorsKnown
<1>2. /\ nodes' \in [NodeSlots -> Node] /\ OpensCounted(fds', nodes', doubted)
      /\ SameFiles(ns, nodes')
  BY <1>1, OpenedCounted
<1>3. DescriptorsKnown(fds', pipes)
  BY DEF DescriptorsKnown, Replaced
<1>4. NamesUnique(nodes') /\ (~doubted.moved => ParentsThere(nodes'))
  BY <1>2, NamesStand DEF SameFiles
<1> QED BY <1>2, <1>3, <1>4, LinuxPrimed DEF LinuxInv

LEMMA Dup3Keeps ==
  ASSUME LinuxInv, NEW old \in 0 .. (MaxFds - 1), NEW new \in Fds, NEW cloexec \in BOOLEAN,
         Dup3(old, new, cloexec)
  PROVE  LinuxInv'
<1> DEFINE d == [Copy(old) EXCEPT !.cloexec = cloexec]
           f == [fds EXCEPT ![new] = Closed]
<1>1. Copy(old).kind # "closed" /\ UNCHANGED <<pipes, doubted>> /\ fds' = [fds EXCEPT ![new] = d]
  BY DEF Dup3
<1>2. /\ d \in Descriptor /\ d.kind = Copy(old).kind /\ d.slot = Copy(old).slot
  BY <1>1, CopyFacts DEF Descriptor
<1>3. fds \in [Fds -> Descriptor] /\ nodes \in [NodeSlots -> Node] /\ SlotsKnown(fds)
      /\ OpensCounted(fds, nodes, doubted) /\ DescriptorsKnown(fds, pipes)
  BY DEF LinuxInv, DescriptorsKnown, SlotsKnown
<1>4. CASE d.kind = "overlay"
  <2> DEFINE ns == WithoutFd(nodes, new)
  <2>1. nodes' = Retained(ns, d.slot)
    BY <1>2, <1>4 DEF Dup3
  <2>2. Replaced(fds, new, Closed, f) /\ ns = Closing(fds, nodes, new)
    BY <1>3, DescriptorsMade, DescriptorReplaced DEF WithoutFd, Closing
  <2>3. ns \in [NodeSlots -> Node] /\ OpensCounted(f, ns, doubted) /\ SameFiles(nodes, ns)
    <3> HIDE DEF f, ns
    <3> QED BY ONLY <1>3, <2>2, new \in Fds, DescriptorsMade, ClosedCounted
  <2>4. DescriptorsKnown(f, pipes)
    BY <1>3, DescriptorsMade, KnownReplaced
  <2>5. f[new].kind # "overlay"
    BY <1>3, DescriptorsMade
  <2>6. Replaced(f, new, d, fds')
    <3>1. f \in [Fds -> Descriptor] /\ fds' = [f EXCEPT ![new] = d]
      BY <1>1, <1>3, DescriptorsMade
    <3> QED BY <1>2, <3>1, DescriptorReplaced
  <2>7. NamesUnique(ns) /\ (~doubted.moved => ParentsThere(ns))
    BY <2>3, NamesStand DEF SameFiles, LinuxInv
  <2>8. d.slot \in NodeSlots
    BY <1>1, <1>2, <1>4, CopyFacts
  <2> HIDE DEF d, f, ns
  <2> QED BY ONLY LinuxInv, new \in Fds, <1>1, <1>2, <1>4, <2>1, <2>3, <2>4, <2>5, <2>6, <2>7, <2>8,
             RetainedKeeps
<1>5. CASE d.kind # "overlay"
  <2>1. nodes' = WithoutFd(nodes, new)
    BY <1>2, <1>5 DEF Dup3
  <2>2. d.kind \in {"reader", "writer"} => d.slot \in PipeSlots /\ pipes[d.slot].used
    BY <1>1, <1>2, CopyFacts
  <2> HIDE DEF d
  <2> QED BY ONLY LinuxInv, new \in Fds, <1>1, <1>2, <1>5, <2>1, <2>2, ReplacedKeeps
<1> QED BY <1>4, <1>5

LEMMA SetCloexecKeeps ==
  ASSUME LinuxInv, NEW fd \in Fds, NEW on \in BOOLEAN, SetCloexec(fd, on)
  PROVE  LinuxInv'
<1>1. fds \in [Fds -> Descriptor] /\ nodes \in [NodeSlots -> Node]
  BY DEF LinuxInv, DescriptorsKnown
<1>2. SameHolders(fds, fds')
  <2> DEFINE d == [fds[fd] EXCEPT !.cloexec = on]
  <2>1. d \in Descriptor /\ d.kind = fds[fd].kind /\ d.slot = fds[fd].slot
    BY <1>1 DEF Descriptor
  <2>2. fds' = [fds EXCEPT ![fd] = d]
    BY <1>1 DEF SetCloexec
  <2> HIDE DEF d
  <2> QED BY ONLY <1>1, <2>1, <2>2 DEF SameHolders
<1>3. SameNodes(nodes, nodes') /\ UNCHANGED <<pipes, doubted>>
  BY <1>1 DEF SameNodes, SetCloexec
<1> QED BY ONLY LinuxInv, <1>2, <1>3, DataKeeps

\* A node whose name and count stay.
LEMMA SizeChanged ==
  ASSUME NEW ns \in [NodeSlots -> Node], NEW n \in NodeSlots, NEW size \in 0 .. FileSize,
         NEW after, after = [ns EXCEPT ![n].size = size]
  PROVE  SameNodes(ns, after)
<1> DEFINE new == [ns[n] EXCEPT !.size = size]
<1>1. new \in Node /\ new.path = ns[n].path /\ new.dir = ns[n].dir /\ new.opens = ns[n].opens
  BY DEF Node
<1>2. after = [ns EXCEPT ![n] = new]
  OBVIOUS
<1> HIDE DEF new
<1> QED BY ONLY <1>1, <1>2, ns \in [NodeSlots -> Node] DEF SameNodes

LEMMA OffsetChanged ==
  ASSUME NEW f \in [Fds -> Descriptor], NEW fd \in Fds, NEW offset \in Nat,
         NEW g, g = [f EXCEPT ![fd].offset = offset]
  PROVE  SameHolders(f, g)
<1> DEFINE d == [f[fd] EXCEPT !.offset = offset]
<1>1. d \in Descriptor /\ d.kind = f[fd].kind /\ d.slot = f[fd].slot
  BY DEF Descriptor
<1>2. g = [f EXCEPT ![fd] = d]
  OBVIOUS
<1> HIDE DEF d
<1> QED BY ONLY <1>1, <1>2, f \in [Fds -> Descriptor] DEF SameHolders

\* What a call on an open file finds.
LEMMA FileFacts ==
  ASSUME LinuxInv, NEW fd \in Fds
  PROVE  /\ fds \in [Fds -> Descriptor] /\ fds[fd].offset \in Nat
         /\ nodes \in [NodeSlots -> Node] /\ FileSize \in Nat
         /\ fds[fd].kind = "overlay" =>
              fds[fd].slot \in NodeSlots /\ nodes[fds[fd].slot].size \in 0 .. FileSize
<1>1. fds \in [Fds -> Descriptor] /\ nodes \in [NodeSlots -> Node]
      /\ (fds[fd].kind = "overlay" => fds[fd].slot \in NodeSlots)
  BY DEF LinuxInv, DescriptorsKnown
<1> QED BY <1>1, LinuxConstants DEF Descriptor, Node

LEMMA SameHoldersSelf ==
  ASSUME NEW f \in [Fds -> Descriptor]
  PROVE  SameHolders(f, f)
BY DEF SameHolders

LEMMA SameNodesSelf ==
  ASSUME NEW ns \in [NodeSlots -> Node]
  PROVE  SameNodes(ns, ns)
BY DEF SameNodes

LEMMA LseekKeeps ==
  ASSUME LinuxInv, NEW fd \in Fds, NEW offset \in 0 .. (FileSize + 1), Lseek(fd, offset)
  PROVE  LinuxInv'
<1>1. offset \in Nat /\ fds' = [fds EXCEPT ![fd].offset = offset] /\ nodes' = nodes
      /\ UNCHANGED <<pipes, doubted>>
  BY LinuxConstants DEF Lseek
<1>2. SameHolders(fds, fds')
  BY <1>1, FileFacts, OffsetChanged
<1>3. SameNodes(nodes, nodes')
  BY <1>1, FileFacts, SameNodesSelf
<1> QED BY ONLY LinuxInv, <1>1, <1>2, <1>3, DataKeeps

LEMMA ReadKeeps ==
  ASSUME LinuxInv, NEW fd \in Fds, Read(fd)
  PROVE  LinuxInv'
<1> DEFINE size == IF fds[fd].kind = "overlay" THEN nodes[fds[fd].slot].size ELSE FileSize
<1>1. size \in Nat /\ fds[fd].offset \in Nat
  BY FileFacts
<1>2. PICK next \in (fds[fd].offset + 1) .. size : fds' = [fds EXCEPT ![fd].offset = next]
  BY DEF Read
<1>3. next \in Nat
  <2> HIDE DEF size
  <2> QED BY <1>1
<1>4. nodes' = nodes /\ UNCHANGED <<pipes, doubted>>
  BY DEF Read
<1>5. SameHolders(fds, fds')
  BY <1>2, <1>3, FileFacts, OffsetChanged
<1>6. SameNodes(nodes, nodes')
  BY <1>4, FileFacts, SameNodesSelf
<1> QED BY ONLY LinuxInv, <1>4, <1>5, <1>6, DataKeeps

\* The file after a write that fits.
LEMMA ExtendedFacts ==
  ASSUME LinuxInv, NEW fd \in Fds, fds[fd].kind = "overlay",
         NEW offset \in Nat, NEW length \in Nat, Fits(offset, length)
  PROVE  SameNodes(nodes, Extended(fd, offset, length)) /\ offset + length \in 0 .. FileSize
<1> DEFINE n == fds[fd].slot
           size == IF offset + length > nodes[n].size THEN offset + length ELSE nodes[n].size
<1>1. n \in NodeSlots /\ nodes \in [NodeSlots -> Node] /\ nodes[n].size \in 0 .. FileSize
      /\ FileSize \in Nat
  BY FileFacts
<1>2. offset + length \in 0 .. FileSize
  BY ONLY <1>1, offset \in Nat, length \in Nat, Fits(offset, length) DEF Fits
<1>3. size \in 0 .. FileSize
  BY ONLY <1>1, <1>2
<1>4. Extended(fd, offset, length) = [nodes EXCEPT ![n].size = size]
  BY <1>1 DEF Extended
<1> HIDE DEF size
<1>5. SameNodes(nodes, Extended(fd, offset, length))
  BY ONLY <1>1, <1>3, <1>4, SizeChanged
<1> QED BY <1>2, <1>5

LEMMA WriteKeeps ==
  ASSUME LinuxInv, NEW fd \in Fds, NEW length \in 0 .. FileSize, Write(fd, length)
  PROVE  LinuxInv'
<1> DEFINE offset == WriteOffset(fd)
<1>1. fds[fd].kind = "overlay" /\ length \in Nat /\ UNCHANGED <<pipes, doubted>>
  BY LinuxConstants DEF Write, Writable
<1>2. fds \in [Fds -> Descriptor] /\ nodes \in [NodeSlots -> Node] /\ offset \in Nat
  BY <1>1, FileFacts DEF WriteOffset
<1>3. /\ Fits(offset, length) => /\ nodes' = Extended(fd, offset, length)
                                 /\ fds' = [fds EXCEPT ![fd].offset = offset + length]
      /\ ~Fits(offset, length) => fds' = [fds EXCEPT ![fd].offset = offset] /\ nodes' = nodes
  BY DEF Write
<1> HIDE DEF offset
<1>4. SameNodes(nodes, nodes')
  <2>1. CASE Fits(offset, length)
    BY <1>1, <1>2, <1>3, <2>1, ExtendedFacts
  <2>2. CASE ~Fits(offset, length)
    BY <1>2, <1>3, <2>2, SameNodesSelf
  <2> QED BY <2>1, <2>2
<1>5. SameHolders(fds, fds')
  <2>1. offset + length \in Nat
    BY <1>1, <1>2
  <2>2. CASE Fits(offset, length)
    BY <1>2, <1>3, <2>1, <2>2, OffsetChanged
  <2>3. CASE ~Fits(offset, length)
    BY <1>2, <1>3, <2>3, OffsetChanged
  <2> QED BY <2>2, <2>3
<1> QED BY ONLY LinuxInv, <1>1, <1>4, <1>5, DataKeeps

LEMMA PwriteKeeps ==
  ASSUME LinuxInv, NEW fd \in Fds, NEW at \in 0 .. (FileSize + 1), NEW length \in 0 .. FileSize,
         Pwrite(fd, at, length)
  PROVE  LinuxInv'
<1> DEFINE offset == IF fds[fd].append THEN nodes[fds[fd].slot].size ELSE at
<1>1. fds[fd].kind = "overlay" /\ length \in Nat /\ at \in Nat /\ UNCHANGED <<pipes, doubted>>
  BY LinuxConstants DEF Pwrite, Writable
<1>2. fds \in [Fds -> Descriptor] /\ nodes \in [NodeSlots -> Node] /\ offset \in Nat
  BY <1>1, FileFacts
<1>3. Fits(offset, length) /\ nodes' = Extended(fd, offset, length) /\ fds' = fds
  BY DEF Pwrite
<1> HIDE DEF offset
<1>4. SameNodes(nodes, nodes')
  BY <1>1, <1>2, <1>3, ExtendedFacts
<1>5. SameHolders(fds, fds')
  BY <1>2, <1>3, SameHoldersSelf
<1> QED BY ONLY LinuxInv, <1>1, <1>4, <1>5, DataKeeps

LEMMA FtruncateKeeps ==
  ASSUME LinuxInv, NEW fd \in Fds, NEW length \in 0 .. FileSize, Ftruncate(fd, length)
  PROVE  LinuxInv'
<1> DEFINE offset == IF fds[fd].offset > length THEN length ELSE fds[fd].offset
<1>1. /\ fds[fd].kind = "overlay" /\ UNCHANGED <<pipes, doubted>>
      /\ nodes' = [nodes EXCEPT ![fds[fd].slot].size = length]
  BY DEF Ftruncate, Writable
<1>2. fds \in [Fds -> Descriptor] /\ nodes \in [NodeSlots -> Node] /\ fds[fd].slot \in NodeSlots
      /\ fds[fd].offset \in Nat
  BY <1>1, FileFacts
<1>3. offset \in Nat
  BY <1>2, LinuxConstants
<1>4. fds' = [fds EXCEPT ![fd].offset = offset]
  BY <1>2 DEF Ftruncate
<1> HIDE DEF offset
<1>5. SameNodes(nodes, nodes')
  BY <1>1, <1>2, SizeChanged
<1>6. SameHolders(fds, fds')
  BY <1>2, <1>3, <1>4, OffsetChanged
<1> QED BY ONLY LinuxInv, <1>1, <1>5, <1>6, DataKeeps

\* A pipe that stays, or comes, in use.
PipeInUse(p) ==
  p \in [used : BOOLEAN, size : Nat, read : Nat] /\ p.used /\ p.read <= p.size /\ p.size <= PipeSize
StillUsed(ps, qs) == \A j \in PipeSlots : ps[j].used => qs[j].used

LEMMA PipeReplaced ==
  ASSUME NEW ps, PipesKnown(ps), NEW k \in PipeSlots, NEW p, PipeInUse(p)
  PROVE  LET qs == [ps EXCEPT ![k] = p]
         IN  PipesKnown(qs) /\ StillUsed(ps, qs) /\ qs[k] = p
BY DEF PipesKnown, PipeInUse, StillUsed

LEMMA PipeKeeps ==
  ASSUME LinuxInv, PipesKnown(pipes'), StillUsed(pipes, pipes'),
         UNCHANGED <<fds, nodes, doubted>>
  PROVE  LinuxInv'
<1>1. DescriptorsKnown(fds, pipes')
  BY DEF LinuxInv, DescriptorsKnown, StillUsed
<1> QED BY <1>1, LinuxPrimed DEF LinuxInv

LEMMA PipeFacts ==
  ASSUME LinuxInv, NEW fd \in Fds, fds[fd].kind \in {"reader", "writer"}
  PROVE  LET k == fds[fd].slot
         IN  /\ k \in PipeSlots /\ PipesKnown(pipes) /\ pipes[k].used
             /\ pipes[k] \in [used : BOOLEAN, size : Nat, read : Nat]
             /\ pipes[k].read <= pipes[k].size /\ pipes[k].size <= PipeSize /\ PipeSize \in Nat
<1>1. fds[fd].slot \in PipeSlots /\ pipes[fds[fd].slot].used /\ PipesKnown(pipes)
  BY DEF LinuxInv, DescriptorsKnown
<1> QED BY <1>1, LinuxConstants DEF PipesKnown

LEMMA EmptyPipe ==
  LET p == [FreePipe EXCEPT !.used = TRUE] IN PipeInUse(p)
<1> DEFINE p == [FreePipe EXCEPT !.used = TRUE]
<1>1. /\ FreePipe \in [used : BOOLEAN, size : Nat, read : Nat]
      /\ FreePipe.size = 0 /\ FreePipe.read = 0
  BY DEF FreePipe
<1>2. p \in [used : BOOLEAN, size : Nat, read : Nat] /\ p.used /\ p.size = 0 /\ p.read = 0
  BY ONLY <1>1
<1> HIDE DEF p
<1>3. PipeInUse(p)
  BY ONLY <1>2, LinuxConstants DEF PipeInUse
<1> QED BY <1>3 DEF p

LEMMA PipeReadKeeps ==
  ASSUME LinuxInv, NEW fd \in Fds, NEW length \in 0 .. PipeSize, PipeRead(fd, length)
  PROVE  LinuxInv'
<1> DEFINE k == fds[fd].slot
           rest == [pipes[k] EXCEPT !.read = @ + length]
           all == pipes[k].read + length = pipes[k].size
           p == IF all THEN [FreePipe EXCEPT !.used = TRUE] ELSE rest
<1>1. /\ k \in PipeSlots /\ PipesKnown(pipes) /\ pipes[k].used
      /\ pipes[k] \in [used : BOOLEAN, size : Nat, read : Nat]
      /\ pipes[k].read <= pipes[k].size /\ pipes[k].size <= PipeSize /\ PipeSize \in Nat
  BY PipeFacts DEF PipeRead
<1>2. length \in Nat /\ length <= pipes[k].size - pipes[k].read /\ UNCHANGED <<fds, nodes, doubted>>
  BY <1>1 DEF PipeRead
<1>3. pipes' = [pipes EXCEPT ![k] = p]
  BY DEF PipeRead
<1>4. PipeInUse(rest)
  <2>1. pipes[k].size \in Nat /\ pipes[k].read \in Nat
    BY <1>1
  <2>2. pipes[k].read + length \in Nat /\ pipes[k].read + length <= pipes[k].size
    BY ONLY <1>2, <2>1
  <2>3. /\ rest \in [used : BOOLEAN, size : Nat, read : Nat]
        /\ rest.used = pipes[k].used /\ rest.size = pipes[k].size
        /\ rest.read = pipes[k].read + length
    BY ONLY <1>1, <2>2
  <2> HIDE DEF rest
  <2> QED BY ONLY <1>1, <2>2, <2>3 DEF PipeInUse
<1>5. PipeInUse(p)
  <2> HIDE DEF rest
  <2> QED BY <1>4, EmptyPipe
<1> HIDE DEF p
<1>6. PipesKnown(pipes') /\ StillUsed(pipes, pipes')
  BY ONLY <1>1, <1>3, <1>5, PipeReplaced
<1> QED BY ONLY LinuxInv, <1>2, <1>6, PipeKeeps

LEMMA PipeWriteKeeps ==
  ASSUME LinuxInv, NEW fd \in Fds, NEW length \in 0 .. PipeSize, NEW copied \in 0 .. PipeSize,
         PipeWrite(fd, length, copied)
  PROVE  LinuxInv'
<1> DEFINE k == fds[fd].slot
           p == [pipes[k] EXCEPT !.size = @ + copied]
<1>1. /\ k \in PipeSlots /\ PipesKnown(pipes) /\ pipes[k].used
      /\ pipes[k] \in [used : BOOLEAN, size : Nat, read : Nat]
      /\ pipes[k].read <= pipes[k].size /\ pipes[k].size <= PipeSize /\ PipeSize \in Nat
  BY PipeFacts DEF PipeWrite
<1>2. length \in Nat /\ copied \in Nat /\ copied <= length /\ length <= PipeSize - pipes[k].size
      /\ UNCHANGED <<fds, nodes, doubted>>
  BY <1>1 DEF PipeWrite, Room
<1>3. pipes' = [pipes EXCEPT ![k] = p]
  BY <1>1 DEF PipeWrite, PipesKnown
<1>4. PipeInUse(p)
  <2>1. pipes[k].size \in Nat /\ pipes[k].read \in Nat
    BY <1>1
  <2>2. pipes[k].size + copied \in Nat /\ pipes[k].size + copied <= PipeSize
        /\ pipes[k].read <= pipes[k].size + copied
    BY ONLY <1>1, <1>2, <2>1
  <2>3. /\ p \in [used : BOOLEAN, size : Nat, read : Nat]
        /\ p.used = pipes[k].used /\ p.read = pipes[k].read /\ p.size = pipes[k].size + copied
    BY ONLY <1>1, <2>2
  <2> HIDE DEF p
  <2> QED BY ONLY <1>1, <2>2, <2>3 DEF PipeInUse
<1> HIDE DEF p
<1>5. PipesKnown(pipes') /\ StillUsed(pipes, pipes')
  BY ONLY <1>1, <1>3, <1>4, PipeReplaced
<1> QED BY ONLY LinuxInv, <1>2, <1>5, PipeKeeps

LEMMA Pipe2Keeps ==
  ASSUME LinuxInv, NEW flags, Pipe2(flags)
  PROVE  LinuxInv'
<1> DEFINE r == Min(FreeFds)
           w == Min(FreeFds \ {r})
           unused == {j \in PipeSlots : ~pipes[j].used}
           k == Min(unused)
           dr == Opened("reader", k, flags)
           dw == Opened("writer", k, flags)
           f == [fds EXCEPT ![r] = dr]
<1>1. r \in FreeFds /\ w \in FreeFds /\ w # r
  <2>1. FreeFds \in SUBSET Fds /\ FreeFds \in SUBSET Nat
    BY DEF FreeFds, Fds
  <2>2. IsFiniteSet(FreeFds) /\ Cardinality(FreeFds) \in Nat /\ Cardinality(FreeFds) >= 2
    BY <2>1, FdsFinite DEF Pipe2
  <2>3. FreeFds # {}
    BY <2>2, FS_EmptySet
  <2>4. r \in FreeFds
    BY <2>1, <2>3, LeastMember
  <2>5. Cardinality(FreeFds \ {r}) = Cardinality(FreeFds) - 1
    BY <2>2, <2>4, FS_RemoveElement
  <2>6. FreeFds \ {r} # {}
    BY <2>2, <2>5, FS_EmptySet
  <2>7. FreeFds \ {r} \in SUBSET Nat
    BY <2>1
  <2>8. w \in FreeFds \ {r}
    <3> HIDE DEF r
    <3> QED BY ONLY <2>6, <2>7, LeastMember
  <2> QED BY <2>4, <2>8
<1>2. k \in PipeSlots /\ ~pipes[k].used
  <2>1. unused \in SUBSET Nat /\ unused # {}
    BY DEF Pipe2, PipeSlots
  <2>2. k \in unused
    BY ONLY <2>1, LeastMember
  <2> QED BY <2>2
<1>3. /\ fds' = [fds EXCEPT ![r] = dr, ![w] = dw] /\ UNCHANGED <<nodes, doubted>>
      /\ pipes' = [pipes EXCEPT ![k] = [FreePipe EXCEPT !.used = TRUE]]
  BY DEF Pipe2
<1>4. PipesKnown(pipes') /\ StillUsed(pipes, pipes') /\ pipes'[k].used
  <2> DEFINE p == [FreePipe EXCEPT !.used = TRUE]
  <2>1. PipesKnown(pipes)
    BY DEF LinuxInv
  <2>2. PipeInUse(p)
    BY EmptyPipe
  <2> HIDE DEF k, p
  <2>3. PipesKnown(pipes') /\ StillUsed(pipes, pipes') /\ pipes'[k] = p
    <3>1. pipes' = [pipes EXCEPT ![k] = p]
      BY <1>3 DEF p
    <3> QED BY ONLY <1>2, <2>1, <2>2, <3>1, PipeReplaced
  <2> QED BY ONLY <2>2, <2>3 DEF PipeInUse
<1>5. /\ dr \in Descriptor /\ dr.kind = "reader" /\ dr.slot = k
      /\ dw \in Descriptor /\ dw.kind = "writer" /\ dw.slot = k
  <2>1. k \in Nat
    BY <1>2 DEF PipeSlots
  <2> HIDE DEF k
  <2> QED BY ONLY <2>1, OpenedFacts
<1>6. /\ r \in Fds /\ w \in Fds /\ w # r /\ fds[r].kind = "closed" /\ fds[w].kind = "closed"
      /\ fds \in [Fds -> Descriptor]
  BY <1>1 DEF FreeFds, LinuxInv, DescriptorsKnown
<1> HIDE DEF r, w, k, dr, dw, unused
<1>7. DescriptorsKnown(fds, pipes')
  BY <1>4 DEF LinuxInv, DescriptorsKnown, StillUsed
<1>8. /\ fds' \in [Fds -> Descriptor] /\ fds'[r] = dr /\ fds'[w] = dw
      /\ \A y \in Fds : y # r /\ y # w => fds'[y] = fds[y]
  BY ONLY <1>3, <1>5, <1>6
<1>9. DescriptorsKnown(fds', pipes')
  BY ONLY <1>2, <1>4, <1>5, <1>6, <1>7, <1>8 DEF DescriptorsKnown
<1>10. \A n : Holders(fds', n) = Holders(fds, n)
  BY ONLY <1>5, <1>6, <1>8 DEF Holders
<1>11. OpensCounted(fds', nodes, doubted)
  BY <1>10 DEF LinuxInv, OpensCounted, CountedAt
<1> QED BY <1>3, <1>4, <1>9, <1>11, LinuxPrimed DEF LinuxInv

\* fcntl F_DUPFD, whose copy is not counted.
LEMMA DupFdKeeps ==
  ASSUME LinuxInv, NEW old \in 0 .. (MaxFds - 1), DupFd(old)
  PROVE  LinuxInv'
<1> DEFINE d == Copy(old)
<1>1. d.kind # "closed" /\ UNCHANGED <<nodes, pipes>>
  BY DEF DupFd
<1>2. PICK new \in FreeFds : fds' = [fds EXCEPT ![new] = d]
  BY DEF DupFd
<1>3. /\ d \in Descriptor /\ (d.kind = "overlay" => d.slot \in NodeSlots)
      /\ d.kind \in {"reader", "writer"} => d.slot \in PipeSlots /\ pipes[d.slot].used
  BY <1>1, CopyFacts
<1>4. doubted' = IF d.kind = "overlay"
                 THEN [doubted EXCEPT !.uncounted = @ \cup {d.slot}] ELSE doubted
  BY DEF DupFd
<1> HIDE DEF d
<1>5. new \in Fds /\ fds[new].kind = "closed" /\ fds \in [Fds -> Descriptor]
      /\ DescriptorsKnown(fds, pipes)
  BY DEF FreeFds, LinuxInv, DescriptorsKnown
<1>6. DescriptorsKnown(fds', pipes)
  BY ONLY <1>2, <1>3, <1>5, KnownReplaced
<1>7. HoldersReplaced(fds, new, d, fds')
  BY ONLY <1>2, <1>3, <1>5, DescriptorReplaced, HoldersChanged
<1>8. /\ HistoryKnown(doubted') /\ doubted'.moved = doubted.moved
      /\ doubted'.abandoned = doubted.abandoned /\ doubted.uncounted \subseteq doubted'.uncounted
      /\ d.kind = "overlay" => d.slot \in doubted'.uncounted
  BY <1>3, <1>4 DEF LinuxInv, HistoryKnown
<1>9. OpensCounted(fds', nodes, doubted')
  <2> SUFFICES ASSUME NEW n \in NodeSlots \ doubted'.uncounted
               PROVE  CountedAt(fds', nodes, doubted', n)
    BY DEF OpensCounted
  <2>1. ~(d.kind = "overlay" /\ d.slot = n)
    BY <1>8
  <2>2. Holders(fds', n) = Holders(fds, n) \ {new}
    BY ONLY <1>7, <2>1 DEF HoldersReplaced
  <2>3. new \notin Holders(fds, n)
    BY <1>5 DEF Holders
  <2>4. Holders(fds', n) = Holders(fds, n)
    BY <2>2, <2>3
  <2>5. CountedAt(fds, nodes, doubted, n)
    BY <1>8 DEF LinuxInv, OpensCounted
  <2> QED BY ONLY <1>8, <2>4, <2>5 DEF CountedAt
<1> QED BY <1>1, <1>6, <1>8, <1>9, LinuxPrimed DEF LinuxInv

LEMMA ExecveKeeps ==
  ASSUME LinuxInv, Execve
  PROVE  LinuxInv'
<1> DEFINE gone == {fd \in Fds : fds[fd].kind # "closed" /\ fds[fd].cloexec}
           G(n) == {fd \in gone : fds[fd].kind = "overlay" /\ fds[fd].slot = n}
           left(n) == IF Cardinality(G(n)) > nodes[n].opens THEN 0
                      ELSE nodes[n].opens - Cardinality(G(n))
<1>1. /\ fds' = [fd \in Fds |-> IF fd \in gone THEN Closed ELSE fds[fd]]
      /\ nodes' = [n \in NodeSlots |-> [nodes[n] EXCEPT !.opens = left(n)]]
      /\ UNCHANGED <<pipes, doubted>>
  BY DEF Execve
<1>2. fds \in [Fds -> Descriptor] /\ nodes \in [NodeSlots -> Node]
  BY DEF LinuxInv, DescriptorsKnown
<1>3. DescriptorsKnown(fds', pipes)
  BY <1>1, DescriptorsMade DEF LinuxInv, DescriptorsKnown
<1>4. ASSUME NEW n \in NodeSlots
      PROVE  /\ Holders(fds', n) = Holders(fds, n) \ G(n)
             /\ G(n) \subseteq Holders(fds, n)
             /\ IsFiniteSet(Holders(fds, n)) /\ Cardinality(Holders(fds, n)) \in Nat
             /\ Cardinality(G(n)) \in Nat /\ Cardinality(G(n)) <= Cardinality(Holders(fds, n))
             /\ Cardinality(Holders(fds', n)) = Cardinality(Holders(fds, n)) - Cardinality(G(n))
  <2>1. Holders(fds', n) = Holders(fds, n) \ G(n) /\ G(n) \subseteq Holders(fds, n)
    BY <1>1, DescriptorsMade DEF Holders
  <2>2. Holders(fds, n) \in SUBSET Fds
    BY DEF Holders
  <2>3. IsFiniteSet(Holders(fds, n)) /\ Cardinality(Holders(fds, n)) \in Nat
    BY <2>2, FdsFinite
  <2>4. IsFiniteSet(G(n)) /\ Cardinality(G(n)) \in Nat
    BY <2>1, <2>2, FdsFinite
  <2> HIDE DEF G
  <2>5. Cardinality(G(n)) <= Cardinality(Holders(fds, n))
    BY <2>1, <2>3, FS_Subset
  <2>6. Holders(fds, n) \cap G(n) = G(n)
    BY <2>1
  <2>7. Cardinality(Holders(fds, n) \ G(n)) = Cardinality(Holders(fds, n)) - Cardinality(G(n))
    BY ONLY <2>3, <2>4, <2>6, FS_Difference
  <2> QED BY ONLY <2>1, <2>3, <2>4, <2>5, <2>7
<1>5. ASSUME NEW n \in NodeSlots
      PROVE  /\ nodes[n].opens \in Nat /\ left(n) \in Nat
             /\ nodes'[n] \in Node /\ nodes'[n].path = nodes[n].path /\ nodes'[n].dir = nodes[n].dir
             /\ nodes'[n].opens = left(n)
  <2>1. nodes[n] \in Node /\ nodes[n].opens \in Nat
    BY <1>2 DEF Node
  <2>2. left(n) \in Nat
    <3>1. Cardinality(G(n)) \in Nat
      BY <1>4
    <3> HIDE DEF G
    <3> QED BY ONLY <2>1, <3>1
  <2>3. nodes'[n] = [nodes[n] EXCEPT !.opens = left(n)]
    BY <1>1
  <2> HIDE DEF left
  <2> QED BY ONLY <2>1, <2>2, <2>3 DEF Node
<1>6. nodes' \in [NodeSlots -> Node]
  BY <1>1, <1>5
<1>7. OpensCounted(fds', nodes', doubted)
  <2> SUFFICES ASSUME NEW n \in NodeSlots \ doubted.uncounted
               PROVE  CountedAt(fds', nodes', doubted, n)
    BY DEF OpensCounted
  <2> DEFINE c == Cardinality(Holders(fds, n))
             g == Cardinality(G(n))
  <2>1. CountedAt(fds, nodes, doubted, n)
    BY DEF LinuxInv, OpensCounted
  <2>2. nodes[n].opens >= c /\ (n \notin doubted.abandoned => nodes[n].opens = c)
    BY <2>1 DEF CountedAt
  <2>3. c \in Nat /\ g \in Nat /\ g <= c /\ Cardinality(Holders(fds', n)) = c - g
        /\ nodes[n].opens \in Nat
    BY <1>4, <1>5
  <2>4. nodes'[n].opens = IF g > nodes[n].opens THEN 0 ELSE nodes[n].opens - g
    BY <1>5
  <2> HIDE DEF c, g, G, gone, left
  <2>5. nodes'[n].opens = nodes[n].opens - g
    BY ONLY <2>2, <2>3, <2>4
  <2> QED BY ONLY <2>2, <2>3, <2>5 DEF CountedAt
<1> HIDE DEF gone, G, left
<1>8. NamesUnique(nodes') /\ (~doubted.moved => ParentsThere(nodes'))
  BY <1>5, NamesStand DEF LinuxInv
<1> QED BY <1>1, <1>3, <1>6, <1>7, <1>8, LinuxPrimed DEF LinuxInv

\* The next program finds no descriptor and no pipe in use, and the overlay as it was left.
LEMMA NextProgramKeeps ==
  ASSUME LinuxInv, NextProgram
  PROVE  LinuxInv'
<1>1. /\ fds' = [fd \in Fds |-> Closed] /\ pipes' = [k \in PipeSlots |-> FreePipe] /\ nodes' = nodes
      /\ doubted' = [doubted EXCEPT !.uncounted = {},
                       !.abandoned = @ \cup {n \in NodeSlots : nodes[n].opens > 0}]
  BY DEF NextProgram
<1>2. HistoryKnown(doubted) /\ nodes \in [NodeSlots -> Node]
  BY DEF LinuxInv
<1>3. /\ HistoryKnown(doubted') /\ doubted'.moved = doubted.moved
      /\ \A n \in NodeSlots : n \notin doubted'.abandoned => ~(nodes[n].opens > 0)
  BY <1>1, <1>2 DEF HistoryKnown
<1>4. DescriptorsKnown(fds', pipes')
  BY <1>1, DescriptorsMade DEF DescriptorsKnown
<1>5. PipesKnown(pipes')
  BY <1>1, LinuxConstants DEF PipesKnown, FreePipe
<1>6. OpensCounted(fds', nodes, doubted')
  <2> SUFFICES ASSUME NEW n \in NodeSlots PROVE CountedAt(fds', nodes, doubted', n)
    BY DEF OpensCounted
  <2>1. Holders(fds', n) = {}
    BY <1>1, DescriptorsMade DEF Holders
  <2>2. Cardinality(Holders(fds', n)) = 0
    BY <2>1, FS_EmptySet
  <2>3. nodes[n].opens \in Nat
    BY <1>2 DEF Node
  <2> QED BY <1>3, <2>2, <2>3 DEF CountedAt
<1> QED BY <1>1, <1>3, <1>4, <1>5, <1>6, LinuxPrimed DEF LinuxInv

\* A node without a name or an open descriptor takes a new name.
LEMMA NameAdded ==
  ASSUME NEW ns \in [NodeSlots -> Node], NEW n \in NodeSlots, ns[n].path = NoName, ns[n].opens = 0,
         NEW p \in Names, \A m \in NodeSlots : ns[m].path # p, ParentIn(ns, p),
         NEW new \in Node, new.path = p, new.opens = 0,
         NEW after, after = [ns EXCEPT ![n] = new]
  PROVE  /\ after \in [NodeSlots -> Node]
         /\ \A m \in NodeSlots : after[m].opens = ns[m].opens
         /\ NamesUnique(ns) => NamesUnique(after)
         /\ ParentsThere(ns) => ParentsThere(after)
<1>1. /\ after \in [NodeSlots -> Node] /\ after[n] = new
      /\ \A m \in NodeSlots : m # n => after[m] = ns[m]
  OBVIOUS
<1>2. \A m \in NodeSlots : ns[m].path \in Names \cup {NoName}
  BY DEF Node
<1>3. \A q \in Names : ParentIn(ns, q) => ParentIn(after, q)
  BY ONLY <1>1, LinuxConstants, ns[n].path = NoName DEF ParentIn
<1>4. ASSUME ParentsThere(ns) PROVE ParentsThere(after)
  <2>1. ParentIn(after, p)
    BY ONLY <1>3, ParentIn(ns, p), p \in Names
  <2> SUFFICES ASSUME NEW m \in NodeSlots, after[m].path # NoName
               PROVE  ParentIn(after, after[m].path)
    BY DEF ParentsThere
  <2>2. CASE m = n
    BY ONLY <1>1, <2>1, <2>2, new.path = p
  <2>3. CASE m # n
    <3>1. after[m] = ns[m] /\ ns[m].path \in Names
      BY <1>1, <1>2, <2>3
    <3>2. ParentIn(ns, ns[m].path)
      BY <1>4, <3>1, LinuxConstants DEF ParentsThere
    <3> QED BY ONLY <1>3, <3>1, <3>2
  <2> QED BY <2>2, <2>3
<1>5. ASSUME NamesUnique(ns) PROVE NamesUnique(after)
  BY <1>1, <1>5 DEF NamesUnique
<1>6. \A m \in NodeSlots : after[m].opens = ns[m].opens
  BY <1>1
<1> QED BY ONLY <1>1, <1>4, <1>5, <1>6

\* A node loses its name, and is gone unless a descriptor is open.
LEMMA DroppedFacts ==
  ASSUME NEW ns \in [NodeSlots -> Node], NEW n \in NodeSlots, NEW after, after = Dropped(ns, n)
  PROVE  /\ after \in [NodeSlots -> Node] /\ after[n].path = NoName
         /\ \A m \in NodeSlots : after[m].opens = ns[m].opens
         /\ \A m \in NodeSlots : m # n => after[m] = ns[m]
<1>1. Unused \in Node /\ Unused.path = NoName /\ Unused.opens = 0
  BY LinuxConstants DEF Unused, Node
<1>2. CASE ns[n].opens = 0
  BY <1>1, <1>2 DEF Dropped
<1>3. CASE ns[n].opens # 0
  <2> DEFINE new == [ns[n] EXCEPT !.path = NoName]
  <2>1. new \in Node /\ new.path = NoName /\ new.opens = ns[n].opens
    BY DEF Node
  <2>2. after = [ns EXCEPT ![n] = new]
    BY <1>3 DEF Dropped
  <2> HIDE DEF new
  <2> QED BY ONLY <2>1, <2>2, ns \in [NodeSlots -> Node], n \in NodeSlots
<1> QED BY <1>2, <1>3

\* What the state predicates of the model are of the nodes.
LEMMA NamesOfNodes ==
  ASSUME LinuxInv, NEW p \in Names
  PROVE  /\ Found(p) \in SUBSET NodeSlots /\ \A n \in Found(p) : nodes[n].path = p
         /\ \A m \in NodeSlots : nodes[m].path = p => m \in Found(p)
         /\ \A m, n \in Found(p) : m = n
         /\ ParentExists(p) <=> ParentIn(nodes, p)
<1>1. \A m, n \in Found(p) : m = n
  BY LinuxConstants DEF Found, LinuxInv, NamesUnique
<1> QED BY <1>1 DEF Found, ParentExists, ParentIn

\* A free node.
LEMMA FreeNode ==
  ASSUME LinuxInv, FreeNodes # {}
  PROVE  LET n == Min(FreeNodes)
         IN  n \in NodeSlots /\ nodes[n].path = NoName /\ nodes[n].opens = 0
<1>1. FreeNodes \in SUBSET Nat
  BY DEF FreeNodes, NodeSlots
<1>2. Min(FreeNodes) \in FreeNodes
  BY ONLY <1>1, FreeNodes # {}, LeastMember
<1>3. \A n \in NodeSlots : nodes[n].opens \in Nat
  BY DEF LinuxInv, Node
<1> QED BY <1>2, <1>3 DEF FreeNodes, Used

\* What a change of the nodes has to keep.
NodesKeep(after) ==
  /\ after \in [NodeSlots -> Node]
  /\ \A m \in NodeSlots : after[m].opens = nodes[m].opens
  /\ NamesUnique(after)
  /\ ~doubted.moved => ParentsThere(after)

LEMMA NodesChange ==
  ASSUME LinuxInv, NodesKeep(nodes'), UNCHANGED <<fds, pipes, doubted>>
  PROVE  LinuxInv'
<1>1. OpensCounted(fds, nodes', doubted)
  BY CountsStand DEF LinuxInv, NodesKeep
<1> QED BY <1>1, LinuxPrimed DEF NodesKeep, LinuxInv

LEMMA AddedKeeps ==
  ASSUME LinuxInv, NEW n \in NodeSlots, nodes[n].path = NoName, nodes[n].opens = 0,
         NEW p \in Names, Found(p) = {}, ParentExists(p),
         NEW new \in Node, new.path = p, new.opens = 0,
         NEW after, after = [nodes EXCEPT ![n] = new]
  PROVE  NodesKeep(after)
<1>1. nodes \in [NodeSlots -> Node] /\ NamesUnique(nodes) /\ (~doubted.moved => ParentsThere(nodes))
  BY DEF LinuxInv
<1>2. (\A m \in NodeSlots : nodes[m].path # p) /\ ParentIn(nodes, p)
  BY NamesOfNodes
<1> DEFINE ns == nodes
<1>3. /\ after \in [NodeSlots -> Node]
      /\ \A m \in NodeSlots : after[m].opens = ns[m].opens
      /\ NamesUnique(ns) => NamesUnique(after)
      /\ ParentsThere(ns) => ParentsThere(after)
  BY <1>1, <1>2, NameAdded
<1> QED BY <1>1, <1>3 DEF NodesKeep

LEMMA MkdirKeeps ==
  ASSUME LinuxInv, NEW p \in Names, MkdirAt(p)
  PROVE  LinuxInv'
<1> DEFINE n == Min(FreeNodes)
           new == [Unused EXCEPT !.path = p, !.dir = TRUE]
<1>1. /\ ~PathExists(p) /\ ParentExists(p) /\ FreeNodes # {} /\ UNCHANGED <<fds, pipes, doubted>>
      /\ nodes' = [nodes EXCEPT ![n] = new]
  BY DEF MkdirAt
<1>2. n \in NodeSlots /\ nodes[n].path = NoName /\ nodes[n].opens = 0
  BY <1>1, FreeNode
<1>3. new \in Node /\ new.path = p /\ new.opens = 0
  <2>1. Unused \in Node /\ Unused.opens = 0
    BY LinuxConstants DEF Unused, Node
  <2> QED BY ONLY <2>1, p \in Names DEF Node
<1>4. Found(p) = {}
  BY <1>1 DEF PathExists
<1> HIDE DEF n, new
<1>5. NodesKeep(nodes')
  BY ONLY LinuxInv, p \in Names, <1>1, <1>2, <1>3, <1>4, AddedKeeps
<1> QED BY ONLY LinuxInv, <1>1, <1>5, NodesChange

LEMMA UnlinkKeeps ==
  ASSUME LinuxInv, NEW p \in Names, UnlinkAt(p)
  PROVE  LinuxInv'
<1>1. PICK n \in Found(p) : ~nodes[n].dir /\ nodes' = Dropped(nodes, n)
  BY DEF UnlinkAt
<1>2. UNCHANGED <<fds, pipes, doubted>>
  BY DEF UnlinkAt
<1>3. nodes \in [NodeSlots -> Node] /\ n \in NodeSlots
  BY DEF LinuxInv, Found
<1>4. /\ nodes' \in [NodeSlots -> Node] /\ nodes'[n].path = NoName
      /\ \A m \in NodeSlots : nodes'[m].opens = nodes[m].opens
      /\ \A m \in NodeSlots : m # n => nodes'[m] = nodes[m]
  BY ONLY <1>1, <1>3, DroppedFacts
<1>5. NamesUnique(nodes')
  BY <1>4 DEF LinuxInv, NamesUnique
<1>6. ASSUME ~doubted.moved PROVE ParentsThere(nodes')
  BY <1>1, <1>4, <1>6 DEF LinuxInv, ParentsThere, ParentIn
<1>7. NodesKeep(nodes')
  BY <1>4, <1>5, <1>6 DEF NodesKeep
<1> QED BY ONLY LinuxInv, <1>2, <1>7, NodesChange

\* renameat: what had the new name lost it, and nothing else changed but the name itself.
LEMMA RenameKeeps ==
  ASSUME LinuxInv, NEW p \in Names, NEW q \in Names, RenameAt(p, q)
  PROVE  LinuxInv'
<1>1. PICK n \in Found(p) :
        LET others == Found(q) \ {n}
            room == IF others = {} THEN nodes ELSE Dropped(nodes, Min(others))
        IN  /\ nodes' = [room EXCEPT ![n].path = q]
            /\ doubted' = [doubted EXCEPT
                 !.moved = @ \/ (p # q /\ nodes[n].dir) \/ \E m \in others : nodes[m].dir]
  BY DEF RenameAt
<1> DEFINE others == Found(q) \ {n}
           room == IF others = {} THEN nodes ELSE Dropped(nodes, Min(others))
<1>2. UNCHANGED <<fds, pipes>> /\ ParentExists(q)
  BY DEF RenameAt
<1>3. nodes \in [NodeSlots -> Node] /\ n \in NodeSlots /\ nodes[n].path = p
      /\ HistoryKnown(doubted)
  BY NamesOfNodes DEF LinuxInv
<1>4. /\ room \in [NodeSlots -> Node]
      /\ \A m \in NodeSlots : room[m].opens = nodes[m].opens
      /\ \A m \in NodeSlots : m \notin others => room[m] = nodes[m]
      /\ \A m \in others : room[m].path = NoName
  <2>1. CASE others = {}
    BY <1>3, <2>1
  <2>2. CASE others # {}
    <3>1. others \in SUBSET Nat /\ others \in SUBSET NodeSlots
      BY DEF Found, NodeSlots
    <3>2. Min(others) \in others
      <4> HIDE DEF others
      <4> QED BY ONLY <2>2, <3>1, LeastMember
    <3>3. \A m \in others : m = Min(others)
      BY <3>2, NamesOfNodes
    <3>4. room = Dropped(nodes, Min(others))
      BY <2>2
    <3> HIDE DEF others, room
    <3>5. Min(others) \in NodeSlots
      BY <3>1, <3>2
    <3>6. /\ room \in [NodeSlots -> Node] /\ room[Min(others)].path = NoName
          /\ \A m \in NodeSlots : room[m].opens = nodes[m].opens
          /\ \A m \in NodeSlots : m # Min(others) => room[m] = nodes[m]
      BY ONLY <1>3, <3>4, <3>5, DroppedFacts
    <3> QED BY ONLY <3>2, <3>3, <3>6
  <2> QED BY <2>1, <2>2
<1>5. /\ nodes' \in [NodeSlots -> Node] /\ nodes'[n].path = q /\ nodes'[n].dir = nodes[n].dir
      /\ nodes'[n].opens = nodes[n].opens /\ \A m \in NodeSlots : m # n => nodes'[m] = room[m]
  <2> DEFINE new == [room[n] EXCEPT !.path = q]
  <2>1. nodes' = [room EXCEPT ![n] = new]
    <3>1. nodes' = [room EXCEPT ![n].path = q]
      BY <1>1
    <3> HIDE DEF room
    <3> QED BY ONLY <3>1
  <2>2. room[n] = nodes[n] /\ room[n] \in Node
    BY <1>3, <1>4
  <2> HIDE DEF room
  <2>3. new \in Node /\ new.path = q /\ new.dir = nodes[n].dir /\ new.opens = nodes[n].opens
    BY ONLY <2>2, q \in Names DEF Node
  <2> HIDE DEF new
  <2> QED BY ONLY <1>3, <1>4, <2>1, <2>3
<1>6. doubted' = [doubted EXCEPT
        !.moved = @ \/ (p # q /\ nodes[n].dir) \/ \E m \in others : nodes[m].dir]
  BY <1>1
<1>7. \A m \in NodeSlots : nodes[m].path = q => m = n \/ m \in others
  BY NamesOfNodes
<1>8. \A m \in others : m \in NodeSlots /\ m # n /\ nodes[m].path = q
  BY NamesOfNodes
<1>9. ParentIn(nodes, q)
  BY <1>2, NamesOfNodes
<1>10. q # NoName /\ ParentOf[q] # NoName /\ \A r \in Names : ParentOf[r] # NoName
  BY LinuxConstants
<1>11. HistoryKnown(doubted') /\ doubted'.uncounted = doubted.uncounted
       /\ doubted'.abandoned = doubted.abandoned
       /\ (~doubted'.moved => /\ ~doubted.moved /\ (p = q \/ ~nodes[n].dir)
                              /\ \A m \in others : ~nodes[m].dir)
  BY ONLY <1>3, <1>6 DEF HistoryKnown
<1> HIDE DEF others, room
<1>12. NamesUnique(nodes')
  <2> SUFFICES ASSUME NEW l \in NodeSlots, NEW m \in NodeSlots,
                      nodes'[l].path = nodes'[m].path, nodes'[l].path # NoName
               PROVE  l = m
    BY DEF NamesUnique
  <2>1. \A k \in NodeSlots : k # n /\ nodes'[k].path # NoName =>
          nodes'[k].path = nodes[k].path /\ nodes[k].path # q
    BY ONLY <1>4, <1>5, <1>7
  <2>2. CASE l # n /\ m # n
    BY <2>1, <2>2 DEF LinuxInv, NamesUnique
  <2>3. CASE l = n \/ m = n
    BY ONLY <1>5, <1>10, <2>1, <2>3, nodes'[l].path = nodes'[m].path, l \in NodeSlots, m \in NodeSlots
  <2> QED BY <2>2, <2>3
<1>13. ASSUME ~doubted'.moved PROVE ParentsThere(nodes')
  <2>1. ParentsThere(nodes) /\ (p = q \/ ~nodes[n].dir) /\ \A m \in others : ~nodes[m].dir
    BY <1>11, <1>13 DEF LinuxInv
  <2>2. ASSUME NEW r \in Names, ParentIn(nodes, r) PROVE ParentIn(nodes', r)
    <3>1. CASE ParentOf[r] = Root
      BY <3>1 DEF ParentIn
    <3>2. CASE ParentOf[r] # Root
      <4>1. PICK m \in NodeSlots : nodes[m].path = ParentOf[r] /\ nodes[m].dir
        BY <2>2, <3>2 DEF ParentIn
      <4>2. m \notin others
        BY ONLY <2>1, <4>1
      <4>3. nodes'[m].path = ParentOf[r] /\ nodes'[m].dir
        BY ONLY <1>3, <1>4, <1>5, <2>1, <4>1, <4>2, m \in NodeSlots
      <4> QED BY <4>3 DEF ParentIn
    <3> QED BY <3>1, <3>2
  <2> SUFFICES ASSUME NEW m \in NodeSlots, nodes'[m].path # NoName
               PROVE  ParentIn(nodes', nodes'[m].path)
    BY DEF ParentsThere
  <2>3. CASE m = n
    <3>1. ParentIn(nodes', q)
      BY ONLY <1>9, <2>2, q \in Names
    <3> QED BY ONLY <1>5, <2>3, <3>1
  <2>4. CASE m # n
    <3>1. nodes'[m].path = nodes[m].path /\ nodes[m].path # NoName
      BY <1>4, <1>5, <2>4
    <3>2. nodes[m].path \in Names
      BY <1>3, <3>1 DEF Node
    <3>3. ParentIn(nodes, nodes[m].path)
      BY <2>1, <3>1 DEF ParentsThere
    <3> QED BY ONLY <2>2, <3>1, <3>2, <3>3
  <2> QED BY <2>3, <2>4
<1>14. OpensCounted(fds, nodes', doubted')
  <2>1. \A m \in NodeSlots : nodes'[m].opens = nodes[m].opens
    BY <1>4, <1>5
  <2>2. OpensCounted(fds, nodes', doubted)
    BY <2>1, CountsStand DEF LinuxInv
  <2> QED BY ONLY <1>11, <2>2 DEF OpensCounted, CountedAt
<1> QED BY <1>2, <1>5, <1>11, <1>12, <1>13, <1>14, LinuxPrimed DEF LinuxInv

\* openat of a file that is there: an overlay node of the name is found, or the root file
\* system's is opened, copied up for writing.
LEMMA OpenAtKeeps ==
  ASSUME LinuxInv, NEW p \in Names, NEW flags \in OpenFlags, OpenAt(p, flags)
  PROVE  LinuxInv'
<1> DEFINE n == NodeFor(p, flags)
           size == IF "trunc" \in flags \/ p \notin LowerNames \/ Found(p) # {} THEN 0 ELSE FileSize
           fresh == [path |-> p, dir |-> FALSE, opens |-> 0, size |-> size]
           made == IF n = 0 THEN nodes
                   ELSE IF Found(p) = {} THEN [nodes EXCEPT ![n] = fresh]
                   ELSE [nodes EXCEPT ![n].size = IF "trunc" \in flags THEN 0 ELSE @]
           kind == IF n = 0 THEN "lower" ELSE "overlay"
           x == Min(FreeFds)
           d == Opened(kind, n, flags)
<1>1. /\ PathExists(p) \/ ParentExists(p)
      /\ Found(p) = {} /\ (p \notin LowerNames \/ "write" \in flags) => FreeNodes # {}
      /\ FreeFds = {} => nodes' = made /\ fds' = fds
      /\ FreeFds # {} => /\ fds' = [fds EXCEPT ![x] = d]
                         /\ nodes' = IF n = 0 THEN made ELSE Retained(made, n)
      /\ UNCHANGED <<pipes, doubted>>
  BY DEF OpenAt
<1>2. /\ nodes \in [NodeSlots -> Node] /\ NamesUnique(nodes)
      /\ (~doubted.moved => ParentsThere(nodes)) /\ fds \in [Fds -> Descriptor]
      /\ DescriptorsKnown(fds, pipes) /\ OpensCounted(fds, nodes, doubted)
  BY DEF LinuxInv, DescriptorsKnown
<1>3. n \in Nat /\ (n # 0 => n \in NodeSlots) /\ NodesKeep(made)
  <2>1. CASE Found(p) # {}
    <3>1. n = Min(Found(p)) /\ n \in Found(p)
      <4>1. Found(p) \in SUBSET Nat
        BY DEF Found, NodeSlots
      <4>2. Min(Found(p)) \in Found(p)
        BY ONLY <2>1, <4>1, LeastMember
      <4> QED BY <2>1, <4>2 DEF NodeFor
    <3>2. n \in NodeSlots /\ n \in Nat /\ n # 0
      BY <3>1 DEF Found, NodeSlots
    <3> DEFINE size2 == IF "trunc" \in flags THEN 0 ELSE nodes[n].size
    <3> HIDE DEF n
    <3>3. made = [nodes EXCEPT ![n].size = size2]
      BY <1>2, <2>1, <3>2
    <3>4. size2 \in 0 .. FileSize
      BY <1>2, <3>2, LinuxConstants DEF Node
    <3> HIDE DEF made, size2
    <3>5. SameNodes(nodes, made)
      BY ONLY <1>2, <3>2, <3>3, <3>4, SizeChanged
    <3>6. NodesKeep(made)
      BY <1>2, <3>5, NamesStand DEF SameNodes, NodesKeep
    <3> QED BY <3>2, <3>6
  <2>2. CASE Found(p) = {} /\ (p \notin LowerNames \/ "write" \in flags)
    <3>1. n = Min(FreeNodes) /\ FreeNodes # {}
      BY <1>1, <2>2 DEF NodeFor
    <3>2. n \in NodeSlots /\ nodes[n].path = NoName /\ nodes[n].opens = 0
      BY <3>1, FreeNode
    <3>3. n \in Nat /\ n # 0
      BY <3>2 DEF NodeSlots
    <3>4. ParentExists(p)
      BY <1>1, <2>2, LinuxConstants DEF PathExists, ParentExists
    <3>5. fresh \in Node /\ fresh.path = p /\ fresh.opens = 0
      <4>1. size \in 0 .. FileSize
        BY LinuxConstants
      <4> HIDE DEF size
      <4> QED BY ONLY <4>1, p \in Names DEF Node
    <3>6. made = [nodes EXCEPT ![n] = fresh]
      BY <2>2, <3>3
    <3> HIDE DEF n, made, fresh
    <3>7. NodesKeep(made)
      BY ONLY LinuxInv, p \in Names, <2>2, <3>2, <3>4, <3>5, <3>6, AddedKeeps
    <3> QED BY ONLY <3>2, <3>3, <3>7
  <2>3. CASE Found(p) = {} /\ ~(p \notin LowerNames \/ "write" \in flags)
    <3>1. n = 0
      BY <2>3 DEF NodeFor
    <3>2. made = nodes
      BY <3>1
    <3> QED BY <1>2, <3>1, <3>2 DEF NodesKeep
  <2> QED BY <2>1, <2>2, <2>3
<1>4. CASE FreeFds = {}
  BY <1>1, <1>3, <1>4, NodesChange
<1>5. CASE FreeFds # {}
  <2>1. x \in Fds /\ fds[x].kind = "closed"
    BY <1>5, FreeFd
  <2>2. d \in Descriptor /\ d.kind = kind /\ d.slot = n
    <3>1. n \in Nat
      BY <1>3
    <3> HIDE DEF n
    <3> QED BY ONLY <3>1, OpenedFacts
  <2>3. CASE n = 0
    <3>1. nodes' = WithoutFd(nodes, x) /\ d.kind = "lower"
      BY <1>1, <1>5, <2>1, <2>2, <2>3 DEF WithoutFd
    <3>2. fds' = [fds EXCEPT ![x] = d] /\ UNCHANGED <<pipes, doubted>>
      BY <1>1, <1>5
    <3> HIDE DEF d, x
    <3> QED BY ONLY LinuxInv, <2>1, <2>2, <3>1, <3>2, ReplacedKeeps
  <2>4. CASE n # 0
    <3>1. nodes' = Retained(made, d.slot) /\ d.kind = "overlay" /\ d.slot \in NodeSlots
      BY <1>1, <1>3, <1>5, <2>2, <2>4
    <3>2. Replaced(fds, x, d, fds')
      BY <1>1, <1>2, <1>5, <2>1, <2>2, DescriptorReplaced
    <3>3. /\ made \in [NodeSlots -> Node] /\ NamesUnique(made)
          /\ ~doubted.moved => ParentsThere(made)
      BY <1>3 DEF NodesKeep
    <3>4. OpensCounted(fds, made, doubted)
      <4>1. \A m \in NodeSlots : made[m].opens = nodes[m].opens
        BY <1>3 DEF NodesKeep
      <4> HIDE DEF made
      <4> QED BY <1>2, <4>1, CountsStand
    <3> HIDE DEF d, x, made
    <3> QED BY ONLY LinuxInv, <1>1, <1>2, <2>1, <2>2, <3>1, <3>2, <3>3, <3>4, RetainedKeeps
  <2> QED BY <2>3, <2>4
<1> QED BY <1>4, <1>5

LEMMA LinuxInitOK == LinuxInit => LinuxInv
<1> SUFFICES ASSUME LinuxInit PROVE LinuxInv
  OBVIOUS
<1>1. /\ fds = [fd \in Fds |-> Closed] /\ nodes = [n \in NodeSlots |-> Unused]
      /\ pipes = [k \in PipeSlots |-> FreePipe]
      /\ doubted = [uncounted |-> {}, abandoned |-> {}, moved |-> FALSE]
  BY DEF LinuxInit
<1>2. DescriptorsKnown(fds, pipes)
  BY <1>1, DescriptorsMade DEF DescriptorsKnown
<1>3. PipesKnown(pipes)
  BY <1>1, LinuxConstants DEF PipesKnown, FreePipe
<1>4. Unused \in Node /\ Unused.path = NoName /\ Unused.opens = 0
  BY LinuxConstants DEF Unused, Node
<1>5. HistoryKnown(doubted)
  BY <1>1 DEF HistoryKnown
<1>6. OpensCounted(fds, nodes, doubted)
  <2> SUFFICES ASSUME NEW n \in NodeSlots PROVE CountedAt(fds, nodes, doubted, n)
    BY DEF OpensCounted
  <2>1. Holders(fds, n) = {}
    BY <1>1, DescriptorsMade DEF Holders
  <2>2. Cardinality(Holders(fds, n)) = 0
    BY <2>1, FS_EmptySet
  <2> QED BY <1>1, <1>4, <2>2 DEF CountedAt
<1>7. NamesUnique(nodes) /\ ParentsThere(nodes)
  BY <1>1, <1>4 DEF NamesUnique, ParentsThere
<1> QED BY <1>1, <1>2, <1>3, <1>4, <1>5, <1>6, <1>7 DEF LinuxInv

LEMMA LinuxStep ==
  ASSUME LinuxInv, [LinuxNext]_linuxVars
  PROVE  LinuxInv'
<1>1. CASE DescriptorCall
  BY <1>1, OpenDeviceKeeps, OpenAtKeeps, CloseKeeps, Dup3Keeps, SetCloexecKeeps, ExecveKeeps,
     NextProgramKeeps DEF DescriptorCall
<1>2. CASE CopyCall
  BY <1>2, DupFdKeeps DEF CopyCall
<1>3. CASE NameCall
  BY <1>3, MkdirKeeps, UnlinkKeeps, RenameKeeps DEF NameCall
<1>4. CASE DataCall
  BY <1>4, LseekKeeps, ReadKeeps, WriteKeeps, FtruncateKeeps, PwriteKeeps, Pipe2Keeps,
     PipeReadKeeps, PipeWriteKeeps DEF DataCall
<1>5. CASE UNCHANGED linuxVars
  BY <1>5 DEF linuxVars, LinuxInv, HistoryKnown, PipesKnown, DescriptorsKnown, OpensCounted,
              CountedAt, Holders, NamesUnique, ParentsThere, ParentIn
<1> QED BY <1>1, <1>2, <1>3, <1>4, <1>5 DEF LinuxNext

LEMMA LinuxInvSound == LinuxInv => LinuxFilesSound
<1> SUFFICES ASSUME LinuxInv PROVE LinuxFilesSound
  OBVIOUS
<1>1. \A n : Refs(n) = Holders(fds, n)
  BY DEF Refs, Holders
<1>2. NodesLiveAsLongAsNeeded
  BY <1>1 DEF NodesLiveAsLongAsNeeded, LinuxInv, OpensCounted, CountedAt
<1>3. ASSUME NEW p \in Names PROVE Cardinality(Found(p)) <= 1
  <2>1. \A m, n \in Found(p) : m = n
    BY NamesOfNodes
  <2>2. CASE Found(p) = {}
    BY <2>2, FS_EmptySet
  <2>3. CASE Found(p) # {}
    <3>1. PICK n \in Found(p) : TRUE
      BY <2>3
    <3>2. Found(p) = {n}
      BY <2>1, <3>1
    <3>3. Cardinality({n}) = 1
      BY ONLY FS_Singleton
    <3> QED BY ONLY <3>2, <3>3
  <2> QED BY <2>2, <2>3
<1>4. ASSUME ~doubted.moved, NEW n \in NodeSlots, nodes[n].path # NoName
      PROVE  ParentExists(nodes[n].path)
  <2>1. nodes[n].path \in Names /\ ParentIn(nodes, nodes[n].path)
    BY <1>4 DEF LinuxInv, Node, ParentsThere
  <2> QED BY <2>1, NamesOfNodes
<1>5. NamesConsistent
  BY <1>3, <1>4 DEF NamesConsistent
<1>6. BuffersKept
  <2>1. \A n \in NodeSlots : nodes[n].size <= FileSize
    BY LinuxConstants DEF LinuxInv, Node
  <2> QED BY <2>1 DEF BuffersKept, LinuxInv, PipesKnown, DescriptorsKnown
<1> QED BY <1>2, <1>5, <1>6 DEF LinuxFilesSound

\* Files live as long as they are named or open and no longer, names are unique and in
\* directories that exist, and no buffer is written past its end (linux_compat.c).
THEOREM LinuxFilesAreSound == LinuxSpec => []LinuxFilesSound
<1>1. LinuxSpec => []LinuxInv
  BY LinuxInitOK, LinuxStep, PTL DEF LinuxSpec
<1> QED BY <1>1, LinuxInvSound, PTL
=============================================================================
