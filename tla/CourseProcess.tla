---------------------------- MODULE CourseProcess ----------------------------
(***************************************************************************)
(* The course OS process table (guest/kernel/course_process.c): a fixed    *)
(* array of slots, process life cycle (spawn, fork, exec, exit, kill,      *)
(* wait) and copy-on-write user pages with reference counts.               *)
(*                                                                         *)
(* Abstraction: a page is one cell of Values; names, argv, ELF summaries,  *)
(* exit codes, crash records and statistics are left out.  A page slot is  *)
(* known by its id only (the code always searches by id), `mapped` is      *)
(* id # 0, and `used` of a slot is state # "UNUSED": course_process_set_   *)
(* state refuses UNUSED, so only clear_process produces it.                *)
(*                                                                         *)
(* The operators work on a table value so that the scheduler and the       *)
(* synchronisation modules, which keep a pointer to it, can compose them.  *)
(***************************************************************************)
EXTENDS Integers, FiniteSets

CONSTANTS
  MaxProcesses,  \* slots, COURSE_PROCESS_MAX_PROCESSES (16)
  NumPages,      \* page indices of a process, COURSE_PROCESS_MAX_USER_PAGES (8)
  MaxCowPages,   \* page slots, COURSE_PROCESS_MAX_COW_PAGES (32)
  Values,        \* what a page may hold
  MaxPid,        \* bound on pids handed out (the code's counter is 32 bits)
  MaxPageId      \* bound on page ids handed out (32 bits in the code)

ASSUME ProcessAssumption ==
  /\ MaxProcesses \in Nat \ {0}
  /\ NumPages \in Nat
  /\ MaxCowPages \in Nat
  /\ MaxPid \in Nat \ {0}
  /\ MaxPageId \in Nat

VARIABLE table   \* course_process_table_t

Slots == 1 .. MaxProcesses
UserPages == 1 .. NumPages
Pids == 1 .. MaxPid
PageIds == 1 .. MaxPageId

States == {"UNUSED", "READY", "RUNNING", "BLOCKED", "ZOMBIE", "DEAD"}
Live == {"READY", "RUNNING", "BLOCKED"}

Ref == [id : 0 .. MaxPageId, writable : BOOLEAN, cow : BOOLEAN]
NoRef == [id |-> 0, writable |-> FALSE, cow |-> FALSE]
Process == [pid : 0 .. MaxPid, ppid : 0 .. MaxPid, state : States,
            refs : [UserPages -> Ref]]
Cleared == [pid |-> 0, ppid |-> 0, state |-> "UNUSED",
            refs |-> [i \in UserPages |-> NoRef]]

-----------------------------------------------------------------------------
(* Looking things up *)

\* course_process_find: any used slot, whatever its state; 0 when there is none.
SlotOf(t, pid) ==
  LET found == {s \in Slots : t.procs[s].state # "UNUSED" /\ t.procs[s].pid = pid}
  IN  IF pid = 0 \/ found = {} THEN 0 ELSE CHOOSE s \in found : \A r \in found : s <= r

StateOf(t, pid) ==
  IF SlotOf(t, pid) = 0 THEN "UNUSED" ELSE t.procs[SlotOf(t, pid)].state

IsLive(t, pid) == StateOf(t, pid) \in Live

\* Mutant: a zombie's slot is handed out before anybody waited for it.
FreeSlotsWithZombies(t) == {s \in Slots : t.procs[s].state \in {"UNUSED", "ZOMBIE", "DEAD"}}

\* alloc_process: the first slot that is unused or whose process was reaped.
FreeSlots(t) == {s \in Slots : t.procs[s].state \in {"UNUSED", "DEAD"}}

Mapped(t, s, i) == t.procs[s].refs[i].id # 0

\* Every place a page is referenced from.
RefsTo(t, id) ==
  {r \in Slots \X UserPages : t.procs[r[1]].refs[r[2]].id = id}

-----------------------------------------------------------------------------
(* Changing the table *)

\* course_process_set_state: finds the process, and asks nothing of its state.
SetState(t, pid, state) == [t EXCEPT !.procs[SlotOf(t, pid)].state = state]

CanSpawn(t) == FreeSlots(t) # {} /\ t.nextPid \in Pids

SpawnSlot(t) == CHOOSE s \in FreeSlots(t) : \A r \in FreeSlots(t) : s <= r

\* course_process_spawn: the slot is cleared, whatever a reaped process left in it.
Spawned(t, ppid) ==
  [t EXCEPT !.procs[SpawnSlot(t)] =
              [Cleared EXCEPT !.pid = t.nextPid, !.ppid = ppid, !.state = "READY"],
            !.nextPid = @ + 1]

\* Mutant: the parent goes on storing to the pages it now shares.
ForkedParentKeepsWriting(t, parent) ==
  LET s == SlotOf(t, parent)
      refs == [i \in UserPages |->
                 IF Mapped(t, s, i) THEN [t.procs[s].refs[i] EXCEPT !.writable = FALSE, !.cow = TRUE]
                 ELSE t.procs[s].refs[i]]
      pages == [k \in DOMAIN t.pages |->
                  [t.pages[k] EXCEPT !.refcount =
                     @ + Cardinality({i \in UserPages : t.procs[s].refs[i].id = k})]]
  IN  [Spawned(t, parent) EXCEPT !.pages = pages, !.procs[SpawnSlot(t)].refs = refs]

\* course_process_fork: parent and child share every page, read-only, until one of
\* them stores.  A reference whose page is gone aborts the fork half way.
Forked(t, parent) ==
  LET s == SlotOf(t, parent)
      child == SpawnSlot(t)
      lost == {i \in UserPages : Mapped(t, s, i) /\ t.procs[s].refs[i].id \notin DOMAIN t.pages}
      shared == {i \in UserPages : Mapped(t, s, i) /\ \A j \in lost : i < j}
      refs == [i \in UserPages |->
                 IF i \in shared THEN [t.procs[s].refs[i] EXCEPT !.writable = FALSE, !.cow = TRUE]
                 ELSE t.procs[s].refs[i]]
      pages == [k \in DOMAIN t.pages |->
                  [t.pages[k] EXCEPT !.refcount =
                     @ + Cardinality({i \in shared : t.procs[s].refs[i].id = k})]]
      born == Spawned(t, parent)
  IN  [born EXCEPT !.pages = pages,
                   !.procs[s].refs = refs,
                   !.procs[child] = IF lost = {} THEN [@ EXCEPT !.refs = refs] ELSE Cleared]

\* release_process_user_pages: a page goes with its last reference.
Released(t, s) ==
  LET count(k) == t.pages[k].refcount
                    - Cardinality({i \in UserPages : t.procs[s].refs[i].id = k})
      kept == {k \in DOMAIN t.pages : count(k) > 0}
  IN  [t EXCEPT !.procs[s].refs = [i \in UserPages |-> NoRef],
                !.pages = [k \in kept |-> [t.pages[k] EXCEPT !.refcount = count(k)]]]

\* Mutant: one page too many is handed out.
CanAllocPageTooMany(t) == Cardinality(DOMAIN t.pages) <= MaxCowPages /\ t.nextPage \in PageIds

\* alloc_cow_page, with the contents the caller puts in it.
CanAllocPage(t) == Cardinality(DOMAIN t.pages) < MaxCowPages /\ t.nextPage \in PageIds

WithNewPage(t, v) ==
  [t EXCEPT !.pages = [k \in DOMAIN t.pages \cup {t.nextPage} |->
                         IF k = t.nextPage THEN [refcount |-> 1, data |-> v] ELSE t.pages[k]],
            !.nextPage = @ + 1]

\* Mutant: the test of the reference count asks for a copy only above two.
MustCopyAboveTwo(t, s, i) ==
  LET ref == t.procs[s].refs[i]
  IN  (ref.cow \/ ~ref.writable) /\ t.pages[ref.id].refcount > 2

\* duplicate_cow_page: what must hold for it to succeed, and its result.  The last
\* reference to a page takes it over; otherwise the writer gets a copy.
MustCopy(t, s, i) ==
  LET ref == t.procs[s].refs[i]
  IN  (ref.cow \/ ~ref.writable) /\ t.pages[ref.id].refcount # 1

CanDuplicate(t, s, i) ==
  /\ Mapped(t, s, i)
  /\ t.procs[s].refs[i].id \in DOMAIN t.pages
  /\ MustCopy(t, s, i) => CanAllocPage(t)

\* Mutant: the page that was copied keeps the writer's reference.
DuplicatedKeepsCount(t, s, i) ==
  LET id == IF MustCopy(t, s, i) THEN t.nextPage ELSE t.procs[s].refs[i].id
  IN  [IF MustCopy(t, s, i) THEN WithNewPage(t, t.pages[t.procs[s].refs[i].id].data) ELSE t
         EXCEPT !.procs[s].refs[i] = [id |-> id, writable |-> TRUE, cow |-> FALSE]]

Duplicated(t, s, i) ==
  LET old == t.procs[s].refs[i].id
      owned(id) == [id |-> id, writable |-> TRUE, cow |-> FALSE]
  IN  IF MustCopy(t, s, i)
      THEN [WithNewPage(t, t.pages[old].data) EXCEPT
              !.pages[old].refcount = @ - 1, !.procs[s].refs[i] = owned(t.nextPage)]
      ELSE [t EXCEPT !.procs[s].refs[i] = owned(old)]

-----------------------------------------------------------------------------
(* course_shell_init: pid 1 is the shell, its program loaded. *)
Init ==
  table = [procs |-> [s \in Slots |->
                        IF s = 1 THEN [Cleared EXCEPT !.pid = 1, !.state = "READY"] ELSE Cleared],
           pages |-> [k \in {} |-> [refcount |-> 0, data |-> 0]],
           nextPid |-> 2, nextPage |-> 1]

\* A process without a parent (the stage demos spawn theirs so): nobody reaps it.
Spawn == CanSpawn(table) /\ table' = Spawned(table, 0)

\* The code refuses a zombie or reaped parent, which leaves the live ones.
Fork(pid) ==
  /\ IsLive(table, pid) /\ CanSpawn(table)
  /\ table' = Forked(table, pid)

\* course_process_exec_image asks nothing of the state; its callers exec a live process.
Exec(pid) ==
  /\ IsLive(table, pid)
  /\ table' = SetState(Released(table, SlotOf(table, pid)), pid, "READY")

\* course_process_exit, and course_process_record_crash, which ends in it.
Exit(pid) == IsLive(table, pid) /\ table' = SetState(table, pid, "ZOMBIE")

\* course_process_kill: any process but the first and the caller; a zombie again too.
Kill(caller, target) ==
  /\ IsLive(table, caller)
  /\ StateOf(table, target) \notin {"UNUSED", "DEAD"}
  /\ target # 1 /\ target # caller
  /\ table' = SetState(table, target, "ZOMBIE")

Reaped(t, s) == [Released(t, s) EXCEPT !.procs[s].state = "DEAD"]

\* course_process_waitpid: only a zombie child of the caller.
Waitpid(parent, child) ==
  LET s == SlotOf(table, child)
  IN  /\ IsLive(table, parent)
      /\ s # 0 /\ table.procs[s].ppid = parent /\ table.procs[s].state = "ZOMBIE"
      /\ table' = Reaped(table, s)

\* course_process_wait: the first zombie child in slot order.
Wait(parent) ==
  LET zombies == {s \in Slots : table.procs[s].ppid = parent /\ table.procs[s].state = "ZOMBIE"}
  IN  /\ IsLive(table, parent)
      /\ \E s \in zombies : (\A r \in zombies : s <= r) /\ table' = Reaped(table, s)

\* course_process_map_user_page, called for a live process.
MapUserPage(pid, i, v) ==
  /\ IsLive(table, pid) /\ ~Mapped(table, SlotOf(table, pid), i) /\ CanAllocPage(table)
  /\ table' = [WithNewPage(table, v) EXCEPT !.procs[SlotOf(table, pid)].refs[i] =
                 [id |-> table.nextPage, writable |-> TRUE, cow |-> FALSE]]

\* course_process_handle_cow_store_fault: the page is made the process's own.
CowStoreFault(pid, i) ==
  LET s == SlotOf(table, pid)
  IN  IsLive(table, pid) /\ CanDuplicate(table, s, i) /\ table' = Duplicated(table, s, i)

\* course_process_write_user_byte: the page is made the process's own, then stored to.
WriteUserByte(pid, i, v) ==
  LET s == SlotOf(table, pid)
      own == Duplicated(table, s, i)
  IN  /\ IsLive(table, pid) /\ CanDuplicate(table, s, i)
      /\ table' = [own EXCEPT !.pages[own.procs[s].refs[i].id].data = v]

Next ==
  \/ Spawn
  \/ \E p \in Pids : Fork(p) \/ Exec(p) \/ Exit(p) \/ Wait(p)
  \/ \E p, q \in Pids : Kill(p, q) \/ Waitpid(p, q)
  \/ \E p \in Pids, i \in UserPages, v \in Values : MapUserPage(p, i, v) \/ WriteUserByte(p, i, v)
  \/ \E p \in Pids, i \in UserPages : CowStoreFault(p, i)

Spec == Init /\ [][Next]_table

-----------------------------------------------------------------------------
(* Properties *)

\* Types, the capacity of the page pool, and pids that name one slot each.
TypeOK ==
  /\ table.procs \in [Slots -> Process]
  /\ \A k \in DOMAIN table.pages :
       k \in PageIds /\ table.pages[k] \in [refcount : Nat \ {0}, data : Values]
  /\ Cardinality(DOMAIN table.pages) <= MaxCowPages
  /\ table.nextPid \in 1 .. MaxPid + 1
  /\ table.nextPage \in 1 .. MaxPageId + 1
  /\ \A s, r \in Slots :
       (table.procs[s].pid = table.procs[r].pid /\ table.procs[s].pid # 0) => s = r

\* The count kept with a page is the number of page-table entries that name it, in
\* every slot and whatever sequence of forks, stores, execs and waits led here: no
\* page is freed under a process (entries name pages that exist), none leaks.
RefcountsExact ==
  /\ \A s \in Slots, i \in UserPages :
       Mapped(table, s, i) => table.procs[s].refs[i].id \in DOMAIN table.pages
  /\ \A k \in DOMAIN table.pages : table.pages[k].refcount = Cardinality(RefsTo(table, k))

\* A process that may store without a fault is the only one that references the page.
WritableIsSole ==
  \A s \in Slots, i \in UserPages :
    table.procs[s].refs[i].writable => RefsTo(table, table.procs[s].refs[i].id) = {<<s, i>>}

\* A process stays findable, with the parent it had, until that parent has reaped it:
\* no slot is handed to a new process while somebody may still wait for the old one.
KeptUntilReaped ==
  [][\A s \in Slots :
       table.procs[s].state \notin {"UNUSED", "DEAD"} =>
         /\ table'.procs[s].pid = table.procs[s].pid
         /\ table'.procs[s].ppid = table.procs[s].ppid
         /\ table'.procs[s].state = "DEAD" => table.procs[s].state = "ZOMBIE"]_table

\* Copy-on-write is invisible: the table implements processes with private pages.
MemoryOf(pid) ==
  LET s == SlotOf(table, pid)
  IN  [i \in UserPages |-> IF s = 0 \/ ~Mapped(table, s, i) THEN "unmapped"
                           ELSE table.pages[table.procs[s].refs[i].id].data]

Abstract == INSTANCE PrivateMemory
  WITH memory <- [p \in Pids |-> MemoryOf(p)], Unmapped <- "unmapped"

ImplementsPrivateMemory == Abstract!Spec

\* Every reference to a page is counted, and only a page's sole user may write it.
PagesAccounted == TypeOK /\ RefcountsExact /\ WritableIsSole
=============================================================================
