------------------------------ MODULE GuestVm ------------------------------
(***************************************************************************)
(* Virtual memory of the guest kernel and the user tasks that live in it   *)
(* (guest/kernel/pmm.c, vm*.c, user_task*.c, runtime_context.c and the     *)
(* runtime part of trap.c): page frames, Sv39 address spaces, user regions *)
(* bound to memory objects, page faults and the active task.               *)
(*                                                                         *)
(* Abstraction: addresses are page numbers, a page holds one value, and a  *)
(* table of translations needs one level-1 table and a level-0 table for   *)
(* every PagesPerTable pages.  The kernel claims one user-window page, a   *)
(* device's, by mapping it or by registering a fault range.  A kernel runs *)
(* on one hart and is not preempted, so a call is a step; it works on a    *)
(* value m of everything the kernel keeps, m.ok being what the last call   *)
(* returned.  The translations cached by the hart are kept beside.         *)
(***************************************************************************)
EXTENDS Integers, Sequences, FiniteSets, SequencesExt

CONSTANTS
  NumFrames,      \* page frames the allocator manages
  NumVmPages,     \* pages of the user window
  PagesPerTable,  \* pages under one level-0 table (512)
  DevicePage,     \* the page of a device in the user window
  NumSpaces,      \* VM_MAX_ADDRESS_SPACES (2)
  NumTasks,       \* user tasks
  NumRegions,     \* region descriptors (the tables have 48 slots: never full)
  NumObjects,     \* object descriptors
  Contents,       \* what a page may hold; 0 when it was cleared
  Unmapped,       \* bindings of a program whose page a caller unmaps
  TlbEntries      \* translations the hart keeps; a full cache drops one

ASSUME GuestVmAssumption ==
  /\ {NumFrames, NumVmPages, PagesPerTable, NumSpaces, NumTasks} \subseteq Nat \ {0}
  /\ {DevicePage, NumRegions, NumObjects, TlbEntries} \subseteq Nat
  /\ 0 \in Contents /\ Unmapped \subseteq 1 .. 5

VARIABLES
  kernel,  \* what the kernel keeps, see KernelStart
  tlb,     \* translations the hart has cached: page -> [frame, prot]
  stored   \* what was last stored to page i of object o; 0 when never (history)

vmVars == <<kernel, tlb, stored>>

Frames == 1 .. NumFrames
ImageFrame(o, i) == NumFrames + 2 * o + i - 1   \* memory outside the allocator: page i of object o
VmPages == 1 .. NumVmPages
Spaces == 1 .. NumSpaces
Tasks == 1 .. NumTasks
Regions == 1 .. NumRegions
Objects == 1 .. NumObjects
\* Objects have at most two pages.
Junk == 9                          \* what a frame nobody has holds
Nothing == <<>>                    \* the function on no page

FreeSpace == [used |-> FALSE, on |-> FALSE, root |-> 0, tables |-> Nothing,
              entries |-> Nothing, device |-> "unclaimed"]
FreeRegion == [space |-> 0, first |-> 0, size |-> 0, prot |-> {},
               object |-> 0, offset |-> 0, mode |-> "none"]
FreeObject == [kind |-> "none", size |-> 0, attached |-> 0, table |-> 0, pages |-> Nothing]
FreeTask == [space |-> 0, owns |-> {}, entry |-> 0, stack |-> 0]

KernelStart ==
  [ok      |-> TRUE,
   used    |-> {},                              \* frames handed out
   data    |-> [f \in 1 .. NumFrames + 2 * NumObjects |-> IF f \in Frames THEN Junk ELSE 0],
   spaces  |-> [s \in Spaces |-> FreeSpace],
   regions |-> [r \in Regions |-> FreeRegion],
   objects |-> [o \in Objects |-> FreeObject],
   tasks   |-> [t \in Tasks |-> FreeTask],
   satp    |-> 0,                               \* space the hart translates with
   active  |-> 0,                               \* active_address_space
   running |-> 0,                               \* active_process
   bound   |-> 0,                               \* task whose runtime the trap context has
   runtime |-> 0,                               \* active_user_runtime
   created |-> {},                              \* programs configured and bound
   foreign |-> {},                              \* tasks other code builds region by region
   flush   |-> FALSE]                           \* the call executed SFENCE.VMA

Succeed(m) == [m EXCEPT !.ok = TRUE]
Fail(m) == [m EXCEPT !.ok = FALSE]

\* The rest of a call is done only if what came before succeeded.
Then(m, Rest(_)) == IF m.ok THEN Rest(m) ELSE m

\* A call that failed is undone, as far as the code undoes it.
OrElse(m, Undo(_)) == IF m.ok THEN m ELSE Fail(Undo(m))
Try(m, Rest(_), Undo(_)) == IF m.ok THEN Rest(m) ELSE Fail(Undo(m))

-----------------------------------------------------------------------------
(* Page frames.  The search starts at next_search_index, below which every *)
(* page is used: it finds the first free page.                             *)

NextFrame(m) == CHOOSE f \in Frames \ m.used : \A g \in Frames \ m.used : f <= g

\* alloc_zeroed_page; the caller takes NextFrame.
TakeFrame(m) ==
  IF m.used = Frames THEN Fail(m)
  ELSE [m EXCEPT !.ok = TRUE, !.used = @ \cup {NextFrame(m)}, !.data[NextFrame(m)] = 0]

\* pmm_free_page of each: one that is not in use is refused.
ReturnFrames(m, F) ==
  [m EXCEPT !.ok = F \subseteq m.used, !.used = @ \ F,
            !.data = [f \in DOMAIN @ |-> IF f \in F THEN Junk ELSE @[f]]]

-----------------------------------------------------------------------------
(* Page tables *)

Level0(p) == 1 + (p - 1) \div PagesPerTable

WithTable(m, s, id) ==
  IF id \in DOMAIN m.spaces[s].tables THEN m
  ELSE Then(TakeFrame(m), LAMBDA n :
         [n EXCEPT !.spaces[s].tables = @ @@ (id :> NextFrame(m))])

\* map_page_internal: the tables it had to make stay, whatever happens next.
MapPage(m, s, p, frame, prot) ==
  Then(Then(WithTable(Succeed(m), s, 0), LAMBDA n : WithTable(n, s, Level0(p))), LAMBDA n :
    IF p \in DOMAIN n.spaces[s].entries THEN Fail(n)
    ELSE [n EXCEPT !.spaces[s].entries = @ @@ (p :> [frame |-> frame, prot |-> prot])])

IsMapped(m, s, p) == p \in DOMAIN m.spaces[s].entries

WithoutPages(m, s, P) ==
  [m EXCEPT !.spaces[s].entries = Restrict(@, DOMAIN @ \ P)]

\* unmap_page_internal
UnmapPage(m, s, p) == IF IsMapped(m, s, p) THEN WithoutPages(Succeed(m), s, {p}) ELSE Fail(m)

Flush(m) == [m EXCEPT !.flush = TRUE]

\* flush_tlb_if_enabled
FlushIfEnabled(m) ==
  IF m.active # 0 /\ m.spaces[m.active].on THEN Flush(m) ELSE m

-----------------------------------------------------------------------------
(* Memory objects *)

\* vm_object_init_anon: its table of page slots is a page itself.
InitAnon(m, o, size) ==
  IF m.objects[o].kind # "none" \/ size = 0 THEN Fail(m)
  ELSE Then(TakeFrame(m), LAMBDA n :
         [n EXCEPT !.objects[o] = [FreeObject EXCEPT !.kind = "anon", !.size = size,
                                                     !.table = NextFrame(m)]])

\* vm_object_init_physical
InitPhysical(m, o, size) ==
  IF m.objects[o].kind # "none" \/ size = 0 THEN Fail(m)
  ELSE [Succeed(m) EXCEPT !.objects[o] = [FreeObject EXCEPT !.kind = "physical", !.size = size]]

\* object_resolve_page with create: the frame is then FrameOf.
Resolve(m, o, i) ==
  CASE m.objects[o].kind = "none" \/ i >= m.objects[o].size -> Fail(m)
    [] m.objects[o].kind = "physical" \/ i \in DOMAIN m.objects[o].pages -> Succeed(m)
    [] OTHER -> Then(TakeFrame(m), LAMBDA n :
                  [n EXCEPT !.objects[o].pages = @ @@ (i :> NextFrame(m))])

FrameOf(m, o, i) ==
  IF m.objects[o].kind = "physical" THEN ImageFrame(o, i) ELSE m.objects[o].pages[i]

\* What page i of an object reads as; a page nobody touched is made of zeros.
ContentsOf(m, o, i) ==
  IF m.objects[o].kind = "physical" \/ i \in DOMAIN m.objects[o].pages
  THEN m.data[FrameOf(m, o, i)] ELSE 0

\* Mutant: an object that regions still use is taken apart.
ResetAttachedObject(m, o) ==
  IF m.objects[o].kind = "none" THEN Succeed(m)
  ELSE Then(ReturnFrames(m, Range(m.objects[o].pages) \cup ({m.objects[o].table} \ {0})), LAMBDA n :
         [n EXCEPT !.objects[o] = FreeObject])

\* vm_object_reset
ResetObject(m, o) ==
  CASE m.objects[o].kind = "none" -> Succeed(m)
    [] m.objects[o].attached # 0 -> Fail(m)
    [] OTHER ->
         Then(ReturnFrames(m, Range(m.objects[o].pages) \cup ({m.objects[o].table} \ {0})), LAMBDA n :
           [n EXCEPT !.objects[o] = FreeObject])

-----------------------------------------------------------------------------
(* User regions *)

PagesOf(g) == g.first .. g.first + g.size - 1
Registered(m, s) == {r \in Regions : m.regions[r].space = s}

\* vm_process_user_region_init: inside the user window, apart from every other region of
\* the space and from what the kernel claimed.  A refused descriptor is not registered.
InitRegion(m, t, r, first, size, prot) ==
  LET s == m.tasks[t].space
      g == [FreeRegion EXCEPT !.space = s, !.first = first, !.size = size, !.prot = prot]
  IN  IF \/ s = 0 \/ r \in m.tasks[t].owns \/ size = 0 \/ prot = {}
         \/ ~PagesOf(g) \subseteq VmPages
         \/ m.spaces[s].device # "unclaimed" /\ DevicePage \in PagesOf(g)
         \/ \E q \in Registered(m, s) : PagesOf(m.regions[q]) \cap PagesOf(g) # {}
      THEN Fail([m EXCEPT !.regions[r] = FreeRegion])
      ELSE [Succeed(m) EXCEPT !.regions[r] = g, !.tasks[t].owns = @ \cup {r}]

\* map_region_object_pages: all pages of the region, or none.
MapRegion(m, r, o, offset) ==
  LET g == m.regions[r]
      map(n, p) == Then(Then(n, LAMBDA x : Resolve(x, o, offset + p - g.first)), LAMBDA x :
                     MapPage(x, g.space, p, FrameOf(x, o, offset + p - g.first), g.prot))
  IN  IF \E p \in PagesOf(g) : IsMapped(m, g.space, p) THEN Fail(m)
      ELSE OrElse(FoldLeft(map, Succeed(m), [k \in 1 .. g.size |-> g.first + k - 1]),
                  LAMBDA n : WithoutPages(n, g.space, PagesOf(g)))

\* bind_region_object
BindObject(m, r, o, offset, mode) ==
  LET g == m.regions[r]
      mapped == IF mode = "mapped" THEN MapRegion(m, r, o, offset) ELSE Succeed(m)
  IN  IF \/ g.space = 0 \/ g.object # 0
         \/ m.objects[o].kind = "none" \/ offset + g.size > m.objects[o].size
      THEN Fail(m)
      ELSE Then(mapped, LAMBDA n :
             LET b == [n EXCEPT !.objects[o].attached = @ + 1,
                                !.regions[r] = [g EXCEPT !.object = o, !.offset = offset,
                                                         !.mode = mode]]
             IN  IF mode = "mapped" THEN FlushIfEnabled(b) ELSE b)

\* vm_user_region_clear_object
ClearObject(m, r) ==
  LET g == m.regions[r]
      cleared == [WithoutPages(Succeed(m), g.space, PagesOf(g)) EXCEPT
                    !.regions[r] = [g EXCEPT !.object = 0, !.offset = 0, !.mode = "none"],
                    !.objects = IF g.object = 0 THEN @
                                ELSE [@ EXCEPT ![g.object].attached = @ - 1]]
  IN  IF \E p \in PagesOf(g) : IsMapped(m, g.space, p) THEN FlushIfEnabled(cleared) ELSE cleared

\* vm_process_remove_user_region: a task whose code or stack it held has no context left.
RemoveRegion(m, t, r) ==
  LET pages == PagesOf(m.regions[r])
      forget(p) == IF p \in pages THEN 0 ELSE p
  IN  IF r \notin m.tasks[t].owns \/ m.regions[r].space # m.tasks[t].space THEN Fail(m)
      ELSE [ClearObject(m, r) EXCEPT
              !.regions[r] = FreeRegion,
              !.tasks[t].owns = @ \ {r},
              !.tasks[t].entry = forget(@),
              !.tasks[t].stack = forget(@)]

\* process_bind_object_region
BindRegion(m, t, b) ==
  Then(InitRegion(m, t, b.region, b.first, b.size, b.prot), LAMBDA n :
    OrElse(BindObject(n, b.region, b.object, b.offset, b.mode), LAMBDA x :
      RemoveRegion(x, t, b.region)))

\* vm_process_bind_user_regions: all of them or none.
BindRegions(m, t, bindings) ==
  LET undo(b, n) == IF b.region \in n.tasks[t].owns \ m.tasks[t].owns
                    THEN RemoveRegion(n, t, b.region) ELSE n
  IN  OrElse(FoldLeft(LAMBDA n, b : Then(n, LAMBDA x : BindRegion(x, t, b)), Succeed(m), bindings),
             LAMBDA n : FoldRight(undo, bindings, n))

-----------------------------------------------------------------------------
(* Address spaces *)

\* vm_address_space_create and vm_process_create: the first free descriptor.
CreateTask(m, t) ==
  LET free == {s \in Spaces : ~m.spaces[s].used}
      s == CHOOSE x \in free : \A y \in free : x <= y
  IN  IF m.tasks[t].space # 0 \/ free = {} THEN Fail(m)
      ELSE Then(TakeFrame(m), LAMBDA n :
             [n EXCEPT !.spaces[s] = [FreeSpace EXCEPT !.used = TRUE, !.root = NextFrame(m)],
                       !.tasks[t] = [FreeTask EXCEPT !.space = s]])

\* vm_address_space_enable
EnableSpace(m, s) ==
  LET off == IF m.active = 0 THEN m ELSE [m EXCEPT !.spaces[m.active].on = FALSE]
  IN  Flush([Succeed(off) EXCEPT !.satp = s, !.active = s, !.spaces[s].on = TRUE])

\* Mutant: the hart goes on translating with the space that was turned off.
DisableSpaceInName(m, s) ==
  [Succeed(m) EXCEPT !.active = IF @ = s THEN 0 ELSE @, !.spaces[s].on = FALSE,
                     !.running = IF m.active = s THEN 0 ELSE @]

\* vm_address_space_disable
DisableSpace(m, s) ==
  LET bare == IF m.active = s /\ m.spaces[s].on THEN Flush([m EXCEPT !.satp = 0]) ELSE m
      inside == m.running # 0 /\ m.tasks[m.running].space = s
  IN  [Succeed(bare) EXCEPT !.active = IF @ = s THEN 0 ELSE @,
                            !.running = IF m.active = s /\ inside THEN 0 ELSE @,
                            !.spaces[s].on = FALSE]

\* vm_address_space_destroy, with every table of the space.
DestroySpace(m, s) ==
  IF Registered(m, s) # {} THEN Fail(m)
  ELSE [ReturnFrames(DisableSpace(m, s), Range(m.spaces[s].tables) \cup {m.spaces[s].root})
          EXCEPT !.spaces[s] = FreeSpace]

\* vm_address_space_map_kernel_range and _register_fault_range, of the device page.
ClaimDevice(m, s, how) ==
  IF \/ m.spaces[s].device # "unclaimed"
     \/ \E r \in Registered(m, s) : DevicePage \in PagesOf(m.regions[r])
  THEN Fail(m)
  ELSE Then(IF how = "mapped" THEN MapPage(m, s, DevicePage, 0, {}) ELSE Succeed(m), LAMBDA n :
         LET claimed == [n EXCEPT !.spaces[s].device = how]
         IN  IF how = "mapped" THEN FlushIfEnabled(claimed) ELSE claimed)

-----------------------------------------------------------------------------
(* Tasks and the runtime that enters them *)

Allowed(m, t, p, need) ==
  \E r \in m.tasks[t].owns : p \in PagesOf(m.regions[r]) /\ need \in m.regions[r].prot

Runnable(m, t) == Allowed(m, t, m.tasks[t].entry, "x") /\ Allowed(m, t, m.tasks[t].stack, "w")

\* trap_user_runtime_prepare_standard: the task the trap context had loses its runtime.
Prepare(m, t, entry, stack) ==
  IF ~(Allowed(m, t, entry, "x") /\ Allowed(m, t, stack, "w")) THEN Fail(m)
  ELSE [Succeed(m) EXCEPT !.tasks[t].entry = entry, !.tasks[t].stack = stack,
                          !.runtime = IF @ \in {t, m.bound} THEN 0 ELSE @,
                          !.bound = t]

\* trap_user_runtime_activate and vm_process_activate
Activate(m, t) ==
  IF m.bound # t \/ ~Runnable(m, t) THEN Fail(m)
  ELSE [EnableSpace(m, m.tasks[t].space) EXCEPT !.running = t, !.runtime = t]

\* trap_user_runtime_is_active
Entered(m, t) == m.bound = t /\ m.runtime = t /\ m.running = t

\* trap_user_runtime_deactivate
Deactivate(m, t) ==
  IF ~Entered(m, t) THEN Fail(m)
  ELSE DisableSpace([m EXCEPT !.runtime = 0], m.tasks[t].space)

\* user_task_destroy: a task that is active without its runtime cannot be destroyed.
DestroyTask(m, t) ==
  LET emptied(n) == FoldSet(LAMBDA r, x : RemoveRegion(x, t, r), n, n.tasks[t].owns)
      destroyed(n) ==
        IF n.tasks[t].space = 0 \/ n.running = t THEN Fail(n)
        ELSE Then(DestroySpace(emptied(n), n.tasks[t].space), LAMBDA x :
               [x EXCEPT !.tasks[t] = FreeTask,
                         !.runtime = IF @ = t THEN 0 ELSE @, !.bound = IF @ = t THEN 0 ELSE @])
  IN  destroyed(IF Entered(m, t) THEN Deactivate(m, t) ELSE m)

-----------------------------------------------------------------------------
(* User programs: one task, five regions and four objects each             *)

Part(t, kind) ==
  4 * (t - 1) + (CASE kind = "exec" -> 1 [] kind = "stack" -> 2 [] kind = "alias" -> 3 [] OTHER -> 4)

\* build_standard_bindings; the two anonymous pages are one object in two regions.
Bindings(t) ==
  LET binding(k, page, prot, kind, offset, mode) ==
        [region |-> 5 * (t - 1) + k, first |-> page, size |-> 1, prot |-> prot,
         object |-> Part(t, kind), offset |-> offset, mode |-> mode]
  IN  << binding(1, 4, {"r", "x"}, "exec", 0, "mapped"),
         binding(2, 3, {"r", "w"}, "stack", 0, "mapped"),
         binding(3, 6, {"r", "w"}, "alias", 0, "mapped"),
         binding(4, 2, {"r", "w"}, "anon", 0, "fault"),
         binding(5, 1, {"r", "w"}, "anon", 1, "fault") >>

\* user_task_bootstrap_reset: stops at the first object that is still attached.
ResetObjects(m, t) ==
  FoldLeft(LAMBDA n, kind : Then(n, LAMBDA x : ResetObject(x, Part(t, kind))),
           Succeed(m), <<"anon", "alias", "stack", "exec">>)

\* user_program_destroy
DestroyProgram(m, t) ==
  Then(Then(IF m.tasks[t].space # 0 THEN DestroyTask(m, t) ELSE Succeed(m),
            LAMBDA n : ResetObjects(n, t)),
       LAMBDA n : [n EXCEPT !.created = @ \ {t}])

\* user_program_create: whatever failed, the program is as before it was created.
CreateProgram(m, t) ==
  LET init(n, kind) == Then(n, LAMBDA x :
        IF kind = "anon" THEN InitAnon(x, Part(t, kind), 2) ELSE InitPhysical(x, Part(t, kind), 1))
      configure(n) == FoldLeft(init, n, <<"exec", "stack", "alias", "anon">>)
  IN  Then(CreateTask(m, t), LAMBDA n :
        Try(Then(configure(n), LAMBDA x : BindRegions(x, t, Bindings(t))),
            LAMBDA x : [x EXCEPT !.created = @ \cup {t}],
            LAMBDA x : DestroyProgram(x, t)))

\* user_program_rebind_region_fault_object: the old binding comes back if the new one fails.
Rebind(m, r, o) ==
  LET g == m.regions[r]
      restored(n) == IF g.object = 0 THEN n ELSE BindObject(n, r, g.object, g.offset, g.mode)
  IN  OrElse(BindObject(ClearObject(m, r), r, o, 0, "fault"), restored)

-----------------------------------------------------------------------------
(* Page faults *)

\* vm_handle_page_fault: of the running process in its space, then of the kernel.
Fault(m, p, need) ==
  LET s == m.active
      hit == {r \in Regions : /\ m.running # 0 /\ m.tasks[m.running].space = s
                              /\ r \in m.tasks[m.running].owns /\ p \in PagesOf(m.regions[r])}
      r == CHOOSE x \in hit : TRUE
      g == m.regions[r]
      i == g.offset + p - g.first
  IN  IF s = 0 THEN Fail(m)
      ELSE IF hit # {} /\ g.object # 0 /\ need \in g.prot
      THEN Then(Then(Resolve(m, g.object, i), LAMBDA n :
             MapPage(n, s, p, FrameOf(n, g.object, i), g.prot)), Flush)
      ELSE IF p = DevicePage /\ m.spaces[s].device = "onfault" /\ need \in {"r", "w"}
      THEN Then(MapPage(m, s, p, 0, {}), Flush)
      ELSE Fail(m)

-----------------------------------------------------------------------------
(* Steps *)

Call(m) ==
  /\ kernel' = [m EXCEPT !.flush = FALSE, !.ok = TRUE]
  /\ tlb' = IF m.flush THEN Nothing ELSE tlb

\* Objects that were cleared start with what they hold.
Held(m) == [o \in Objects |-> [i \in 0 .. 1 |->
              IF i < m.objects[o].size THEN ContentsOf(m, o, i) ELSE 0]]

\* What programs stored stays true of an object until it is reset or made anew.
Kept(m) == [o \in Objects |-> IF /\ kernel.objects[o].kind # "none" /\ m.objects[o].kind # "none"
                              THEN stored[o] ELSE Held(m)[o]]

ProgramCall(m) == Call(m) /\ stored' = Kept(m)

ProgramStep(t) ==
  \/ t \notin kernel.created /\ ProgramCall(CreateProgram(kernel, t))
  \/ t \in kernel.created /\ ProgramCall(DestroyProgram(kernel, t))
  \/ t \in kernel.created /\ ProgramCall(Prepare(kernel, t, Bindings(t)[1].first, Bindings(t)[2].first))
  \/ t \in kernel.created /\ ProgramCall(Activate(kernel, t))
  \/ t \in kernel.created /\ ProgramCall(Deactivate(kernel, t))

\* What a stage of the kernel does to a program it created.
MemoryStep(t) ==
  \/ \E k \in Unmapped : LET r == Bindings(t)[k].region IN
       /\ r \in kernel.tasks[t].owns
       /\ ProgramCall(Then(UnmapPage(kernel, kernel.tasks[t].space, kernel.regions[r].first), FlushIfEnabled))
  \/ \E k \in {4, 5}, kind \in {"alias", "anon"} :
       /\ Bindings(t)[k].region \in kernel.tasks[t].owns
       /\ ProgramCall(Rebind(kernel, Bindings(t)[k].region, Part(t, kind)))
  \/ t \in kernel.created /\ ProgramCall(ResetObject(kernel, Part(t, "anon")))

DeviceStep ==
  \/ \E s \in Spaces, how \in {"mapped", "onfault"} :
        kernel.spaces[s].used /\ ProgramCall(ClaimDevice(kernel, s, how))
  \/ /\ kernel.satp # 0 /\ ~IsMapped(kernel, kernel.satp, DevicePage)
     /\ ProgramCall(Fault(kernel, DevicePage, "r"))

\* The translation the hart uses.
Translated(p) == p \in DOMAIN tlb \/ IsMapped(kernel, kernel.satp, p)
Translation(p) == IF p \in DOMAIN tlb THEN tlb[p] ELSE kernel.spaces[kernel.satp].entries[p]

Cached(p) ==
  IF p \in DOMAIN tlb THEN tlb' = tlb
  ELSE \E keep \in SUBSET DOMAIN tlb :
         /\ Cardinality(keep) = (IF Cardinality(DOMAIN tlb) < TlbEntries
                                 THEN Cardinality(DOMAIN tlb) ELSE TlbEntries - 1)
         /\ tlb' = Restrict(tlb, keep) @@ (p :> Translation(p))

\* The user code of the running task loads, stores (a 1) or fetches at page p.
UserAccess(p, need) ==
  /\ kernel.satp # 0 /\ Entered(kernel, kernel.runtime)
  /\ IF Translated(p) /\ need \in Translation(p).prot
     THEN LET at == {r \in kernel.tasks[kernel.running].owns : p \in PagesOf(kernel.regions[r])}
              g == kernel.regions[CHOOSE r \in at : TRUE]
          IN  /\ Cached(p)
              /\ IF need # "w" THEN UNCHANGED <<kernel, stored>>
                 ELSE /\ kernel' = [kernel EXCEPT !.data[Translation(p).frame] = 1]
                      /\ stored' = IF at = {} \/ g.object = 0 THEN stored
                                   ELSE [stored EXCEPT ![g.object][g.offset + p - g.first] = 1]
     ELSE ProgramCall(Fault(kernel, p, need))

VmInit ==
  /\ kernel = KernelStart
  /\ tlb = Nothing
  /\ stored = [o \in Objects |-> [i \in 0 .. 1 |-> 0]]

VmNext ==
  \/ \E t \in Tasks : ProgramStep(t) \/ MemoryStep(t)
  \/ DeviceStep
  \/ \E p \in VmPages, need \in {"r", "w", "x"} : UserAccess(p, need)

VmSpec == VmInit /\ [][VmNext]_vmVars

-----------------------------------------------------------------------------
(* Properties *)

FramesOf(m) ==
  [spaces  |-> UNION {{m.spaces[s].root} \cup Range(m.spaces[s].tables) : s \in Spaces} \ {0},
   objects |-> UNION {{m.objects[o].table} \cup Range(m.objects[o].pages) : o \in Objects} \ {0}]

Sum(f) == FoldFunction(+, 0, f)

\* Every frame handed out has one owner, and nothing else was handed out: no call leaks a
\* frame or gives one back that is still in use.
FramesOwnedOnce ==
  LET count(s) == IF kernel.spaces[s].used THEN 1 + Cardinality(DOMAIN kernel.spaces[s].tables) ELSE 0
      held(o) == Cardinality(DOMAIN kernel.objects[o].pages)
                   + (IF kernel.objects[o].table # 0 THEN 1 ELSE 0)
  IN  /\ FramesOf(kernel).spaces \cup FramesOf(kernel).objects = kernel.used
      /\ Cardinality(kernel.used) = Sum([s \in Spaces |-> count(s)]) + Sum([o \in Objects |-> held(o)])

\* A page is mapped only inside a region with an object or at the claimed device, to the
\* page of that object, and with no right the region does not give.
MappingsAreRegions ==
  \A s \in Spaces : \A p \in DOMAIN kernel.spaces[s].entries :
    LET e == kernel.spaces[s].entries[p]
    IN  \/ p = DevicePage /\ kernel.spaces[s].device # "unclaimed" /\ e.frame = 0
        \/ \E r \in Registered(kernel, s) :
             LET g == kernel.regions[r]
                 i == g.offset + p - g.first
             IN  /\ p \in PagesOf(g) /\ g.object # 0 /\ e.prot \subseteq g.prot
                 /\ \/ kernel.objects[g.object].kind = "physical"
                    \/ i \in DOMAIN kernel.objects[g.object].pages
                 /\ e.frame = FrameOf(kernel, g.object, i)

\* The hart translates with a space that is alive, and has cached nothing that its
\* tables do not say.
TranslationsAreCurrent ==
  /\ kernel.satp = kernel.active
  /\ IF kernel.satp = 0 THEN tlb = Nothing
     ELSE /\ kernel.spaces[kernel.satp].used /\ kernel.spaces[kernel.satp].on
          /\ \A p \in DOMAIN tlb : IsMapped(kernel, kernel.satp, p)
                                   /\ tlb[p] = kernel.spaces[kernel.satp].entries[p]

\* An object counts the regions bound to it, and each region belongs to one task.
AttachmentsCounted ==
  /\ \A o \in Objects :
       kernel.objects[o].attached = Cardinality({r \in Regions : kernel.regions[r].object = o})
  /\ \A r \in Regions : kernel.regions[r].space # 0 =>
       Cardinality({t \in Tasks : r \in kernel.tasks[t].owns
                                  /\ kernel.tasks[t].space = kernel.regions[r].space}) = 1

\* What was stored to a page of an object is what it holds.
StoresAreKept ==
  \A o \in Objects : kernel.objects[o].kind # "none" =>
    \A i \in 0 .. kernel.objects[o].size - 1 : ContentsOf(kernel, o, i) = stored[o][i]

\* Programs exist as a whole or not at all, and only a task that can run is active.
ProgramsAreWhole ==
  /\ \A t \in Tasks :
       IF t \in kernel.created THEN Cardinality(kernel.tasks[t].owns) = 5
       ELSE t \notin kernel.foreign =>
            /\ kernel.tasks[t] = FreeTask
            /\ \A k \in {"exec", "stack", "alias", "anon"} : kernel.objects[Part(t, k)] = FreeObject
  /\ kernel.running # 0 =>
       /\ kernel.active = kernel.tasks[kernel.running].space
       /\ kernel.running \notin kernel.foreign => Runnable(kernel, kernel.running)

\* The memory of user programs: whatever creations and destructions failed half way, frames
\* are neither lost nor shared, mappings and cached translations lead to the page of the
\* object the program stored to.
VmSound ==
  kernel # KernelStart =>
    /\ FramesOwnedOnce
    /\ MappingsAreRegions
    /\ TranslationsAreCurrent
    /\ AttachmentsCounted
    /\ StoresAreKept
    /\ ProgramsAreWhole
=============================================================================
