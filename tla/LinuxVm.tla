------------------------------ MODULE LinuxVm ------------------------------
(***************************************************************************)
(* The memory of a Linux program in the guest                              *)
(* (guest/kernel/linux_compat_vm.c): brk, mmap, mremap, munmap, mprotect   *)
(* and the kernel's own reads and writes of user memory, over the regions  *)
(* and objects of GuestVm.  A slot of the layer holds one region and one   *)
(* object, so slot, region and object have the same number.  The layer's   *)
(* state (slots, program break, next address of a mapping) is kept in the  *)
(* kernel's record, its process is task 1.                                 *)
(*                                                                         *)
(* A program break is counted in half pages, the lengths of mappings in    *)
(* pages.  A file is two pages: the first is filled, the second is beyond  *)
(* its end.  The descriptors of the files are in LinuxFiles.               *)
(***************************************************************************)
EXTENDS GuestVm

CONSTANTS
  NumSlots,     \* VM_PROCESS_MAX_USER_REGIONS
  HeapPage,     \* LINUX_COMPAT_BRK_BASE
  MmapPage,     \* LINUX_COMPAT_MMAP_BASE
  Breaks,       \* breaks asked for, in half pages above the base
  Accessed,     \* pages the program and the kernel's copies are looked at
  Places        \* pages at which mappings are asked for; 0 for anywhere

ASSUME LinuxVmAssumption ==
  /\ NumSlots \in 1 .. NumRegions /\ NumSlots <= NumObjects
  /\ {HeapPage, MmapPage} \subseteq VmPages /\ Breaks \subseteq Nat
  /\ Accessed \subseteq VmPages /\ Places \subseteq VmPages \cup {0}

VARIABLE expected   \* what the program last put into each of its pages (history)

linuxVmVars == <<kernel, tlb, stored, expected>>

LinuxSlots == 1 .. NumSlots
FileByte == 2                            \* what the first page of a file holds
Bytes == [i \in 0 .. NumVmPages |-> IF i = 0 THEN FileByte ELSE 0]
FreeSlot == [used |-> FALSE, heap |-> FALSE, first |-> 0, size |-> 0, prot |-> {}, fixed |-> FALSE]

LinuxStart ==
  [CreateTask(KernelStart, 1) EXCEPT
     !.foreign = Tasks,
     !.data = [f \in DOMAIN KernelStart.data |->
                 IF \E o \in Objects : f = ImageFrame(o, 0) THEN FileByte ELSE KernelStart.data[f]]]
  @@ [slots |-> [s \in LinuxSlots |-> FreeSlot], break |-> 0, next |-> MmapPage]

\* prot_to_vm_flags and descriptor_prot_for_region
VmFlags(prot) == IF "w" \in prot THEN prot \cup {"r"} ELSE prot
Descriptor(prot) == VmFlags(IF prot = {} THEN {"r"} ELSE prot)

Range0(first, size) == first .. first + size - 1
Used(m) == {s \in LinuxSlots : m.slots[s].used}
UnusedSlots(m) == LinuxSlots \ Used(m)
LeastSlot(S) == CHOOSE s \in S : \A q \in S : s <= q
Available(m, first, size) ==   \* mmap_range_available
  /\ Range0(first, size) \subseteq VmPages
  /\ \A s \in Used(m) : PagesOf(m.slots[s]) \cap Range0(first, size) = {}
Exact(m, first, size) ==       \* find_exact_region, of mappings
  {s \in Used(m) : ~m.slots[s].heap /\ m.slots[s].first = first /\ m.slots[s].size = size}
Covering(m, first, size) ==    \* find_region_covering
  {s \in Used(m) : Range0(first, size) \subseteq PagesOf(m.slots[s])}

-----------------------------------------------------------------------------
(* Regions *)

ClearSlot(m, s) ==
  [m EXCEPT !.slots[s] = FreeSlot, !.regions[s] = FreeRegion, !.objects[s] = FreeObject]

\* Mutant: the region goes, its object's pages stay taken.
ReleaseRegionOnly(m, s) == Succeed(ClearSlot(RemoveRegion(m, 1, s), s))

\* release_region
ReleaseSlot(m, s) ==
  ClearSlot(ResetObject(IF s \in m.tasks[1].owns THEN RemoveRegion(m, 1, s) ELSE m, s), s)

SlotOn(m, s, first, size, prot, heap, fixed) ==
  [m EXCEPT !.slots[s] = [used |-> TRUE, heap |-> heap, first |-> first, size |-> size,
                          prot |-> prot, fixed |-> fixed]]

\* map_region: in the first free slot.
MapSlot(m, first, size, prot, heap, fixed, mode) ==
  LET s == LeastSlot(UnusedSlots(m))
      binding == [region |-> s, first |-> first, size |-> size, prot |-> VmFlags(prot),
                  object |-> s, offset |-> 0, mode |-> mode]
  IN  IF UnusedSlots(m) = {} \/ size = 0 \/ prot = {} THEN Fail(m)
      ELSE Then(InitAnon(m, s, size), LAMBDA n :
             Try(BindRegion(n, 1, binding),
                 LAMBDA x : SlotOn(x, s, first, size, prot, heap, fixed),
                 LAMBDA x : ClearSlot(ResetObject(x, s), s)))

InOrder(first, size) == [k \in 1 .. size |-> first + k - 1]

\* write_object_bytes of whole pages: bytes[i] to page first + i; stops where no frame is left.
WriteObject(m, o, first, size, bytes) ==
  FoldLeft(LAMBDA n, i : Then(n, LAMBDA x : Then(Resolve(x, o, i), LAMBDA y :
                           [y EXCEPT !.data[FrameOf(y, o, i)] = bytes[i - first]])),
           Succeed(m), InOrder(first, size))

\* Mutant: a private copy starts as zeros.
ConvertToZeros(m, s, prot) ==
  LET g == m.slots[s]
      merged == g.prot \cup prot
      binding == [region |-> s, first |-> g.first, size |-> g.size, prot |-> VmFlags(merged),
                  object |-> s, offset |-> 0, mode |-> "fault"]
  IN  Then(InitAnon([RemoveRegion(m, 1, s) EXCEPT !.objects[s] = FreeObject], s, g.size), LAMBDA n :
        SlotOn(BindRegion(n, 1, binding), s, g.first, g.size, merged, FALSE, g.fixed))

\* convert_region_to_private_anon: the copy is complete before the file's region goes.
ConvertToAnon(m, s, prot) ==
  LET g == m.slots[s]
      merged == g.prot \cup prot
      binding == [region |-> s, first |-> g.first, size |-> g.size, prot |-> VmFlags(merged),
                  object |-> s, offset |-> 0, mode |-> "fault"]
      gone == [RemoveRegion(m, 1, s) EXCEPT !.objects[s] = FreeObject]
  IN  Try(Then(InitAnon(gone, s, g.size), LAMBDA n :
                 WriteObject(n, s, 0, g.size, [i \in 0 .. g.size - 1 |-> m.data[ImageFrame(s, i)]])),
          LAMBDA n : SlotOn(BindRegion(n, 1, binding), s, g.first, g.size, merged, FALSE, g.fixed),
          LAMBDA n : m)

\* remap_existing_region_pages: one page after the other, until one fails.
RemapPages(m, s, first, size, prot) ==
  LET space == m.tasks[1].space
      remap(n, p) ==
        LET i == p - n.slots[s].first
            bare == IF IsMapped(n, space, p) THEN FlushIfEnabled(UnmapPage(n, space, p))
                    ELSE Succeed(n)
        IN  Then(Then(bare, LAMBDA x : Resolve(x, s, i)), LAMBDA x :
              MapPage(x, space, p, FrameOf(x, s, i), VmFlags(prot)))
      merged == m.slots[s].prot \cup prot
  IN  IF prot = {} THEN Fail(m)
      ELSE Then(FoldLeft(LAMBDA n, p : Then(n, LAMBDA x : remap(x, p)), Succeed(m),
                         InOrder(first, size)), LAMBDA n :
             [FlushIfEnabled(n) EXCEPT !.slots[s].prot = merged,
                                       !.regions[s].prot = VmFlags(merged)])

-----------------------------------------------------------------------------
(* Calls.  Each returns the kernel's record; m.at is the page it mapped.   *)

\* linux_compat_vm_brk: a heap of another length is a new one.
Brk(m, break) ==
  LET size == (break + 1) \div 2
      heap == {s \in Used(m) : m.slots[s].heap}
      released == IF heap = {} THEN Succeed(m) ELSE ReleaseSlot(m, LeastSlot(heap))
      moved(n) == [n EXCEPT !.break = break]
  IN  IF heap # {} /\ m.slots[LeastSlot(heap)].size = size THEN moved(Succeed(m))
      ELSE Then(released, LAMBDA n :
             IF size = 0 THEN moved(n)
             ELSE Then(MapSlot(n, HeapPage, size, {"r", "w"}, TRUE, FALSE, "mapped"), moved))

\* Where map_mmap_region and map_physical_mmap_region put a mapping; 0 for nowhere.
Address(m, place, size, fixed) ==
  LET at == IF place = 0 THEN m.next ELSE place
      others == {p \in m.next .. NumVmPages : Available(m, p, size)}
  IN  IF ~Range0(at, size) \subseteq VmPages THEN 0
      ELSE IF fixed \/ Available(m, at, size) THEN at
      ELSE IF others = {} THEN 0 ELSE LeastSlot(others)

Advance(m, at, size, fixed) ==
  [m EXCEPT !.next = IF ~fixed /\ at + size > @ THEN at + size ELSE @]

\* map_mmap_region
MapAnon(m, place, size, prot, fixed) ==
  LET at == Address(m, place, size, fixed)
  IN  IF at = 0 THEN Fail(m)
      ELSE Then(MapSlot(m, at, size, prot, FALSE, fixed, "fault"), LAMBDA n :
             Advance(n, at, size, fixed))

\* map_physical_mmap_region: the file's own pages.
MapPhysical(m, place, size, prot, fixed) ==
  LET at == Address(m, place, size, fixed)
      s == LeastSlot(UnusedSlots(m))
      binding == [region |-> s, first |-> at, size |-> size, prot |-> prot,
                  object |-> s, offset |-> 0, mode |-> "fault"]
  IN  IF prot = {} \/ at = 0 \/ UnusedSlots(m) = {} THEN Fail(m)
      ELSE Try(BindRegion(InitPhysical(m, s, size), 1, binding),
               LAMBDA n : Advance(SlotOn(n, s, at, size, prot, FALSE, fixed), at, size, fixed),
               LAMBDA n : ClearSlot(ResetObject(n, s), s))

\* mmap_fixed_prot_none: what is mapped there goes, the region stays.
MapNone(m, first, size) ==
  LET space == m.tasks[1].space
  IN  IF ~Range0(first, size) \subseteq VmPages THEN Fail(m)
      ELSE LET bare == WithoutPages(Succeed(m), space, Range0(first, size))
           IN  IF bare.spaces = m.spaces THEN bare ELSE FlushIfEnabled(bare)

\* Mutant: what the file does not fill keeps what was there.
OverwriteUnzeroed(m, s, first, size, prot) ==
  LET private == IF m.objects[s].kind = "physical" THEN ConvertToAnon(m, s, prot) ELSE Succeed(m)
  IN  Then(Then(private, LAMBDA n : WriteObject(n, s, first - n.slots[s].first, 1, Bytes)),
           LAMBDA n : RemapPages(n, s, first, size, prot))

\* mmap_file_fixed_existing, of a region that covers the pages.
Overwrite(m, s, first, size, prot) ==
  LET private == IF m.objects[s].kind = "physical" THEN ConvertToAnon(m, s, prot) ELSE Succeed(m)
      zeroed == Then(private, LAMBDA n :
                  WriteObject(n, s, first - n.slots[s].first, size, [i \in 0 .. size - 1 |-> 0]))
  IN  Then(Then(zeroed, LAMBDA n : WriteObject(n, s, first - n.slots[s].first, 1, Bytes)),
           LAMBDA n : RemapPages(n, s, first, size, prot))

\* linux_compat_vm_mmap_file; the data of a file may be aligned to a page.
MapFile(m, place, size, prot, fixed, aligned) ==
  LET over == IF fixed /\ place # 0 THEN Covering(m, place, size) ELSE {}
      s == LeastSlot(UnusedSlots(m))
  IN  IF over # {} THEN Overwrite(m, LeastSlot(over), place, size, prot)
      ELSE IF aligned /\ "w" \notin prot THEN MapPhysical(m, place, size, prot, fixed)
      ELSE Then(MapAnon(m, place, size, prot, fixed), LAMBDA n :
             OrElse(WriteObject(n, s, 0, 1, Bytes), LAMBDA x : ReleaseSlot(x, s)))

\* move_anon_pages_to_region: a page of the new region must have been mapped.
MovePages(m, old, new, size) ==
  LET space == m.tasks[1].space
      move(n, i) ==
        LET p == n.slots[new].first + i
            unmapped == UnmapPage(n, space, p)
            freed == IF i \in DOMAIN n.objects[new].pages
                     THEN ReturnFrames(unmapped, {n.objects[new].pages[i]}) ELSE unmapped
            moved == [freed EXCEPT !.objects[new].pages = (i :> n.objects[old].pages[i]) @@ @,
                                   !.objects[old].pages = Restrict(@, DOMAIN @ \ {i})]
        IN  IF i \notin DOMAIN n.objects[old].pages THEN n
            ELSE IF unmapped.ok /\ freed.ok
            THEN MapPage(moved, space, p, n.objects[old].pages[i], n.regions[new].prot)
            ELSE Fail(n)
  IN  IF m.objects[old].kind # "anon" THEN Fail(m)
      ELSE Then(FoldLeft(LAMBDA n, i : Then(n, LAMBDA x : move(x, i)), Succeed(m),
                         InOrder(0, size)), FlushIfEnabled)

\* linux_compat_vm_mremap, allowed to move.
Remap(m, first, size, newSize) ==
  LET exact == Exact(m, first, size)
      old == LeastSlot(exact)
      new == LeastSlot(UnusedSlots(m))
  IN  IF newSize <= size THEN Succeed(m)
      ELSE IF exact = {} THEN Fail(m)
      ELSE Then(MapAnon(m, 0, newSize, m.slots[old].prot, m.slots[old].fixed), LAMBDA n :
             Try(MovePages(n, old, new, size),
                 LAMBDA x : ReleaseSlot(x, old), LAMBDA x : ReleaseSlot(x, new)))

\* linux_compat_vm_munmap: of a mapping as a whole.
Munmap(m, first, size) ==
  LET exact == Exact(m, first, size)
  IN  IF exact = {} THEN Fail(m) ELSE ReleaseSlot(m, LeastSlot(exact))

\* Mutant: translations with the rights the region had stay.
ProtectLater(m, first, size, prot) ==
  LET s == LeastSlot(Covering(m, first, size))
  IN  IF Covering(m, first, size) = {} THEN Fail(m)
      ELSE [Succeed(m) EXCEPT !.slots[s].prot = prot, !.regions[s].prot = Descriptor(prot)]

\* linux_compat_vm_mprotect: a part of a region keeps the rights it has.
Protect(m, first, size, prot) ==
  LET over == Covering(m, first, size)
      s == LeastSlot(over)
      pages == Range0(first, size)
      bare == WithoutPages(m, m.tasks[1].space, pages)
  IN  IF over = {} THEN Fail(m)
      ELSE IF PagesOf(m.slots[s]) # pages
      THEN IF prot = {} \/ ~prot \subseteq m.slots[s].prot THEN Fail(m) ELSE Succeed(m)
      ELSE [(IF bare = m THEN Succeed(m) ELSE FlushIfEnabled(Succeed(bare))) EXCEPT
              !.slots[s].prot = prot, !.regions[s].prot = Descriptor(prot)]

\* linux_compat_vm_read_user and _write_user, of one page: a page is made for a read too.
ReadUser(m, p) ==
  LET at == {s \in Covering(m, p, 1) : m.slots[s].prot \cap {"r", "w"} # {}}
  IN  IF at = {} THEN Fail(m)
      ELSE Resolve(m, LeastSlot(at), p - m.slots[LeastSlot(at)].first)

WriteUser(m, p) ==
  LET at == {s \in Covering(m, p, 1) : "w" \in m.slots[s].prot}
      s == LeastSlot(at)
  IN  IF at = {} THEN Fail(m) ELSE WriteObject(m, s, p - m.slots[s].first, 1, 0 :> 1)

\* linux_compat_vm_destroy, of what a program leaves behind.
ReleaseAll(m) ==
  LET bare == FoldSet(LAMBDA s, n : ReleaseSlot(n, s), m, Used(m))
  IN  [Succeed(bare) EXCEPT !.break = 0, !.next = MmapPage]

\* linux_compat_vm_map_fixed of the text and the stack, and the entry into the program.
ExecProgram(m) ==
  LET text == MapSlot(m, 1, 1, {"r", "x"}, FALSE, FALSE, "mapped")
      stack == Then(text, LAMBDA n : MapSlot(n, NumVmPages, 1, {"r", "w"}, FALSE, FALSE, "mapped"))
  IN  OrElse(Then(Then(stack, LAMBDA n : Prepare(n, 1, 1, NumVmPages)), LAMBDA n : Activate(n, 1)),
             ReleaseAll)

-----------------------------------------------------------------------------
(* Steps *)

PageIn(m, p) == LeastSlot(Covering(m, p, 1))
InUse(m, p) == Covering(m, p, 1) # {}
ContentsAt(m, p) == ContentsOf(m, PageIn(m, p), p - m.slots[PageIn(m, p)].first)

\* Pages P are new to the program or given new contents by the call: what it finds there
\* is what was promised.  All the others it has must hold what it put there.
LinuxCall(m, P, promised(_)) ==
  /\ Call(m)
  /\ stored' = Held(m)
  /\ expected' = [p \in VmPages |->
                    IF ~InUse(m, p) THEN "none" ELSE IF p \in P THEN promised(p) ELSE expected[p]]

\* A call that fails promises nothing of the pages it was about.
Promise(m, P, promised(_)) ==
  LinuxCall(m, P, LAMBDA p : IF m.ok THEN promised(p) ELSE ContentsAt(m, p))

\* The pages of the slot a call takes, or that it changed.
Changed(m) == UNION {PagesOf(m.slots[s]) : s \in {q \in LinuxSlots : m.slots[q] # kernel.slots[q]}}

\* What the call made is promised by it.
LinuxMapCall(m, promised(_)) == LinuxCall(m, Changed(m), promised)

BrkCall == \E b \in Breaks : LinuxMapCall(Brk(kernel, b), LAMBDA p : 0)

MmapCall == \E place \in Places, size \in {1, 2} : \E fixed \in {FALSE, place # 0} :
  LinuxMapCall(MapAnon(kernel, place, size, {"r", "w"}, fixed), LAMBDA p : 0)

NoneCall == \E place \in Places \ {0} : LinuxCall(MapNone(kernel, place, 1), {}, LAMBDA p : 0)

\* Pages of a file were mapped, over pages P of a region or as a mapping of their own.
FileMapped(m, P, over) ==
  LET first == CHOOSE p \in P : \A q \in P : p <= q
      file(p) == IF over \/ m.objects[PageIn(m, first)].kind = "anon" THEN Bytes[p - first]
                 ELSE kernel.data[ImageFrame(PageIn(m, first), p - first)]
  IN  Promise(m, P, file)

FileMapCall(m, place, size, over) ==
  FileMapped(m, IF over THEN Range0(place, size) ELSE Changed(m), over)

\* Two pages of a file, whose data is aligned or not; one or two over those of a region.
MmapFileCall ==
  \E place \in Places, how \in {<<{"r"}, TRUE>>, <<{"r"}, FALSE>>, <<{"r", "w"}, FALSE>>} :
    \E fixed \in {FALSE, place # 0} : \E size \in (IF fixed THEN {1, 2} ELSE {2}) :
      FileMapCall(MapFile(kernel, place, size, how[1], fixed, how[2]), place, size,
                  fixed /\ Covering(kernel, place, size) # {})

Remapped(m, first, size) ==
  LinuxMapCall(m, LAMBDA p :
    LET old == first + p - m.slots[PageIn(m, p)].first
    IN  IF old < first + size THEN expected[old] ELSE 0)

MremapCall(first, size, newSize) == Remapped(Remap(kernel, first, size, newSize), first, size)

MunmapCall(first, size) == LinuxCall(Munmap(kernel, first, size), {}, LAMBDA p : 0)

ProtectCall(first, size) == \E prot \in {{}, {"r"}, {"r", "w"}} :
  LinuxCall(Protect(kernel, first, size, prot), {}, LAMBDA p : 0)

CopyUserCall == \E p \in Accessed :
  \/ LinuxCall(ReadUser(kernel, p), {}, LAMBDA q : 0)
  \/ Promise(WriteUser(kernel, p), {p}, LAMBDA q : 1)

\* Calls about anonymous memory, and about files.
AnonymousCall ==
  \/ BrkCall \/ MmapCall
  \/ \E first \in Accessed, size \in {1, 2} : MremapCall(first, size, 2)

FileCall ==
  \/ NoneCall \/ MmapFileCall
  \/ \E first \in Accessed, size \in {1, 2} : ProtectCall(first, size)

SystemCall ==
  /\ kernel.running = 1
  /\ \/ AnonymousCall \/ FileCall \/ CopyUserCall
     \/ \E first \in Accessed, size \in {1, 2} : MunmapCall(first, size)

ExecStep == kernel.running = 0 /\ LinuxCall(ExecProgram(kernel), VmPages, LAMBDA p : 0)

\* The program exits or is stopped by a fault nobody handles.
ExitStep ==
  /\ kernel.running = 1
  /\ LinuxCall(ReleaseAll(Deactivate(kernel, 1)), {}, LAMBDA p : 0)

\* The program itself; a store it may do changes what it expects.
ProgramAccess == \E p \in Accessed, need \in {"r", "w"} :
  /\ UserAccess(p, need)
  /\ expected' = IF need = "w" /\ Translated(p) /\ "w" \in Translation(p).prot
                 THEN [expected EXCEPT ![p] = 1] ELSE expected

LinuxVmInit ==
  /\ kernel = LinuxStart
  /\ tlb = Nothing
  /\ stored = Held(LinuxStart)
  /\ expected = [p \in VmPages |-> "none"]

LinuxVmNext == ExecStep \/ ExitStep \/ SystemCall \/ ProgramAccess

LinuxVmSpec == LinuxVmInit /\ [][LinuxVmNext]_linuxVmVars

-----------------------------------------------------------------------------
(* Properties *)

\* The layer's table and the kernel's say the same of a mapping.
SlotsAgree(m) ==
  /\ m.tasks[1].owns = Used(m)
  /\ \A s \in Used(m) :
       LET g == m.slots[s]
           r == m.regions[s]
       IN  /\ r.first = g.first /\ r.size = g.size /\ r.object = s
           /\ m.objects[s].size = g.size
           /\ r.prot = Descriptor(g.prot)
  /\ \A s, q \in Used(m) : m.slots[s].heap /\ m.slots[q].heap => s = q
  /\ \A s \in UnusedSlots(m) : m.objects[s] = FreeObject

\* The program finds in each of its pages what it, or the call that made the page, put
\* there: no other mapping, no failed call and no move of a page shows in it.
ContentsAreExpected(m) ==
  \A p \in VmPages : expected[p] = (IF InUse(m, p) THEN ContentsAt(m, p) ELSE "none")

\* Whatever a Linux program maps, moves, protects and unmaps, and wherever frames run out.
LinuxMemorySound ==
  kernel.foreign # {} => SlotsAgree(kernel) /\ ContentsAreExpected(kernel)

\* tests/unit/course_os_stage9_linux_compat_vm.c:887: growing a mapping that may move
\* succeeds, provided slots, addresses and frames are left.
MremapGrows ==
  [][\A s \in Used(kernel) :
       LET g == kernel.slots[s]
       IN  /\ kernel.running = 1 /\ ~g.heap /\ g.size = 1 /\ g.prot = {"r", "w"}
           /\ kernel.objects[s].kind = "anon"
           /\ UnusedSlots(kernel) # {} /\ Available(kernel, kernel.next, 2)
           /\ kernel.used # Frames
           /\ MremapCall(g.first, 1, 2)
           => Remap(kernel, g.first, 1, 2).ok]_linuxVmVars
=============================================================================
