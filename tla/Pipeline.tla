------------------------------ MODULE Pipeline ------------------------------
(***************************************************************************)
(* The pipeline backend (src/myCPU/src/exec/pipeline_backend_*.cpp): fetch,*)
(* decode/rename, execute, memory and in-order write-back, with register   *)
(* renaming, a reorder buffer, a load/store queue and branch prediction.   *)
(*                                                                         *)
(* One action, Cycle, is one call of PipelineBackend::step.  As in the     *)
(* code it runs write-back first and fetch last: the stage functions below *)
(* take the machine as the stages before them left it and return it as     *)
(* they leave it.  The next_* latches exist only while a cycle runs.       *)
(*                                                                         *)
(* Abstraction.  Sequence ids, RobIndex and LsqIndex grow without bound in *)
(* the code and are only compared; here an instruction in flight has a tag *)
(* no other one has, and its age is its place in the reorder buffer.       *)
(* Floating point, vectors, counters and instruction sizes are left out.   *)
(***************************************************************************)
EXTENDS Machine, SequencesExt

CONSTANTS
  Starts,       \* what the loader may leave: an architectural state and a program
  NumPhys,      \* physical registers modelled; the file grows on demand
  TableSize,    \* predictor entries, 64 in the code
  RobBound,     \* the most instructions ever in flight
  LsqBound      \* the most loads and stores ever in flight

ASSUME PipelineAssumption ==
  /\ NumPhys \in Nat /\ NumPhys > NumArch
  /\ TableSize \in Nat \ {0}
  /\ RobBound \in Nat \ {0} /\ LsqBound \in Nat \ {0}
  /\ \A s \in Starts :
       s.cpu \in CpuState /\ s.program \in [DOMAIN s.program -> Instruction]

VARIABLES
  cpu,          \* architectural state (CPU and Bus)
  pipe,         \* PipelineCoreState
  predictor,    \* BranchPredictor
  irq,          \* an enabled interrupt is pending in mip
  program       \* instruction memory

vars == <<cpu, pipe, predictor, irq, program>>

NoSlot == [valid |-> FALSE]
Phys == 0 .. NumPhys - 1

-----------------------------------------------------------------------------
\* RenameMap, as RenameMap.tla has it but with the free lists in their order.
InitialRename ==
  [arch |-> [a \in Gprs |-> a], spec |-> [a \in Gprs |-> a],
   commFree |-> << >>, specFree |-> << >>, next |-> NumArch]

Recycle(phys, free) ==
  IF phys = 0 \/ Contains(free, phys) THEN free ELSE Append(free, phys)

RenameDest(r, arch) ==
  LET recycled == r.specFree # << >>
      phys == IF recycled THEN Last(r.specFree) ELSE r.next
  IN  [phys |-> phys,
       map |-> [r EXCEPT !.spec[arch] = phys,
                         !.specFree = IF recycled THEN Front(@) ELSE @,
                         !.next = IF recycled THEN @ ELSE @ + 1]]

\* Mutant: the committed register stays on the committed free list.
CommitLeavesOnFreeList(r, arch, phys) ==
  LET stale == r.arch[arch]
      freed(free) == IF stale = phys THEN free ELSE Recycle(stale, free)
  IN  [r EXCEPT !.arch[arch] = phys, !.commFree = freed(@), !.specFree = freed(@)]

CommitDest(r, arch, phys) ==
  LET stale == r.arch[arch]
      freed(free) == LET kept == SelectSeq(free, LAMBDA p : p # phys)
                     IN  IF stale = phys THEN kept ELSE Recycle(stale, kept)
  IN  [r EXCEPT !.arch[arch] = phys, !.commFree = freed(@), !.specFree = freed(@)]

RollbackRename(r) ==
  [r EXCEPT !.spec = r.arch, !.specFree = r.commFree,
            !.next = 1 + Max({NumArch - 1} \cup Range(r.arch) \cup Range(r.commFree))]

\* Mutant: the values are put back where reset put them.
CommittedPhysAsReset(r, gpr) ==
  [p \in Phys |-> [value |-> IF p \in Gprs THEN gpr[p] ELSE 0,
                   ready |-> p \in Range(r.arch) \/ p < NumArch]]

\* PhysicalRegisterFile after reset and rebuild_committed_phys_state.
CommittedPhys(r, gpr) ==
  [p \in Phys |->
     IF \E a \in Gprs : r.arch[a] = p
     THEN [value |-> gpr[CHOOSE a \in Gprs : r.arch[a] = p], ready |-> TRUE]
     ELSE [value |-> 0, ready |-> p < NumArch]]

\* Mutant: a register handed out again keeps its old value and ready bit.
SetPendingForgotten(phys, p) == phys

SetPending(phys, p) == IF p = 0 THEN phys ELSE [phys EXCEPT ![p].ready = FALSE]
\* Mutant: the value is written without the ready bit.
WritePhysUnready(phys, p, value) == [phys EXCEPT ![p].value = value]

WritePhys(phys, p, value) == [phys EXCEPT ![p] = [value |-> value, ready |-> TRUE]]

-----------------------------------------------------------------------------
\* The machine `m' inside a cycle: the variables, the next_* latches, and
\* redirect_pending.
Begin(line) ==
  [cpu |-> cpu, predictor |-> predictor, irq |-> line,
   fetchPc |-> pipe.fetchPc, fault |-> pipe.fault,
   ifId |-> pipe.ifId, idEx |-> pipe.idEx, exMem |-> pipe.exMem, memWb |-> pipe.memWb,
   exMemCycles |-> pipe.exMemCycles, rename |-> pipe.rename, phys |-> pipe.phys,
   rob |-> pipe.rob, lsq |-> pipe.lsq, committed |-> FALSE, trapFlush |-> FALSE,
   nextIfId |-> NoSlot, nextIdEx |-> NoSlot, nextExMem |-> NoSlot, nextMemWb |-> NoSlot,
   nextExMemCycles |-> 0, redirect |-> FALSE]

\* Mutant: the instruction waiting for memory survives a flush.
FlushKeepsMemory(m) ==
  [m EXCEPT !.ifId = NoSlot, !.idEx = NoSlot, !.memWb = NoSlot,
            !.nextIfId = NoSlot, !.nextIdEx = NoSlot,
            !.nextExMem = NoSlot, !.nextMemWb = NoSlot, !.nextExMemCycles = 0,
            !.fetchPc = m.cpu.pc, !.fault = None, !.redirect = FALSE]

\* PipelineCoreState::flush.
Flush(m) ==
  [m EXCEPT !.ifId = NoSlot, !.idEx = NoSlot, !.exMem = NoSlot, !.memWb = NoSlot,
            !.exMemCycles = 0, !.nextIfId = NoSlot, !.nextIdEx = NoSlot,
            !.nextExMem = NoSlot, !.nextMemWb = NoSlot, !.nextExMemCycles = 0,
            !.fetchPc = m.cpu.pc, !.fault = None, !.redirect = FALSE]

\* rollback_to_committed_state, always followed by flush.
Squash(m) ==
  Flush([m EXCEPT !.rename = RollbackRename(@), !.rob = << >>, !.lsq = << >>,
                  !.phys = CommittedPhys(m.rename, m.cpu.gpr)])

RobAt(m, tag) == CHOOSE i \in DOMAIN m.rob : m.rob[i].tag = tag
AtHead(m, tag) == m.rob # << >> /\ Head(m.rob).tag = tag
Older(m, tag1, tag2) == RobAt(m, tag1) < RobAt(m, tag2)

MarkReady(m, tag, eff) ==
  [m EXCEPT !.rob[RobAt(m, tag)] = [@ EXCEPT !.ready = TRUE, !.eff = eff]]

-----------------------------------------------------------------------------
\* LoadStoreQueue.

\* classify_load: an older store whose address is unknown, or which overlaps
\* and has not reached the memory stage, keeps the load in decode.
LoadBlocked(m, addr, size) ==
  \E i \in DOMAIN m.lsq : LET e == m.lsq[i] IN
     /\ e.kind = "store"
     /\ \/ ~e.addrReady
        \/ /\ ~e.orderReady
           /\ Region(e.addr, e.size) = "ram"
           /\ Overlap(e.addr, e.size, addr, size)

\* mark_address_ready and mark_data_ready of a store: a younger load that has
\* already read an overlapping range is marked for replay.
StoreResolved(m, tag, eff) ==
  [i \in DOMAIN m.lsq |-> LET e == m.lsq[i] IN
     IF e.tag = tag
     THEN [e EXCEPT !.addrReady = TRUE, !.addr = eff.addr,
                    !.dataReady = TRUE, !.data = eff.data]
     ELSE IF /\ e.kind = "load" /\ e.orderReady /\ Older(m, tag, e.tag)
             /\ Overlap(e.addr, e.size, eff.addr, eff.size)
          THEN [e EXCEPT !.replay = TRUE] ELSE e]

SetOrderReady(lsq, tag) ==
  [i \in DOMAIN lsq |->
     IF lsq[i].tag = tag
     THEN [lsq[i] EXCEPT !.dataReady = TRUE, !.orderReady = TRUE] ELSE lsq[i]]

\* forwardable_load: the youngest older store that overlaps, if it covers the
\* load and if it and every store between the two have been through memory.
ForwardedValue(m, tag, addr, size) ==
  LET stores == {i \in DOMAIN m.lsq :
                   m.lsq[i].kind = "store" /\ Older(m, m.lsq[i].tag, tag)}
      hits == {i \in stores : LET e == m.lsq[i] IN
                 \/ ~(e.addrReady /\ e.dataReady /\ e.orderReady)
                 \/ /\ Region(e.addr, e.size) = "ram"
                    /\ Overlap(e.addr, e.size, addr, size)}
  IN  IF hits = {} \/ Region(addr, size) # "ram" THEN None
      ELSE LET e == m.lsq[Max(hits)] IN
           IF e.orderReady /\ e.addr <= addr /\ addr + size <= e.addr + e.size
           THEN IF size = 2 THEN e.data
                ELSE IF addr = e.addr THEN e.data % 2 ELSE e.data \div 2
           ELSE None

-----------------------------------------------------------------------------
\* step_wb: commit the reorder buffer's head, if it is ready.  A trap, a trap
\* return or a halt discards everything younger.
WriteBack(m, lineAfterMmio) ==
  IF m.rob = << >> \/ ~Head(m.rob).ready THEN m
  ELSE LET head == Head(m.rob)
           eff == [head.eff EXCEPT !.mem = IF @ = "load" THEN "none" ELSE @, !.rd = None]
           result == CommitBoundary(m.cpu, head.pc, head.arch, eff)
           renamed == result.retired /\ head.arch # 0 /\ head.phys # 0
           committed ==
             [m EXCEPT
                !.cpu = IF renamed
                        THEN WriteGpr(result.cpu, head.arch, m.phys[head.phys].value)
                        ELSE result.cpu,
                !.rename = IF renamed THEN CommitDest(@, head.arch, head.phys) ELSE @,
                !.lsq = IF result.retired
                        THEN SelectSeq(@, LAMBDA e : ~(/\ e.tag = head.tag
                                                       /\ e.addrReady
                                                       /\ e.dataReady
                                                       /\ e.orderReady))
                        ELSE @,
                !.rob = IF result.retired THEN Tail(@) ELSE @,
                !.irq = IF result.mmio THEN lineAfterMmio ELSE @,
                !.committed = result.retired]
       IN  IF result.flush THEN [Squash(committed) EXCEPT !.trapFlush = TRUE]
           ELSE committed

\* try_replay_flush.
ReplayPending(m) == \E i \in DOMAIN m.lsq : m.lsq[i].replay

\* has_serviceable_interrupt.
Serviceable(m) == m.irq /\ Interruptible(m.cpu)

\* Mutant: a fetch fault is delivered as soon as write-back has a free cycle.
FetchFaultEarly(m) == m.fault # None /\ ~m.committed

\* try_commit_fetch_fault: only once everything older is gone.
FetchFaultDue(m) ==
  /\ m.fault # None
  /\ ~m.committed
  /\ ~m.ifId.valid /\ ~m.idEx.valid /\ ~m.exMem.valid
  /\ m.rob = << >>

\* Mutant: an interrupt waits for the pipeline to drain.
InterruptWhenDrained(m, atStart) ==
  Serviceable(m) /\ ~m.committed /\ m.rob = << >> /\ ~m.ifId.valid

\* try_service_interrupt_at_commit_boundary.
InterruptDue(m, atStart) ==
  /\ Serviceable(m)
  /\ IF m.committed THEN atStart
     ELSE /\ ~m.ifId.valid /\ ~m.idEx.valid /\ ~m.exMem.valid /\ ~m.memWb.valid
          /\ m.rob = << >> /\ m.lsq = << >>

TrapAtBoundary(m, atStart) ==
  IF FetchFaultDue(m)
  THEN [Flush([m EXCEPT !.cpu = EnterTrap([@ EXCEPT !.pc = m.fault], "fetchFault")])
          EXCEPT !.trapFlush = TRUE]
  ELSE IF InterruptDue(m, atStart)
  THEN [Squash([m EXCEPT !.cpu = EnterTrap(@, "interrupt"), !.irq = FALSE])
          EXCEPT !.trapFlush = TRUE]
  ELSE m

-----------------------------------------------------------------------------
\* step_mem: the load or store at the end of its wait reads memory or becomes
\* ordered, and is ready to commit.  A store writes memory only at write-back.
MemoryStage(m) ==
  LET slot == m.exMem
      eff == slot.eff
      forwarded == ForwardedValue(m, slot.tag, eff.addr, eff.size)
      value == IF forwarded # None THEN forwarded ELSE Loaded(m.cpu, eff.addr, eff.size)
      loaded == [eff EXCEPT !.mem = "none", !.rd = value]
      ordered == [m EXCEPT !.lsq = SetOrderReady(@, slot.tag)]
      leave(n, e) == MarkReady([n EXCEPT !.nextMemWb = [slot EXCEPT !.eff = e]],
                               slot.tag, e)
  IN  IF ~slot.valid THEN m
      ELSE IF m.exMemCycles # 0
      THEN [m EXCEPT !.nextExMem = slot, !.nextExMemCycles = m.exMemCycles - 1]
      ELSE IF eff.mem = "store" THEN leave(ordered, eff)
      ELSE IF Region(eff.addr, eff.size) = "unmapped"
      THEN leave(m, [eff EXCEPT !.trap = "loadFault"])
      ELSE leave([ordered EXCEPT
                    !.cpu = IF forwarded # None THEN @
                            ELSE AfterLoad(@, eff.addr, eff.size),
                    !.phys = IF slot.rd = 0 THEN @ ELSE WritePhys(@, slot.rd, value)],
                 loaded)

-----------------------------------------------------------------------------
\* BranchPredictor: query at fetch and update at execute.
Prediction(table, pc, insn) ==
  LET entry == table[pc % TableSize]
      hit == entry.valid /\ entry.pc = pc /\ entry.counter >= 2
  IN  CASE insn.op = "branch" /\ hit -> entry.target
        [] insn.op = "jal" -> insn.imm
        [] OTHER -> None

Trained(table, pc, insn, target) ==
  LET entry == table[pc % TableSize]
      hit == entry.valid /\ entry.pc = pc
      counter == IF hit THEN entry.counter ELSE 1
      old == IF hit THEN entry.target ELSE IF target = None THEN pc + 1 ELSE target
  IN  IF insn.op # "branch" THEN table
      ELSE [table EXCEPT ![pc % TableSize] =
              IF target # None
              THEN [valid |-> TRUE, pc |-> pc, target |-> target,
                    counter |-> IF counter = 3 THEN 3 ELSE counter + 1]
              ELSE [valid |-> TRUE, pc |-> pc, target |-> old,
                    counter |-> IF counter = 0 THEN 0 ELSE counter - 1]]

\* resolve_ex_operand: the latched value unless a later latch carries a newer one.
Operand(m, phys, latched) ==
  LET carries(slot) == slot.valid /\ phys # 0 /\ slot.rd = phys /\ slot.eff.rd # None
  IN  IF carries(m.exMem) THEN m.exMem.eff.rd
      ELSE IF carries(m.memWb) THEN m.memWb.eff.rd ELSE latched

\* Mutant: without the test that the memory path is free.
IssueWhileBusy(m, slot) ==
  slot.eff.mem = "load" /\ Region(slot.eff.addr, slot.eff.size) # "ram" =>
    AtHead(m, slot.tag)

\* A load or store leaves execute when the memory path is free; a load that is not
\* plainly of RAM also waits until it is the oldest instruction.
MayIssue(m, slot) ==
  /\ slot.eff.mem = "load" /\ Region(slot.eff.addr, slot.eff.size) # "ram" =>
       AtHead(m, slot.tag)
  /\ ~m.exMem.valid /\ ~m.nextExMem.valid

IssueToMemory(m, slot) ==
  LET eff == slot.eff
      entry == [tag |-> slot.tag, kind |-> "load", addr |-> eff.addr, size |-> eff.size,
                addrReady |-> TRUE, dataReady |-> FALSE, orderReady |-> FALSE,
                data |-> 0, replay |-> FALSE]
  IN  IF ~MayIssue(m, slot)
      THEN [m EXCEPT !.nextIdEx = m.idEx]
      ELSE [m EXCEPT !.nextExMem = slot,
                     !.nextExMemCycles =
                       IF Region(eff.addr, eff.size) = "mmio" THEN 0 ELSE 1,
                     !.lsq = IF eff.mem = "load" THEN Append(@, entry)
                             ELSE StoreResolved(m, slot.tag, eff)]

\* Mutant: only what passes through the write-back latch writes its register.
CompleteWithLatch(m, slot) ==
  MarkReady([m EXCEPT
               !.phys = IF slot.rd # 0 /\ slot.eff.rd # None /\ ~m.nextMemWb.valid
                        THEN WritePhys(@, slot.rd, slot.eff.rd) ELSE @,
               !.nextMemWb = IF m.nextMemWb.valid THEN @ ELSE slot],
            slot.tag, slot.eff)

\* Every other instruction completes in execute.
CompleteInExecute(m, slot) ==
  MarkReady([m EXCEPT
               !.phys = IF slot.rd # 0 /\ slot.eff.rd # None
                        THEN WritePhys(@, slot.rd, slot.eff.rd) ELSE @,
               !.nextMemWb = IF m.nextMemWb.valid THEN @ ELSE slot],
            slot.tag, slot.eff)

\* Mutant: what was fetched behind the transfer stays in its latch.
ResolveKeepsFetched(m, slot) ==
  LET target == slot.eff.target
      trained == [m EXCEPT !.predictor = Trained(@, slot.pc, slot.insn, target)]
  IN  IF slot.insn.op \notin ControlFlow \/ slot.predicted = target THEN trained
      ELSE [trained EXCEPT !.fetchPc = IF target = None THEN slot.pc + 1 ELSE target]

\* Mutant: a branch predicted taken that falls through is taken for correct.
ResolveTakenOnly(m, slot) ==
  LET target == slot.eff.target
      trained == [m EXCEPT !.predictor = Trained(@, slot.pc, slot.insn, target)]
  IN  IF slot.insn.op \notin ControlFlow THEN m
      ELSE IF target = None \/ slot.predicted = target THEN trained
      ELSE [trained EXCEPT !.redirect = TRUE, !.nextIfId = NoSlot, !.nextIdEx = NoSlot,
                           !.fault = None, !.fetchPc = target]

\* A control transfer trains the predictor and, predicted wrongly, discards
\* what was fetched behind it.
ResolveControl(m, slot) ==
  LET target == slot.eff.target
      trained == [m EXCEPT !.predictor = Trained(@, slot.pc, slot.insn, target)]
  IN  IF slot.insn.op \notin ControlFlow THEN m
      ELSE IF slot.predicted = target THEN trained
      ELSE [trained EXCEPT !.redirect = TRUE, !.nextIfId = NoSlot, !.nextIdEx = NoSlot,
                           !.fault = None,
                           !.fetchPc = IF target = None THEN slot.pc + 1 ELSE target]

\* step_ex.
ExecuteStage(m) ==
  LET slot == m.idEx
      eff == Effects(slot.insn, slot.pc, Operand(m, slot.s1, slot.v1),
                     Operand(m, slot.s2, slot.v2), ReadCsr(m.cpu, slot.insn),
                     Operand(m, slot.a7, m.phys[slot.a7].value))
      done == [slot EXCEPT !.eff = eff]
  IN  IF ~slot.valid THEN m
      ELSE IF slot.insn.op \in System /\ ~AtHead(m, slot.tag)
      THEN [m EXCEPT !.nextIdEx = slot]
      ELSE IF eff.mem \in {"load", "store"} THEN IssueToMemory(m, done)
      ELSE ResolveControl(CompleteInExecute(m, done), done)

-----------------------------------------------------------------------------
\* Mutant: without the test that execute has taken the instruction before.
DecodeOverruns(m, slot, sources) ==
  \/ ~slot.valid
  \/ \E s \in sources : s # 0 /\ ~m.phys[s].ready

\* An instruction waits in decode for execute to take the one before it, for its
\* operands and, a load, for older stores.
DecodeHolds(m, slot, sources) ==
  \/ m.nextIdEx.valid \/ ~slot.valid
  \/ \E s \in sources : s # 0 /\ ~m.phys[s].ready

\* step_id: rename, allocate a reorder-buffer entry and, for a store, a queue
\* entry.
DecodeStage(m) ==
  LET slot == m.ifId
      insn == slot.insn
      s1 == IF insn.op \in ReadsRs1 THEN m.rename.spec[insn.rs1] ELSE 0
      s2 == IF insn.op \in ReadsRs2 THEN m.rename.spec[insn.rs2] ELSE 0
      a7 == IF insn.op = "ecall" THEN m.rename.spec[SyscallReg] ELSE 0
      addr == (m.phys[s1].value + insn.imm) % 4
      writes == insn.op \in WritesRd /\ insn.rd # 0
      dest == RenameDest(m.rename, insn.rd)
      rd == IF writes THEN dest.phys ELSE 0
      tag == CHOOSE t \in 1 .. Len(m.rob) + 1 :
               /\ \A i \in DOMAIN m.rob : m.rob[i].tag # t
               /\ \A u \in 1 .. t - 1 : \E i \in DOMAIN m.rob : m.rob[i].tag = u
      held == [m EXCEPT !.nextIfId = slot]
  IN  IF m.redirect THEN [m EXCEPT !.nextIfId = NoSlot]
      ELSE IF \/ DecodeHolds(m, slot, {s1, s2, a7})
              \/ insn.op = "load" /\ LoadBlocked(m, addr, insn.size)
      THEN held
      ELSE [m EXCEPT
              !.nextIfId = NoSlot,
              !.nextIdEx = [valid |-> TRUE, pc |-> slot.pc, insn |-> insn,
                            predicted |-> slot.predicted, s1 |-> s1, s2 |-> s2, a7 |-> a7,
                            rd |-> rd, tag |-> tag, v1 |-> m.phys[s1].value,
                            v2 |-> m.phys[s2].value, eff |-> NoEffects],
              !.rename = IF writes THEN dest.map ELSE @,
              !.phys = SetPending(@, rd),
              !.rob = Append(@, [tag |-> tag, pc |-> slot.pc, insn |-> insn,
                                 arch |-> IF writes THEN insn.rd ELSE 0, phys |-> rd,
                                 prev |-> IF writes THEN m.rename.spec[insn.rd] ELSE 0,
                                 ready |-> FALSE, eff |-> NoEffects]),
              !.lsq = IF insn.op # "store" THEN @
                      ELSE Append(@, [tag |-> tag, kind |-> "store", addr |-> 0,
                                      size |-> insn.size, addrReady |-> FALSE,
                                      dataReady |-> FALSE, orderReady |-> FALSE,
                                      data |-> 0, replay |-> FALSE])]

\* step_if: fetch along the predicted path until a fetch faults.
FetchStage(m) ==
  LET pc == m.fetchPc
      insn == program[pc]
      predicted == Prediction(m.predictor, pc, insn)
  IN  IF m.cpu.halted \/ m.nextIfId.valid \/ m.fault # None THEN m
      ELSE IF pc \notin DOMAIN program THEN [m EXCEPT !.fault = pc]
      ELSE [m EXCEPT
              !.nextIfId = [valid |-> TRUE, pc |-> pc, insn |-> insn, predicted |-> predicted],
              !.fetchPc = IF predicted = None THEN pc + 1 ELSE predicted]

\* commit_next_state: the next_* latches become the latches, and the cycle ends.
Latch(m) ==
  [m EXCEPT !.ifId = m.nextIfId, !.idEx = m.nextIdEx, !.exMem = m.nextExMem,
            !.memWb = m.nextMemWb, !.exMemCycles = m.nextExMemCycles]

Becomes(m) ==
  \E end \in {Latch(m)} :
    /\ cpu' = end.cpu
    /\ pipe' = [field \in DOMAIN pipe |-> end[field]]
    /\ predictor' = end.predictor
    /\ irq' = end.irq

\* step: `line' is what the devices report as the cycle starts, `lineAfterMmio'
\* what they report if write-back stores to one of them.  Each stage takes the
\* machine the one before it left (bound by a quantifier over one element, which
\* TLC evaluates once).
Step(line, lineAfterMmio) ==
  \E start \in {Begin(line)} :
  \E written \in {WriteBack(start, lineAfterMmio)} :
    LET atStart == Serviceable(start)
        deferred == written.committed /\ ~atStart /\ Serviceable(written)
    IN  IF ReplayPending(start) THEN Becomes(Squash(start))
        ELSE IF deferred THEN Becomes([Squash(written) EXCEPT !.trapFlush = TRUE])
        ELSE \E bound \in {IF written.trapFlush THEN written
                            ELSE TrapAtBoundary(written, atStart)} :
             \E memory \in {MemoryStage(bound)} :
             \E executed \in {ExecuteStage(memory)} :
             \E decoded \in {DecodeStage(executed)} :
               Becomes(FetchStage(decoded))

-----------------------------------------------------------------------------
\* PipelineBackend::reset on any architectural state.
InitialPipe(c) ==
  [fetchPc |-> c.pc, fault |-> None, ifId |-> NoSlot, idEx |-> NoSlot,
   exMem |-> NoSlot, memWb |-> NoSlot, exMemCycles |-> 0,
   rename |-> InitialRename, phys |-> CommittedPhys(InitialRename, c.gpr),
   rob |-> << >>, lsq |-> << >>, committed |-> FALSE, trapFlush |-> FALSE]

Init ==
  /\ \E s \in Starts : cpu = s.cpu /\ program = s.program
  /\ pipe = InitialPipe(cpu)
  /\ predictor = [i \in 0 .. TableSize - 1 |->
                    [valid |-> FALSE, pc |-> 0, counter |-> 0, target |-> 0]]
  /\ irq = FALSE

\* A cycle, until the hart halts.
Cycle ==
  /\ ~cpu.halted
  /\ \E line, lineAfterMmio \in BOOLEAN : Step(line, lineAfterMmio)
  /\ UNCHANGED program

Next == Cycle

Spec == Init /\ [][Next]_vars

\* The machine loop calls step until the hart halts, whatever the state.
FairSpec == Spec /\ WF_vars(Cycle)

-----------------------------------------------------------------------------
TypeOK ==
  /\ cpu \in CpuState
  /\ irq \in BOOLEAN
  /\ pipe.fetchPc \in 0 .. CodeLen /\ pipe.fault \in {None} \cup 0 .. CodeLen
  /\ pipe.exMemCycles \in 0 .. 1
  /\ pipe.phys \in [Phys -> [value : Value, ready : BOOLEAN]]
  /\ pipe.rename.next \in NumArch .. NumPhys
  /\ \A i \in DOMAIN pipe.lsq : \E j \in DOMAIN pipe.rob :
       pipe.lsq[i].tag = pipe.rob[j].tag
  /\ \A slot \in {pipe.idEx, pipe.exMem} :
       slot.valid => \E i \in DOMAIN pipe.rob : pipe.rob[i].tag = slot.tag

\* The device as committed instructions left it: the oldest instruction may be
\* a load that has read the device and waits to commit.
DeviceRead ==
  LET head == Head(pipe.rob)
  IN  /\ pipe.rob # << >>
      /\ head.insn.op = "load" /\ head.ready /\ head.eff.trap = "none"
      /\ Region(head.eff.addr, head.eff.size) = "mmio"

CommittedCpu ==
  IF DeviceRead THEN [cpu EXCEPT !.dev = Head(pipe.rob).eff.rd] ELSE cpu

Reference == INSTANCE InOrder WITH cpu <- CommittedCpu

\* The pipeline implements the functional backend: what a cycle does to the
\* architectural state is what one instruction or one interrupt, or the two in
\* that order, does when instructions run one at a time.
ImplementsReference == Reference!Spec

\* The instructions in flight are the next ones of the committed program, in
\* order and without a gap, and behind the youngest comes what is being
\* fetched.  So nothing past an unresolved branch is ever renamed, and no
\* redirect, flush or fetch fault loses or repeats an instruction.
Follows(pc, entry) ==
  IF entry.eff.target # None THEN pc = entry.eff.target
  ELSE pc = entry.pc + 1

FrontPc == IF pipe.ifId.valid THEN pipe.ifId.pc
           ELSE IF pipe.fault # None THEN pipe.fault ELSE pipe.fetchPc

InFlightIsTheComingPath ==
  LET n == Len(pipe.rob)
      pending(i) == pipe.rob[i].insn.op \in ControlFlow /\ ~pipe.rob[i].ready
  IN  /\ \A i \in 1 .. n : pending(i) => i = n
      /\ \A i \in 1 .. n - 1 : Follows(pipe.rob[i + 1].pc, pipe.rob[i])
      /\ IF n = 0 THEN FrontPc = cpu.pc
         ELSE /\ pipe.rob[1].pc = cpu.pc
              /\ ~pending(n) => Follows(FrontPc, pipe.rob[n])

\* The registers an instruction in decode would read: a register that is not
\* ready has a producer in flight that has yet to write it or that will trap and
\* take its readers with it; otherwise they would wait in decode for ever.
PendingHasProducer ==
  \A a \in Gprs : ~pipe.phys[pipe.rename.spec[a]].ready =>
    \E i \in DOMAIN pipe.rob : LET e == pipe.rob[i] IN
      e.phys = pipe.rename.spec[a] /\ (~e.ready \/ e.eff.trap # "none")

\* Between cycles the committed half of the physical register file is the
\* architectural register file.
CommittedRegistersAgree ==
  \A a \in Gprs :
    pipe.phys[pipe.rename.arch[a]] = [value |-> cpu.gpr[a], ready |-> TRUE]

\* A load about to read memory: no older store that overlaps it is uncommitted,
\* but for the reorder buffer's head when the write-back of the same cycle, which
\* runs first, will commit it.  So memory holds the newest bytes, also where
\* forwardable_load gives up because the store covers only some of them.
LoadSeesOlderStores ==
  LET slot == pipe.exMem
  IN  slot.valid /\ slot.eff.mem = "load" /\ pipe.exMemCycles = 0 =>
        \A i \in DOMAIN pipe.lsq : LET e == pipe.lsq[i] IN
          /\ e.kind = "store" /\ Older(pipe, e.tag, slot.tag)
          /\ ~(Head(pipe.rob).tag = e.tag /\ Head(pipe.rob).ready)
          => ~Overlap(e.addr, e.size, slot.eff.addr, slot.eff.size)

\* Nothing limits the reorder buffer or the queue but the stalls of the stages
\* before them.
OccupancyBounded == Len(pipe.rob) <= RobBound /\ Len(pipe.lsq) <= LsqBound

\* The free lists and maps keep the invariant that ExecutionProofs proves
\* inductive, with at most RobBound renamed instructions in flight.
Rename == INSTANCE RenameMap WITH
  MaxInFlight <- RobBound,
  archMap <- pipe.rename.arch, specMap <- pipe.rename.spec,
  commFree <- Range(pipe.rename.commFree), specFree <- Range(pipe.rename.specFree),
  nextPhys <- pipe.rename.next,
  rob <- LET renamed == SelectSeq(pipe.rob, LAMBDA e : e.phys # 0)
         IN  [i \in DOMAIN renamed |->
                [arch |-> renamed[i].arch, phys |-> renamed[i].phys,
                 prev |-> renamed[i].prev]]

RenamingConsistent == Rename!IInv

\* The pipeline never stops: it goes on retiring instructions or taking traps
\* until the hart halts.
Progress == []<>(pipe.committed \/ pipe.trapFlush \/ cpu.halted)

\* A serviceable interrupt that stays pending is taken.  A trap return that retires
\* with interrupts enabled skips the boundary of its cycle, and fetch has refilled the
\* pipeline by the next: it may hold the interrupt off.
InterruptServed ==
  irq /\ Interruptible(cpu)
    ~> \/ cpu.cause = "interrupt" \/ ~irq \/ ~Interruptible(cpu) \/ cpu.halted
       \/ pipe.committed /\ pipe.trapFlush

\* The pipeline keeps going and takes its interrupts.
PipelineServes == Progress /\ InterruptServed

\* The stages, the buffer, the queue and the registers fit together in every cycle.
BackendConsistent ==
  TypeOK /\ OccupancyBounded /\ PendingHasProducer /\ RenamingConsistent /\ CommittedRegistersAgree
=============================================================================
