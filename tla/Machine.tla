------------------------------- MODULE Machine -------------------------------
(***************************************************************************)
(* The RISC-V hart both execution backends share: instruction effects      *)
(* (InstructionSemantics), the commit boundary that applies them, trap     *)
(* entry and return, and the memory they reach.                            *)
(*                                                                         *)
(* Abstraction.  One operation per kind of instruction the pipeline treats *)
(* differently; pcs count instructions; a byte is one bit and a register   *)
(* two bytes, so that a 2-byte access can overlap a 1-byte access in part. *)
(* Machine mode only, no translation.  Addresses 0..2 are RAM, address 3   *)
(* is a device register whose reads and writes both have side effects.     *)
(***************************************************************************)
EXTENDS Integers, Sequences, FiniteSets

CONSTANTS
  NumArch,      \* general-purpose registers, 32 in the code; 0 is x0
  CodeLen,      \* mapped instructions; a fetch at or past CodeLen faults
  TrapVector,   \* mtvec
  SyscallReg,   \* the register ecall reads, x17 in the code
  ExitCode      \* the value there that makes ecall halt, 93 in the code

ASSUME MachineAssumption ==
  /\ NumArch \in Nat \ {0} /\ CodeLen \in Nat \ {0, 1, 2}
  /\ TrapVector \in 0 .. CodeLen - 1
  /\ SyscallReg \in 1 .. NumArch - 1 /\ ExitCode \in 0 .. 3

Gprs == 0 .. NumArch - 1
Value == 0 .. 3
Ram == 0 .. 2
Device == 3
None == -1      \* no register value, no branch target, no fetch fault

Region(addr, size) ==
  IF addr + size - 1 \in Ram THEN "ram"
  ELSE IF addr = Device /\ size = 1 THEN "mmio" ELSE "unmapped"

Overlap(a, aSize, b, bSize) == a < b + bSize /\ b < a + aSize

\* What a load of a mapped address returns.
Loaded(cpu, addr, size) ==
  IF Region(addr, size) = "mmio" THEN cpu.dev
  ELSE cpu.ram[addr] + IF size = 2 THEN 2 * cpu.ram[addr + 1] ELSE 0

\* ... and what it does: reading the device register advances the device.
AfterLoad(cpu, addr, size) ==
  IF Region(addr, size) = "mmio" THEN [cpu EXCEPT !.dev = 1 - @] ELSE cpu

\* Writing the device register also makes the device write a byte of RAM, as a
\* doorbell does whose request is served by DMA at once.
AfterStore(cpu, addr, size, data) ==
  IF Region(addr, size) = "mmio"
  THEN [cpu EXCEPT !.dev = data % 2, !.ram[0] = 1 - @]
  ELSE [cpu EXCEPT !.ram = [b \in Ram |->
          IF b = addr THEN data % 2
          ELSE IF size = 2 /\ b = addr + 1 THEN data \div 2 ELSE @[b]]]

-----------------------------------------------------------------------------
ControlFlow == {"branch", "jal", "jalr"}
System == {"csrrw", "ecall", "mret"}
ReadsRs1 == {"alu", "load", "store", "amo", "branch", "jalr", "csrrw"}
ReadsRs2 == {"alu", "store", "amo", "branch"}
WritesRd == {"alu", "load", "amo", "jal", "jalr", "csrrw", "illegal"}

NoEffects ==
  [trap |-> "none", mem |-> "none", addr |-> 0, size |-> 1, data |-> 0,
   rd |-> None, target |-> None, csr |-> "none", csrValue |-> 0,
   control |-> "none"]

\* InstructionSemantics::execute: what the instruction will do, from its operands.
Effects(insn, pc, v1, v2, csrv, a7) ==
  LET access(kind) == [NoEffects EXCEPT !.mem = kind, !.size = insn.size,
                                        !.addr = (v1 + insn.imm) % 4, !.data = v2]
      jump(target) == [NoEffects EXCEPT !.rd = (pc + 1) % 4, !.target = target]
  IN CASE insn.op = "alu" -> [NoEffects EXCEPT !.rd = (v1 + v2 + insn.imm) % 4]
       [] insn.op \in {"load", "store", "amo"} -> access(insn.op)
       [] insn.op = "branch" ->
            IF v1 # v2 THEN [NoEffects EXCEPT !.target = insn.imm] ELSE NoEffects
       [] insn.op = "jal" -> jump(insn.imm)
       [] insn.op = "jalr" -> jump((v1 + insn.imm) % 4)
       [] insn.op = "csrrw" ->
            [NoEffects EXCEPT !.rd = csrv, !.csr = insn.csr, !.csrValue = v1]
       [] insn.op = "ecall" /\ a7 = ExitCode -> [NoEffects EXCEPT !.control = "halt"]
       [] insn.op = "ecall" /\ a7 # ExitCode -> [NoEffects EXCEPT !.trap = "ecall"]
       [] insn.op = "mret" -> [NoEffects EXCEPT !.control = "mret"]
       [] insn.op = "illegal" -> [NoEffects EXCEPT !.trap = "illegal"]

-----------------------------------------------------------------------------
WriteGpr(cpu, rd, value) ==
  IF rd = 0 \/ value = None THEN cpu ELSE [cpu EXCEPT !.gpr[rd] = value]

\* The interrupt-enable bit is all that is kept of mstatus.
WriteCsr(cpu, csr, value) ==
  CASE csr = "none" -> cpu
    [] csr = "ie" -> [cpu EXCEPT !.ie = value % 2]
    [] csr = "scratch" -> [cpu EXCEPT !.scratch = value]
    [] csr = "epc" -> [cpu EXCEPT !.epc = value]

ReadCsr(cpu, insn) ==
  IF insn.op # "csrrw" THEN 0
  ELSE CASE insn.csr = "ie" -> cpu.ie
         [] insn.csr = "scratch" -> cpu.scratch
         [] insn.csr = "epc" -> cpu.epc % 4

\* enter_trap, from the pc the core holds.
EnterTrap(cpu, cause) ==
  [cpu EXCEPT !.epc = cpu.pc, !.cause = cause, !.pie = cpu.ie, !.ie = 0,
              !.pc = TrapVector]

ReturnFromMret(cpu) ==
  [cpu EXCEPT !.ie = cpu.pie, !.pie = 1, !.pc = cpu.epc]

\* apply_commit_boundary: the one place where either backend changes
\* architectural state.  A memory operation that faults here becomes a precise
\* trap; a load or an atomic writes what it read; control effects come last.
CommitBoundary(cpu, pc, rd, eff) ==
  LET trapped(cause) ==
        [cpu |-> EnterTrap([cpu EXCEPT !.pc = pc], cause),
         retired |-> FALSE, flush |-> TRUE, mmio |-> FALSE]
      faulty == \/ Region(eff.addr, eff.size) = "unmapped"
                \/ eff.mem = "amo" /\ eff.addr % eff.size # 0
      old == Loaded(cpu, eff.addr, eff.size)
      read == AfterLoad(cpu, eff.addr, eff.size)
      memory == CASE eff.mem = "none" -> cpu
                  [] eff.mem = "load" -> read
                  [] eff.mem = "store" -> AfterStore(cpu, eff.addr, eff.size, eff.data)
                  [] eff.mem = "amo" ->
                       AfterStore(read, eff.addr, eff.size, (old + eff.data) % 4)
      value == IF eff.mem \in {"load", "amo"} THEN old ELSE eff.rd
      done == WriteGpr(WriteCsr(memory, eff.csr, eff.csrValue), rd, value)
      next == IF eff.target = None THEN pc + 1 ELSE eff.target
  IN IF eff.trap # "none" THEN trapped(eff.trap)
     ELSE IF eff.mem # "none" /\ faulty
     THEN trapped(IF eff.mem = "load" THEN "loadFault" ELSE "storeFault")
     ELSE [cpu |-> IF eff.control = "mret" THEN ReturnFromMret(done)
                   ELSE [done EXCEPT !.pc = next, !.halted = eff.control = "halt"],
           retired |-> TRUE,
           flush |-> eff.control # "none",
           mmio |-> /\ eff.mem \in {"store", "amo"}
                    /\ Region(eff.addr, eff.size) = "mmio"]

Interruptible(cpu) == cpu.ie = 1

-----------------------------------------------------------------------------
\* Sets of states, for type invariants.
CpuState ==
  [pc : 0 .. CodeLen, gpr : [Gprs -> Value], ram : [Ram -> 0 .. 1], dev : 0 .. 1,
   scratch : Value, ie : 0 .. 1, pie : 0 .. 1, epc : 0 .. CodeLen, halted : BOOLEAN,
   cause : {"none", "interrupt", "fetchFault", "loadFault", "storeFault",
            "ecall", "illegal"}]

Instruction ==
  [op : ReadsRs1 \cup WritesRd \cup System, rd : Gprs, rs1 : Gprs, rs2 : Gprs, imm : Int,
   size : {1, 2}, csr : {"none", "ie", "scratch", "epc"}]
=============================================================================
