----------------------------- MODULE MCPipeline -----------------------------
(***************************************************************************)
(* Small programs for Pipeline.  Each set puts one group of instructions   *)
(* in every order, in front of a trap handler.                             *)
(***************************************************************************)
EXTENDS Pipeline

Insn(op, rd, rs1, rs2, imm, size) ==
  [op |-> op, rd |-> rd, rs1 |-> rs1, rs2 |-> rs2, imm |-> imm, size |-> size,
   csr |-> "none"]

Alu(rd, rs1, rs2, imm) == Insn("alu", rd, rs1, rs2, imm, 1)
Load(rd, rs1, imm, size) == Insn("load", rd, rs1, 0, imm, size)
Store(rs1, rs2, imm, size) == Insn("store", 0, rs1, rs2, imm, size)
Amo(rd, rs1, rs2, imm) == Insn("amo", rd, rs1, rs2, imm, 1)
Branch(rs1, rs2, target) == Insn("branch", 0, rs1, rs2, target, 1)
Jal(rd, target) == Insn("jal", rd, 0, 0, target, 1)
Jalr(rd, rs1, imm) == Insn("jalr", rd, rs1, 0, imm, 1)
Csrrw(rd, rs1, csr) == [Insn("csrrw", rd, rs1, 0, 0, 1) EXCEPT !.csr = csr]
Ecall == Insn("ecall", 0, 0, 0, 0, 1)
Mret == Insn("mret", 0, 0, 0, 0, 1)
Illegal == Insn("illegal", 1, 0, 0, 0, 1)

\* Programs whose first n instructions are any of `insns', followed by `rest'.
Followed(n, insns, rest) ==
  {[pc \in 0 .. n + Len(rest) - 1 |-> IF pc < n THEN f[pc] ELSE rest[pc - n + 1]] :
     f \in [0 .. n - 1 -> insns]}

Cpus(enabled) ==
  {[pc |-> 0, gpr |-> [a \in Gprs |-> IF a = 0 THEN 0 ELSE a], ram |-> [b \in Ram |-> b % 2],
    dev |-> 1, scratch |-> 2, ie |-> e, pie |-> 1, epc |-> 0, halted |-> FALSE,
    cause |-> "none"] : e \in enabled}

\* Loads and stores that overlap in part, the device, and atomics whose result
\* is dropped.
MemoryInsns ==
  {Store(0, 1, 0, 2), Store(0, 2, 1, 1), Store(0, 1, 3, 1), Load(1, 0, 0, 2),
   Load(2, 0, 1, 1), Load(1, 2, 0, 1), Load(1, 0, 3, 1), Alu(2, 1, 2, 1),
   Amo(0, 0, 1, 1)}
MemoryPrograms == Followed(4, MemoryInsns, <<Alu(1, 1, 0, 1)>>)

\* Loops, mispredictions, jumps past the end of the program.
ControlInsns ==
  {Branch(1, 2, 0), Branch(2, 0, 3), Jal(1, 2), Jalr(2, 1, 0), Alu(1, 1, 0, 1),
   Alu(2, 1, 0, 1), Load(1, 0, 1, 1)}
ControlPrograms == Followed(4, ControlInsns, <<Alu(1, 2, 0, 1)>>)

\* Traps, trap returns, interrupt enabling and the device, under interrupts.
TrapInsns ==
  {Csrrw(1, 2, "ie"), Csrrw(2, 1, "epc"), Ecall, Mret, Illegal, Load(1, 0, 3, 1),
   Load(2, 0, 2, 2), Store(0, 1, 3, 1), Alu(2, 2, 0, 1), Store(0, 1, 2, 2)}
TrapPrograms == Followed(3, TrapInsns, <<Csrrw(2, 2, "scratch"), Mret>>)

\* Loops, waits for memory and faults, under interrupts.
LiveInsns ==
  {Load(1, 0, 3, 1), Load(2, 1, 0, 1), Store(0, 1, 1, 1), Alu(2, 1, 0, 1),
   Branch(1, 2, 0), Csrrw(1, 2, "ie"), Mret, Illegal}
LivePrograms == Followed(2, LiveInsns, <<Csrrw(2, 2, "scratch"), Mret>>)

\* An atomic whose result the next instruction may read.
AtomicInsns == {Amo(1, 0, 2, 1), Alu(2, 1, 0, 1), Load(1, 0, 1, 1)}
AtomicPrograms == Followed(4, AtomicInsns, <<Alu(1, 2, 0, 1)>>)

From(cpus, programs) == [cpu : cpus, program : programs]

\* Interrupts are disabled throughout in the long programs.
AllStarts ==
  From(Cpus({0}), MemoryPrograms \cup ControlPrograms) \cup From(Cpus({0, 1}), TrapPrograms)
LiveStarts == From(Cpus({0, 1}), LivePrograms)
AtomicStarts == From(Cpus({0}), AtomicPrograms)
=============================================================================
