------------------------------- MODULE InOrder -------------------------------
(***************************************************************************)
(* The reference the pipeline promises to implement: the functional        *)
(* backend (src/myCPU/src/exec/functional_backend.cpp), one instruction at *)
(* a time, each on the architectural state the one before it left.         *)
(*                                                                         *)
(* FunctionalBackend::step is Interrupt, if one is serviceable, followed   *)
(* by Retire in the same call; here they are separate steps because the    *)
(* pipeline exposes the state between them.  RetireThenInterrupt is the    *)
(* pair the pipeline takes in one cycle.                                   *)
(***************************************************************************)
EXTENDS Machine

CONSTANT Starts    \* what the loader may leave: an architectural state and a program

VARIABLES
  cpu,          \* architectural state: core, CSRs, memory, device
  program       \* instruction memory

vars == <<cpu, program>>

\* Fetch, execute and commit at the architectural pc.
Executed(c) ==
  IF c.pc \notin DOMAIN program
  THEN EnterTrap(c, "fetchFault")
  ELSE LET insn == program[c.pc]
           eff == Effects(insn, c.pc, c.gpr[insn.rs1], c.gpr[insn.rs2],
                          ReadCsr(c, insn), c.gpr[SyscallReg])
       IN  CommitBoundary(c, c.pc, insn.rd, eff).cpu

Init == [cpu |-> cpu, program |-> program] \in Starts

Retire ==
  /\ ~cpu.halted
  /\ cpu' = Executed(cpu)
  /\ UNCHANGED program

Interrupt ==
  /\ ~cpu.halted
  /\ Interruptible(cpu)
  /\ cpu' = EnterTrap(cpu, "interrupt")
  /\ UNCHANGED program

RetireThenInterrupt ==
  /\ ~cpu.halted
  /\ LET c == Executed(cpu)
     IN  Interruptible(c) /\ ~c.halted /\ cpu' = EnterTrap(c, "interrupt")
  /\ UNCHANGED program

Next == Retire \/ Interrupt \/ RetireThenInterrupt

Spec == Init /\ [][Next]_vars
=============================================================================
