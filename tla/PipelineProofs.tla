---------------------------- MODULE PipelineProofs ----------------------------
(***************************************************************************)
(* Proofs about the pipeline backend, for every program, any number of     *)
(* registers and any size of the predictor.                                *)
(***************************************************************************)
EXTENDS Pipeline, QueueLemmas, FiniteSetTheorems

-----------------------------------------------------------------------------
(* Sequences of whatever elements *)

IsSeq(q) == Len(q) \in Nat /\ q = [i \in 1 .. Len(q) |-> q[i]]

LEMMA SeqOver ==
  ASSUME NEW q, IsSeq(q)
  PROVE  q \in Seq({q[i] : i \in 1 .. Len(q)})
<1> DEFINE S == {q[i] : i \in 1 .. Len(q)}
<1>1. \A i \in 1 .. Len(q) : q[i] \in S
  OBVIOUS
<1>2. Len(q) \in Nat /\ q = [i \in 1 .. Len(q) |-> q[i]]
  BY DEF IsSeq
<1> HIDE DEF S
<1>3. [i \in 1 .. Len(q) |-> q[i]] \in [1 .. Len(q) -> S]
  BY <1>1
<1>4. q \in Seq(S)
  BY <1>2, <1>3
<1> QED BY <1>4 DEF S

LEMMA SeqIs ==
  ASSUME NEW S, NEW q \in Seq(S)
  PROVE  IsSeq(q)
BY DEF IsSeq

LEMMA AppendSeq ==
  ASSUME NEW q, NEW e, IsSeq(q)
  PROVE  /\ IsSeq(Append(q, e)) /\ Len(Append(q, e)) = Len(q) + 1 /\ Len(q) \in Nat
         /\ \A i \in 1 .. Len(q) : Append(q, e)[i] = q[i]
         /\ Append(q, e)[Len(q) + 1] = e
<1> DEFINE S == {q[i] : i \in 1 .. Len(q)} \cup {e}
<1>1. q \in Seq(S) /\ e \in S
  <2>1. q \in Seq({q[i] : i \in 1 .. Len(q)})
    BY SeqOver
  <2> QED BY <2>1
<1> HIDE DEF S
<1>2. Append(q, e) \in Seq(S)
  BY <1>1
<1>3. IsSeq(Append(q, e))
  BY <1>2, SeqIs
<1>4. /\ Len(Append(q, e)) = Len(q) + 1 /\ Len(q) \in Nat
      /\ \A i \in 1 .. Len(q) : Append(q, e)[i] = q[i]
      /\ Append(q, e)[Len(q) + 1] = e
  BY <1>1
<1> QED BY <1>3, <1>4

LEMMA TailSeq ==
  ASSUME NEW q, IsSeq(q), q # <<>>
  PROVE  /\ IsSeq(Tail(q)) /\ Len(Tail(q)) = Len(q) - 1 /\ Len(q) \in Nat \ {0}
         /\ Head(q) = q[1]
         /\ \A i \in 1 .. Len(q) - 1 : Tail(q)[i] = q[i + 1]
<1> DEFINE S == {q[i] : i \in 1 .. Len(q)}
<1>1. q \in Seq(S)
  BY SeqOver
<1> HIDE DEF S
<1>2. Tail(q) \in Seq(S)
  BY <1>1
<1>3. IsSeq(Tail(q))
  BY <1>2, SeqIs
<1>4. /\ Len(Tail(q)) = Len(q) - 1 /\ Len(q) \in Nat \ {0} /\ Head(q) = q[1]
      /\ \A i \in 1 .. Len(q) - 1 : Tail(q)[i] = q[i + 1]
  BY <1>1
<1> QED BY <1>3, <1>4

LEMMA ReplaceSeq ==
  ASSUME NEW q, NEW e, NEW k \in 1 .. Len(q), IsSeq(q)
  PROVE  /\ IsSeq([q EXCEPT ![k] = e]) /\ Len([q EXCEPT ![k] = e]) = Len(q)
         /\ \A i \in 1 .. Len(q) : [q EXCEPT ![k] = e][i] = IF i = k THEN e ELSE q[i]
<1> DEFINE S == {q[i] : i \in 1 .. Len(q)} \cup {e}
<1>1. q \in Seq(S) /\ e \in S
  <2>1. q \in Seq({q[i] : i \in 1 .. Len(q)})
    BY SeqOver
  <2> QED BY <2>1
<1> HIDE DEF S
<1>2. DOMAIN q = 1 .. Len(q) /\ [q EXCEPT ![k] = e] \in Seq(S)
  BY <1>1
<1>3. IsSeq([q EXCEPT ![k] = e])
  BY <1>2, SeqIs
<1>4. /\ Len([q EXCEPT ![k] = e]) = Len(q)
      /\ \A i \in 1 .. Len(q) : [q EXCEPT ![k] = e][i] = IF i = k THEN e ELSE q[i]
  BY <1>1, <1>2
<1> QED BY <1>3, <1>4

LEMMA NothingSeq ==
  IsSeq(<<>>) /\ Len(<<>>) = 0
<1>1. <<>> \in Seq({})
  OBVIOUS
<1>2. IsSeq(<<>>)
  BY <1>1, SeqIs
<1>3. Len(<<>>) = 0
  OBVIOUS
<1> QED BY <1>2, <1>3

-----------------------------------------------------------------------------
(* What the instructions in flight have in common *)

CpuFields ==
  {"pc", "gpr", "ram", "dev", "scratch", "ie", "pie", "epc", "halted", "cause"}

EffectFields ==
  {"trap", "mem", "addr", "size", "data", "rd", "target", "csr", "csrValue", "control"}

EffectOK(eff) ==
  /\ DOMAIN eff = EffectFields
  /\ eff.mem \in {"none", "load", "store", "amo"}
  /\ eff.csr \in {"none", "ie", "scratch", "epc"}

\* The pc after an instruction that goes to target, if there is one.
NextOf(pc, target) == IF target = None THEN pc + 1 ELSE target

LEMMA EffectsOK ==
  ASSUME NEW insn \in Instruction, NEW pc, NEW v1, NEW v2, NEW csrv, NEW a7
  PROVE  LET eff == Effects(insn, pc, v1, v2, csrv, a7)
         IN  /\ EffectOK(eff)
             /\ eff.target # None => insn.op \in ControlFlow
             /\ eff.mem \in {"load", "store"} => insn.op \in {"load", "store"}
<1> DEFINE eff == Effects(insn, pc, v1, v2, csrv, a7)
<1>1. insn.op \in {"alu", "load", "store", "amo", "branch", "jal", "jalr", "csrrw", "ecall",
                   "mret", "illegal"}
      /\ insn.csr \in {"none", "ie", "scratch", "epc"}
  BY DEF Instruction, ReadsRs1, WritesRd, System
<1>2. CASE insn.op \in {"alu", "csrrw", "mret", "illegal"}
  BY <1>1, <1>2 DEF Effects, NoEffects, EffectOK, EffectFields, ControlFlow, None
<1>3. CASE insn.op \in {"load", "store", "amo"}
  BY <1>1, <1>3 DEF Effects, NoEffects, EffectOK, EffectFields, ControlFlow, None
<1>4. CASE insn.op = "branch"
  BY <1>1, <1>4 DEF Effects, NoEffects, EffectOK, EffectFields, ControlFlow, None
<1>5. CASE insn.op \in {"jal", "jalr"}
  BY <1>1, <1>5 DEF Effects, NoEffects, EffectOK, EffectFields, ControlFlow, None
<1>6. CASE insn.op = "ecall"
  BY <1>1, <1>6 DEF Effects, NoEffects, EffectOK, EffectFields, ControlFlow, None
<1> QED BY <1>1, <1>2, <1>3, <1>4, <1>5, <1>6

LEMMA CommitMovesOn ==
  ASSUME NEW c, NEW pc, NEW rd, NEW eff, DOMAIN c = CpuFields, EffectOK(eff)
  PROVE  LET result == CommitBoundary(c, pc, rd, eff)
         IN  /\ DOMAIN result.cpu = CpuFields
             /\ result.flush \in BOOLEAN /\ result.retired \in BOOLEAN
             /\ ~result.flush => result.retired /\ result.cpu.pc = NextOf(pc, eff.target)
<1> DEFINE result == CommitBoundary(c, pc, rd, eff)
           faulty == \/ Region(eff.addr, eff.size) = "unmapped"
                     \/ eff.mem = "amo" /\ eff.addr % eff.size # 0
           old == Loaded(c, eff.addr, eff.size)
           read == AfterLoad(c, eff.addr, eff.size)
           memory == CASE eff.mem = "none" -> c
                       [] eff.mem = "load" -> read
                       [] eff.mem = "store" -> AfterStore(c, eff.addr, eff.size, eff.data)
                       [] eff.mem = "amo" ->
                            AfterStore(read, eff.addr, eff.size, (old + eff.data) % 4)
           value == IF eff.mem \in {"load", "amo"} THEN old ELSE eff.rd
           written == WriteCsr(memory, eff.csr, eff.csrValue)
           done == WriteGpr(written, rd, value)
<1>1. DOMAIN read = CpuFields
  BY DEF AfterLoad
<1>2. DOMAIN memory = CpuFields
  BY <1>1 DEF AfterStore, EffectOK
<1>3. DOMAIN written = CpuFields
  <2> HIDE DEF memory
  <2> QED BY <1>2 DEF WriteCsr, EffectOK
<1>4. DOMAIN done = CpuFields
  <2> HIDE DEF written, value
  <2> QED BY <1>3 DEF WriteGpr
<1>5. \A cause : LET r == [cpu |-> EnterTrap([c EXCEPT !.pc = pc], cause),
                           retired |-> FALSE, flush |-> TRUE, mmio |-> FALSE]
                 IN  DOMAIN r.cpu = CpuFields /\ r.flush = TRUE /\ r.retired = FALSE
  BY DEF EnterTrap
<1>6. CASE eff.trap # "none"
  BY <1>5, <1>6 DEF CommitBoundary
<1>7. CASE eff.trap = "none" /\ eff.mem # "none" /\ faulty
  BY <1>5, <1>7 DEF CommitBoundary
<1>8. CASE eff.trap = "none" /\ ~(eff.mem # "none" /\ faulty)
  <2> DEFINE halts == eff.control = "halt"
             stays == eff.control # "none"
             mmio == eff.mem \in {"store", "amo"} /\ Region(eff.addr, eff.size) = "mmio"
             onward == [done EXCEPT !.pc = NextOf(pc, eff.target), !.halted = halts]
             after == IF eff.control = "mret" THEN ReturnFromMret(done) ELSE onward
  <2>1. result = [cpu |-> after, retired |-> TRUE, flush |-> stays, mmio |-> mmio]
    BY <1>8 DEF CommitBoundary, NextOf
  <2>2. stays \in BOOLEAN /\ (stays <=> eff.control # "none")
    OBVIOUS
  <2> HIDE DEF done, halts, stays, mmio, result
  <2>3. DOMAIN onward = CpuFields /\ onward.pc = NextOf(pc, eff.target)
    BY <1>4 DEF CpuFields
  <2> HIDE DEF onward
  <2>4. DOMAIN after = CpuFields /\ (eff.control = "none" => after = onward)
    BY <1>4, <2>3 DEF ReturnFromMret
  <2> HIDE DEF after
  <2>5. result.cpu = after /\ result.retired = TRUE /\ result.flush = stays
    BY <2>1
  <2> QED BY <2>2, <2>3, <2>4, <2>5 DEF result
<1> QED BY <1>6, <1>7, <1>8
-----------------------------------------------------------------------------
(* The instructions in flight: pc is the architectural one, rob the reorder  *)
(* buffer, fetched, issued and waiting the instructions before decode, before *)
(* execute and before memory, fetchPc what is fetched next.                  *)

EntryFields == {"tag", "pc", "insn", "arch", "phys", "prev", "ready", "eff"}
FetchedFields == {"valid", "pc", "insn", "predicted"}
IssuedFields == FetchedFields \cup {"s1", "s2", "a7", "rd", "tag", "v1", "v2", "eff"}

EntryOK(e) ==
  /\ DOMAIN e = EntryFields /\ e.ready \in BOOLEAN
  /\ EffectOK(e.eff)
  /\ e.eff.target # None => e.ready /\ e.insn.op \in ControlFlow

\* The buffer holds each tag once.
BufferOK(rob) ==
  /\ IsSeq(rob)
  /\ \A i \in 1 .. Len(rob) : EntryOK(rob[i])
  /\ \A i, j \in 1 .. Len(rob) : rob[i].tag = rob[j].tag => i = j

\* What is fetched goes on where the instruction fetched before it was predicted to go.
FetchedOK(fetched, fetchPc) ==
  /\ fetched.valid \in BOOLEAN
  /\ fetched.valid =>
       /\ DOMAIN fetched = FetchedFields
       /\ fetched.insn \in Instruction
       /\ fetched.insn.op \notin ControlFlow => fetched.predicted = None
       /\ fetchPc = NextOf(fetched.pc, fetched.predicted)

\* The instruction before execute is the youngest of the buffer.
IssuedOK(issued, rob) ==
  /\ issued.valid \in BOOLEAN
  /\ issued.valid =>
       /\ DOMAIN issued = IssuedFields
       /\ issued.insn \in Instruction
       /\ issued.insn.op \notin ControlFlow => issued.predicted = None
       /\ Len(rob) # 0
       /\ LET e == rob[Len(rob)]
          IN  e.tag = issued.tag /\ e.pc = issued.pc /\ e.insn = issued.insn /\ ~e.ready

\* The one before memory is in the buffer, before the one in execute.
WaitingOK(waiting, issued, rob) ==
  /\ waiting.valid \in BOOLEAN
  /\ waiting.valid =>
       /\ DOMAIN waiting = IssuedFields
       /\ EffectOK(waiting.eff) /\ waiting.eff.target = None
       /\ \E i \in 1 .. Len(rob) :
            /\ rob[i].tag = waiting.tag
            /\ ~rob[i].ready /\ rob[i].insn.op \notin ControlFlow
            /\ issued.valid => i # Len(rob)

Unresolved(e) == e.insn.op \in ControlFlow /\ ~e.ready

\* Every instruction is where the one before it went, or is predicted to go.
PathOK(pc, rob, fetched, issued, fetchPc) ==
  LET n == Len(rob)
      front == IF fetched.valid THEN fetched.pc ELSE fetchPc
  IN  /\ \A i \in 1 .. n : Unresolved(rob[i]) => i = n /\ issued.valid
      /\ \A i \in 1 .. n - 1 : rob[i + 1].pc = NextOf(rob[i].pc, rob[i].eff.target)
      /\ n = 0 => front = pc
      /\ n # 0 =>
           /\ rob[1].pc = pc
           /\ front = NextOf(rob[n].pc, IF Unresolved(rob[n]) THEN issued.predicted
                                        ELSE rob[n].eff.target)

InFlight(pc, rob, fetched, issued, waiting, fetchPc) ==
  /\ BufferOK(rob) /\ FetchedOK(fetched, fetchPc)
  /\ IssuedOK(issued, rob) /\ WaitingOK(waiting, issued, rob)
  /\ PathOK(pc, rob, fetched, issued, fetchPc)

LEMMA NoneInFlight ==
  ASSUME NEW pc
  PROVE  InFlight(pc, <<>>, NoSlot, NoSlot, NoSlot, pc)
<1>1. BufferOK(<<>>)
  BY NothingSeq DEF BufferOK
<1>2. NoSlot.valid = FALSE
  BY DEF NoSlot
<1>3. PathOK(pc, <<>>, NoSlot, NoSlot, pc)
  BY <1>2, NothingSeq DEF PathOK
<1> QED BY <1>1, <1>2, <1>3 DEF InFlight, FetchedOK, IssuedOK, WaitingOK

\* The oldest instruction leaves the buffer.
LEMMA Retired ==
  ASSUME NEW pc, NEW rob, NEW fetched, NEW issued, NEW waiting, NEW fetchPc,
         InFlight(pc, rob, fetched, issued, waiting, fetchPc),
         rob # <<>>, Head(rob).ready
  PROVE  InFlight(NextOf(Head(rob).pc, Head(rob).eff.target), Tail(rob), fetched, issued,
                  waiting, fetchPc)
<1> DEFINE rest == Tail(rob)
           on == NextOf(Head(rob).pc, Head(rob).eff.target)
<1>1. /\ IsSeq(rest) /\ Len(rest) = Len(rob) - 1 /\ Len(rob) \in Nat \ {0}
      /\ Head(rob) = rob[1]
      /\ \A i \in 1 .. Len(rob) - 1 : rest[i] = rob[i + 1]
  BY TailSeq DEF InFlight, BufferOK
<1> HIDE DEF rest
<1>2. BufferOK(rest)
  BY <1>1 DEF InFlight, BufferOK
<1>3. FetchedOK(fetched, fetchPc)
  BY DEF InFlight
<1>4. issued.valid => Len(rob) # 1
  BY <1>1 DEF InFlight, IssuedOK
<1>5. IssuedOK(issued, rest)
  <2>1. CASE issued.valid
    <3>1. rest[Len(rest)] = rob[Len(rob)] /\ Len(rest) # 0
      BY <1>1, <1>4, <2>1
    <3> QED BY <2>1, <3>1 DEF InFlight, IssuedOK
  <2>2. CASE ~issued.valid
    BY <2>2 DEF InFlight, IssuedOK
  <2> QED BY <2>1, <2>2
<1>6. WaitingOK(waiting, issued, rest)
  <2>1. CASE waiting.valid
    <3>1. PICK i \in 1 .. Len(rob) :
            /\ rob[i].tag = waiting.tag
            /\ ~rob[i].ready /\ rob[i].insn.op \notin ControlFlow
            /\ issued.valid => i # Len(rob)
      BY <2>1 DEF InFlight, WaitingOK
    <3>2. i # 1 /\ i - 1 \in 1 .. Len(rest) /\ rest[i - 1] = rob[i]
          /\ (issued.valid => i - 1 # Len(rest))
      BY <1>1, <3>1
    <3> QED BY <2>1, <3>1, <3>2 DEF InFlight, WaitingOK
  <2>2. CASE ~waiting.valid
    BY <2>2 DEF InFlight, WaitingOK
  <2> QED BY <2>1, <2>2
<1>7. PathOK(on, rest, fetched, issued, fetchPc)
  <2>1. PathOK(pc, rob, fetched, issued, fetchPc)
    BY DEF InFlight
  <2>2. \A i \in 1 .. Len(rest) : Unresolved(rest[i]) => i = Len(rest) /\ issued.valid
    <3> SUFFICES ASSUME NEW i \in 1 .. Len(rest), Unresolved(rest[i])
                 PROVE  i = Len(rest) /\ issued.valid
      OBVIOUS
    <3>1. i + 1 \in 1 .. Len(rob) /\ rest[i] = rob[i + 1]
      BY <1>1
    <3> QED BY <1>1, <2>1, <3>1 DEF PathOK
  <2>3. \A i \in 1 .. Len(rest) - 1 :
          rest[i + 1].pc = NextOf(rest[i].pc, rest[i].eff.target)
    <3> TAKE i \in 1 .. Len(rest) - 1
    <3>1. /\ i + 1 \in 1 .. Len(rob) - 1
          /\ rest[i] = rob[i + 1] /\ rest[i + 1] = rob[(i + 1) + 1]
      BY <1>1
    <3> QED BY <2>1, <3>1 DEF PathOK
  <2>4. ~Unresolved(rob[1])
    BY <1>1 DEF Unresolved
  <2>5. CASE Len(rest) = 0
    <3>1. Len(rob) = 1
      BY <1>1, <2>5
    <3> QED BY <1>1, <2>1, <2>2, <2>3, <2>4, <2>5, <3>1 DEF PathOK
  <2>6. CASE Len(rest) # 0
    <3>1. rest[1] = rob[1 + 1] /\ 1 \in 1 .. Len(rob) - 1 /\ rest[Len(rest)] = rob[Len(rob)]
          /\ Len(rob) # 0
      BY <1>1, <2>6
    <3>2. rest[1].pc = on
      BY <1>1, <2>1, <3>1 DEF PathOK
    <3> HIDE DEF on
    <3> QED BY <2>1, <2>2, <2>3, <2>6, <3>1, <3>2 DEF PathOK
  <2> QED BY <2>5, <2>6
<1> QED BY <1>2, <1>3, <1>5, <1>6, <1>7 DEF InFlight, rest

LEMMA Located ==
  ASSUME NEW rob, NEW i \in 1 .. Len(rob), BufferOK(rob)
  PROVE  /\ DOMAIN rob = 1 .. Len(rob)
         /\ (CHOOSE k \in DOMAIN rob : rob[k].tag = rob[i].tag) = i
<1>1. DOMAIN rob = 1 .. Len(rob)
  BY DEF BufferOK, IsSeq
<1> QED BY <1>1 DEF BufferOK

\* The entry at k of the buffer is complete.
Marked(rob, k, eff) == [rob EXCEPT ![k] = [@ EXCEPT !.ready = TRUE, !.eff = eff]]

\* What changes in the buffer, and what does not.
IsMarked(marked, rob, k, eff) ==
  /\ BufferOK(marked) /\ Len(marked) = Len(rob)
  /\ \A i \in 1 .. Len(rob) :
       /\ i # k => marked[i] = rob[i]
       /\ marked[i].tag = rob[i].tag /\ marked[i].pc = rob[i].pc
       /\ marked[i].insn = rob[i].insn
  /\ marked[k].ready = TRUE /\ marked[k].eff = eff

LEMMA MarkedFacts ==
  ASSUME NEW rob, NEW k \in 1 .. Len(rob), NEW eff, BufferOK(rob), EffectOK(eff),
         eff.target # None => rob[k].insn.op \in ControlFlow
  PROVE  IsMarked(Marked(rob, k, eff), rob, k, eff)
<1> DEFINE marked == Marked(rob, k, eff)
           entry == [rob[k] EXCEPT !.ready = TRUE, !.eff = eff]
<1>1. IsSeq(rob) /\ EntryOK(rob[k]) /\ DOMAIN rob = 1 .. Len(rob)
  BY Located DEF BufferOK
<1>2. /\ DOMAIN entry = EntryFields /\ entry.ready = TRUE /\ entry.eff = eff
      /\ entry.tag = rob[k].tag /\ entry.pc = rob[k].pc /\ entry.insn = rob[k].insn
  BY <1>1 DEF EntryOK, EntryFields
<1>3. marked = [rob EXCEPT ![k] = entry]
  BY <1>1 DEF Marked
<1> HIDE DEF entry, marked
<1>4. /\ IsSeq(marked) /\ Len(marked) = Len(rob)
      /\ \A i \in 1 .. Len(rob) : marked[i] = IF i = k THEN entry ELSE rob[i]
  BY ONLY <1>1, <1>3, k \in 1 .. Len(rob), ReplaceSeq
<1>5. EntryOK(entry)
  BY <1>2 DEF EntryOK
<1>6. \A i \in 1 .. Len(rob) : marked[i].tag = rob[i].tag
  BY <1>2, <1>4
<1>7. BufferOK(marked)
  BY <1>4, <1>5, <1>6 DEF BufferOK
<1>8. IsMarked(marked, rob, k, eff)
  BY <1>2, <1>4, <1>7 DEF IsMarked
<1> QED BY <1>8 DEF marked

\* The instruction in memory is done: it reads what it reads and goes nowhere.
LEMMA MemoryDone ==
  ASSUME NEW pc, NEW rob, NEW fetched, NEW issued, NEW waiting, NEW fetchPc, NEW eff,
         InFlight(pc, rob, fetched, issued, waiting, fetchPc), waiting.valid,
         EffectOK(eff), eff.target = None
  PROVE  \E k \in 1 .. Len(rob) :
           /\ rob[k].tag = waiting.tag
           /\ InFlight(pc, Marked(rob, k, eff), fetched, issued, NoSlot, fetchPc)
<1>1. PICK k \in 1 .. Len(rob) :
        /\ rob[k].tag = waiting.tag
        /\ ~rob[k].ready /\ rob[k].insn.op \notin ControlFlow
        /\ issued.valid => k # Len(rob)
  BY DEF InFlight, WaitingOK
<1> DEFINE marked == Marked(rob, k, eff)
<1>2. /\ BufferOK(marked) /\ Len(marked) = Len(rob) /\ Len(rob) \in Nat
      /\ \A i \in 1 .. Len(rob) :
           /\ i # k => marked[i] = rob[i]
           /\ marked[i].tag = rob[i].tag /\ marked[i].pc = rob[i].pc
           /\ marked[i].insn = rob[i].insn
      /\ marked[k].ready = TRUE /\ marked[k].eff = eff
  <2>1. BufferOK(rob) /\ Len(rob) \in Nat
    BY DEF InFlight, BufferOK, IsSeq
  <2>2. IsMarked(marked, rob, k, eff)
    BY <2>1, MarkedFacts
  <2> QED BY <2>1, <2>2 DEF IsMarked
<1> HIDE DEF marked
<1>3. rob[k].eff.target = None
  BY <1>1 DEF InFlight, BufferOK, EntryOK
<1>4. IssuedOK(issued, marked)
  BY <1>1, <1>2 DEF InFlight, IssuedOK
<1>5. WaitingOK(NoSlot, issued, marked)
  BY DEF WaitingOK, NoSlot
<1>6. \A i \in 1 .. Len(rob) :
        /\ Unresolved(marked[i]) <=> Unresolved(rob[i])
        /\ marked[i].eff.target = rob[i].eff.target
  BY <1>1, <1>2, <1>3 DEF Unresolved
<1>7. PathOK(pc, marked, fetched, issued, fetchPc)
  <2>1. PathOK(pc, rob, fetched, issued, fetchPc)
    BY DEF InFlight
  <2>2. \A i \in 1 .. Len(rob) - 1 : marked[i + 1].pc = NextOf(marked[i].pc, marked[i].eff.target)
    <3> TAKE i \in 1 .. Len(rob) - 1
    <3>1. i \in 1 .. Len(rob) /\ i + 1 \in 1 .. Len(rob)
      BY <1>2
    <3> QED BY <1>2, <1>6, <2>1, <3>1 DEF PathOK
  <2>3. Len(rob) # 0 => 1 \in 1 .. Len(rob) /\ Len(rob) \in 1 .. Len(rob)
    BY <1>2
  <2> QED BY <1>2, <1>6, <2>1, <2>2, <2>3 DEF PathOK
<1> QED BY <1>1, <1>2, <1>4, <1>5, <1>7 DEF InFlight, marked

\* The instruction in execute is done; what was fetched behind it stays if it goes where it
\* was predicted to go.
LEMMA ExecuteDone ==
  ASSUME NEW pc, NEW rob, NEW fetched, NEW issued, NEW waiting, NEW fetchPc, NEW eff,
         InFlight(pc, rob, fetched, issued, waiting, fetchPc), issued.valid,
         EffectOK(eff), eff.target # None => issued.insn.op \in ControlFlow
  PROVE  /\ Len(rob) \in 1 .. Len(rob) /\ rob[Len(rob)].tag = issued.tag
         /\ issued.predicted = eff.target \/ issued.insn.op \notin ControlFlow =>
              InFlight(pc, Marked(rob, Len(rob), eff), fetched, NoSlot, waiting, fetchPc)
         /\ InFlight(pc, Marked(rob, Len(rob), eff), NoSlot, NoSlot, waiting,
                     NextOf(issued.pc, eff.target))
<1> DEFINE n == Len(rob)
           marked == Marked(rob, n, eff)
<1>1. /\ n \in 1 .. n /\ n \in Nat
      /\ rob[n].tag = issued.tag /\ rob[n].pc = issued.pc
      /\ rob[n].insn = issued.insn /\ ~rob[n].ready
      /\ (issued.insn.op \notin ControlFlow => issued.predicted = None)
  BY DEF InFlight, BufferOK, IsSeq, IssuedOK
<1>2. /\ BufferOK(marked) /\ Len(marked) = n
      /\ \A i \in 1 .. n :
           /\ i # n => marked[i] = rob[i]
           /\ marked[i].tag = rob[i].tag /\ marked[i].pc = rob[i].pc
           /\ marked[i].insn = rob[i].insn
      /\ marked[n].ready = TRUE /\ marked[n].eff = eff
  <2>1. BufferOK(rob) /\ (eff.target # None => rob[n].insn.op \in ControlFlow)
    BY <1>1 DEF InFlight
  <2>2. IsMarked(marked, rob, n, eff)
    BY <1>1, <2>1, MarkedFacts
  <2> QED BY <2>2 DEF IsMarked
<1> HIDE DEF marked
<1>3. NoSlot.valid = FALSE
  BY DEF NoSlot
<1>4. IssuedOK(NoSlot, marked)
  BY <1>3 DEF IssuedOK
<1>5. WaitingOK(waiting, NoSlot, marked)
  <2>1. CASE waiting.valid
    <3>1. PICK i \in 1 .. n :
            /\ rob[i].tag = waiting.tag
            /\ ~rob[i].ready /\ rob[i].insn.op \notin ControlFlow
            /\ i # n
      BY <2>1 DEF InFlight, WaitingOK
    <3>2. marked[i] = rob[i] /\ i \in 1 .. Len(marked)
      BY <1>2, <3>1
    <3> QED BY <1>3, <2>1, <3>1, <3>2 DEF InFlight, WaitingOK
  <2>2. CASE ~waiting.valid
    BY <2>2 DEF InFlight, WaitingOK
  <2> QED BY <2>1, <2>2
<1>6. PathOK(pc, rob, fetched, issued, fetchPc)
  BY DEF InFlight
<1>7. \A i \in 1 .. n : ~Unresolved(marked[i])
  <2> TAKE i \in 1 .. n
  <2>1. CASE i = n
    BY <1>2, <2>1 DEF Unresolved
  <2>2. CASE i # n
    BY <1>2, <1>6, <2>2 DEF PathOK
  <2> QED BY <2>1, <2>2
<1>8. \A i \in 1 .. n - 1 : marked[i + 1].pc = NextOf(marked[i].pc, marked[i].eff.target)
  <2> TAKE i \in 1 .. n - 1
  <2>1. i \in 1 .. n /\ i # n /\ i + 1 \in 1 .. n
    BY <1>1
  <2> QED BY <1>2, <1>6, <2>1 DEF PathOK
<1>9. n # 0 /\ 1 \in 1 .. n /\ marked[1].pc = pc
  BY <1>1, <1>2, <1>6 DEF PathOK
<1>10. ASSUME issued.predicted = eff.target \/ issued.insn.op \notin ControlFlow
       PROVE  PathOK(pc, marked, fetched, NoSlot, fetchPc)
  <2>1. rob[n].eff.target = None
    BY <1>1 DEF InFlight, BufferOK, EntryOK
  <2>2. NextOf(rob[n].pc, IF Unresolved(rob[n]) THEN issued.predicted ELSE rob[n].eff.target)
          = NextOf(marked[n].pc, eff.target)
    BY <1>1, <1>2, <1>10, <2>1 DEF Unresolved
  <2> QED BY <1>1, <1>2, <1>6, <1>7, <1>8, <1>9, <2>2 DEF PathOK
<1>11. PathOK(pc, marked, NoSlot, NoSlot, NextOf(issued.pc, eff.target))
  BY <1>1, <1>2, <1>3, <1>7, <1>8, <1>9 DEF PathOK
<1>12. FetchedOK(NoSlot, NextOf(issued.pc, eff.target))
  BY <1>3 DEF FetchedOK
<1> QED BY <1>1, <1>2, <1>4, <1>5, <1>10, <1>11, <1>12 DEF InFlight, marked

\* A load or a store goes on to memory.
LEMMA GoesToMemory ==
  ASSUME NEW pc, NEW rob, NEW fetched, NEW issued, NEW waiting, NEW fetchPc, NEW done,
         InFlight(pc, rob, fetched, issued, waiting, fetchPc), issued.valid,
         issued.insn.op \notin ControlFlow,
         DOMAIN done = IssuedFields, done.valid = issued.valid, done.tag = issued.tag,
         EffectOK(done.eff), done.eff.target = None
  PROVE  InFlight(pc, rob, fetched, NoSlot, done, fetchPc)
<1> DEFINE n == Len(rob)
<1>1. /\ n \in 1 .. n /\ n \in Nat /\ issued.valid = TRUE
      /\ rob[n].tag = issued.tag /\ rob[n].insn = issued.insn /\ ~rob[n].ready
  BY DEF InFlight, BufferOK, IsSeq, IssuedOK
<1>2. NoSlot.valid = FALSE
  BY DEF NoSlot
<1>3. WaitingOK(done, NoSlot, rob)
  BY <1>1, <1>2 DEF WaitingOK
<1>4. ~Unresolved(rob[n])
  BY <1>1 DEF Unresolved
<1>5. PathOK(pc, rob, fetched, NoSlot, fetchPc)
  BY <1>1, <1>4 DEF InFlight, PathOK
<1> QED BY <1>2, <1>3, <1>5 DEF InFlight, IssuedOK

\* The fetched instruction is decoded and joins the buffer.
LEMMA DecodeDone ==
  ASSUME NEW pc, NEW rob, NEW fetched, NEW issued, NEW waiting, NEW fetchPc, NEW entry,
         NEW slot,
         InFlight(pc, rob, fetched, issued, waiting, fetchPc), fetched.valid, ~issued.valid,
         EntryOK(entry), ~entry.ready, entry.pc = fetched.pc, entry.insn = fetched.insn,
         \A i \in 1 .. Len(rob) : rob[i].tag # entry.tag,
         DOMAIN slot = IssuedFields, slot.valid = fetched.valid, slot.pc = fetched.pc,
         slot.insn = fetched.insn, slot.predicted = fetched.predicted, slot.tag = entry.tag
  PROVE  InFlight(pc, Append(rob, entry), NoSlot, slot, waiting, fetchPc)
<1> DEFINE longer == Append(rob, entry)
           n == Len(rob) + 1
<1>1. /\ IsSeq(longer) /\ Len(longer) = n /\ Len(rob) \in Nat
      /\ \A i \in 1 .. Len(rob) : longer[i] = rob[i]
      /\ longer[n] = entry
  BY AppendSeq DEF InFlight, BufferOK
<1> HIDE DEF longer
<1>2. \A i \in 1 .. n : i \in 1 .. Len(rob) \/ i = n
  BY <1>1
<1>3. BufferOK(longer)
  BY <1>1, <1>2 DEF InFlight, BufferOK
<1>4. NoSlot.valid = FALSE /\ FetchedOK(NoSlot, fetchPc)
  BY DEF NoSlot, FetchedOK
<1>5. /\ fetched.valid = TRUE /\ fetched.insn \in Instruction
      /\ (fetched.insn.op \notin ControlFlow => fetched.predicted = None)
      /\ fetchPc = NextOf(fetched.pc, fetched.predicted)
  BY DEF InFlight, FetchedOK
<1>6. IssuedOK(slot, longer)
  <2>1. n # 0
    BY <1>1
  <2> QED BY <1>1, <1>5, <2>1 DEF IssuedOK
<1>7. WaitingOK(waiting, slot, longer)
  <2>1. CASE waiting.valid
    <3>1. PICK i \in 1 .. Len(rob) :
            rob[i].tag = waiting.tag /\ ~rob[i].ready /\ rob[i].insn.op \notin ControlFlow
      BY <2>1 DEF InFlight, WaitingOK
    <3>2. longer[i] = rob[i] /\ i \in 1 .. n /\ i # n
      BY <1>1, <3>1
    <3> QED BY <1>1, <2>1, <3>1, <3>2 DEF InFlight, WaitingOK
  <2>2. CASE ~waiting.valid
    BY <2>2 DEF InFlight, WaitingOK
  <2> QED BY <2>1, <2>2
<1>8. PathOK(pc, rob, fetched, issued, fetchPc)
  BY DEF InFlight
<1>9. \A i \in 1 .. Len(rob) : ~Unresolved(rob[i])
  BY <1>8 DEF PathOK
<1>10. entry.eff.target = None
  BY DEF EntryOK
<1>11. fetchPc = NextOf(entry.pc, IF Unresolved(entry) THEN slot.predicted ELSE entry.eff.target)
  BY <1>5, <1>10 DEF Unresolved
<1>12. \A i \in 1 .. n - 1 : longer[i + 1].pc = NextOf(longer[i].pc, longer[i].eff.target)
  <2> TAKE i \in 1 .. n - 1
  <2>1. CASE i = Len(rob)
    <3>1. Len(rob) # 0 /\ i + 1 = n /\ i \in 1 .. Len(rob) /\ longer[i] = rob[i]
      BY <1>1, <2>1
    <3> QED BY <1>1, <1>5, <1>8, <1>9, <2>1, <3>1 DEF PathOK
  <2>2. CASE i # Len(rob)
    <3>1. i \in 1 .. Len(rob) - 1 /\ i \in 1 .. Len(rob) /\ i + 1 \in 1 .. Len(rob)
      BY <1>1, <2>2
    <3> QED BY <1>1, <1>8, <3>1 DEF PathOK
  <2> QED BY <2>1, <2>2
<1>13. longer[1].pc = pc
  <2>1. CASE Len(rob) = 0
    BY <1>1, <1>5, <1>8, <2>1 DEF PathOK
  <2>2. CASE Len(rob) # 0
    BY <1>1, <1>8, <2>2 DEF PathOK
  <2> QED BY <2>1, <2>2
<1>14. \A i \in 1 .. n : Unresolved(longer[i]) => i = n /\ slot.valid
  BY <1>1, <1>2, <1>5, <1>9
<1>15. PathOK(pc, longer, NoSlot, slot, fetchPc)
  <2>1. n # 0
    BY <1>1
  <2> QED BY <1>1, <1>4, <1>11, <1>12, <1>13, <1>14, <2>1 DEF PathOK
<1> QED BY <1>3, <1>4, <1>6, <1>7, <1>15 DEF InFlight, longer

\* An instruction is fetched.
LEMMA FetchDone ==
  ASSUME NEW pc, NEW rob, NEW fetched, NEW issued, NEW waiting, NEW fetchPc, NEW insn,
         NEW predicted,
         InFlight(pc, rob, fetched, issued, waiting, fetchPc), ~fetched.valid,
         insn \in Instruction, insn.op \notin ControlFlow => predicted = None
  PROVE  InFlight(pc, rob,
                  [valid |-> TRUE, pc |-> fetchPc, insn |-> insn, predicted |-> predicted],
                  issued, waiting, NextOf(fetchPc, predicted))
<1> DEFINE slot == [valid |-> TRUE, pc |-> fetchPc, insn |-> insn, predicted |-> predicted]
<1>1. /\ slot.valid = TRUE /\ slot.pc = fetchPc /\ slot.insn = insn
      /\ slot.predicted = predicted /\ DOMAIN slot = FetchedFields
  BY DEF FetchedFields
<1> HIDE DEF slot
<1>2. FetchedOK(slot, NextOf(fetchPc, predicted))
  BY <1>1 DEF FetchedOK
<1>3. PathOK(pc, rob, slot, issued, NextOf(fetchPc, predicted))
  BY <1>1 DEF InFlight, PathOK
<1> QED BY <1>2, <1>3 DEF InFlight, slot
-----------------------------------------------------------------------------
(* The machine inside a cycle *)

MachineFields ==
  {"fetchPc", "fault", "ifId", "idEx", "exMem", "memWb", "exMemCycles", "rename", "phys",
   "rob", "lsq", "committed", "trapFlush", "cpu", "predictor", "irq", "nextIfId",
   "nextIdEx", "nextExMem", "nextMemWb", "nextExMemCycles", "redirect"}

\* With these instructions before decode, execute and memory.
Within(m, fetched, issued, waiting) ==
  /\ DOMAIN m = MachineFields /\ DOMAIN m.cpu = CpuFields
  /\ InFlight(m.cpu.pc, m.rob, fetched, issued, waiting, m.fetchPc)
  /\ m.fault = None \/ m.fault = m.fetchPc

\* Before the memory stage: what is in flight is in the latches.
AtBoundary(m) ==
  /\ Within(m, m.ifId, m.idEx, m.exMem)
  /\ m.nextIfId = NoSlot /\ m.nextIdEx = NoSlot /\ m.nextExMem = NoSlot
  /\ m.redirect = FALSE

\* From decode on: what is in flight is in the latches that the stages have filled.
AfterDecode(m) == Within(m, m.nextIfId, m.nextIdEx, m.nextExMem)

LEMMA FlushEmpties ==
  ASSUME NEW m, DOMAIN m = MachineFields, DOMAIN m.cpu = CpuFields, m.rob = <<>>
  PROVE  AtBoundary(Flush(m)) /\ AfterDecode(Flush(m))
<1> DEFINE r == Flush(m)
<1>1. /\ DOMAIN r = MachineFields /\ r.cpu = m.cpu /\ r.rob = m.rob
      /\ r.ifId = NoSlot /\ r.idEx = NoSlot /\ r.exMem = NoSlot
      /\ r.nextIfId = NoSlot /\ r.nextIdEx = NoSlot /\ r.nextExMem = NoSlot
      /\ r.fetchPc = m.cpu.pc /\ r.fault = None /\ r.redirect = FALSE
  BY DEF Flush, MachineFields
<1> HIDE DEF r
<1>2. InFlight(m.cpu.pc, <<>>, NoSlot, NoSlot, NoSlot, m.cpu.pc)
  BY NoneInFlight
<1>3. AtBoundary(r) /\ AfterDecode(r)
  BY <1>1, <1>2 DEF AtBoundary, AfterDecode, Within
<1> QED BY <1>3 DEF r

LEMMA SquashEmpties ==
  ASSUME NEW m, DOMAIN m = MachineFields, DOMAIN m.cpu = CpuFields
  PROVE  AtBoundary(Squash(m)) /\ AfterDecode(Squash(m))
<1> DEFINE empty == [m EXCEPT !.rename = RollbackRename(@), !.rob = << >>, !.lsq = << >>,
                              !.phys = CommittedPhys(m.rename, m.cpu.gpr)]
<1>1. DOMAIN empty = MachineFields /\ empty.cpu = m.cpu /\ empty.rob = <<>>
  BY DEF MachineFields
<1>2. Squash(m) = Flush(empty)
  BY DEF Squash
<1> HIDE DEF empty
<1> QED BY <1>1, <1>2, FlushEmpties

\* The flag that a trap flushed is nothing to the instructions in flight.
LEMMA FlagKeeps ==
  ASSUME NEW m, NEW flag, DOMAIN m = MachineFields
  PROVE  /\ AtBoundary(m) => AtBoundary([m EXCEPT !.trapFlush = flag])
         /\ AfterDecode(m) => AfterDecode([m EXCEPT !.trapFlush = flag])
<1> DEFINE r == [m EXCEPT !.trapFlush = flag]
<1>2. /\ DOMAIN r = MachineFields /\ r.cpu = m.cpu /\ r.rob = m.rob
      /\ r.ifId = m.ifId /\ r.idEx = m.idEx /\ r.exMem = m.exMem
      /\ r.nextIfId = m.nextIfId /\ r.nextIdEx = m.nextIdEx /\ r.nextExMem = m.nextExMem
      /\ r.fetchPc = m.fetchPc /\ r.fault = m.fault /\ r.redirect = m.redirect
  BY DEF MachineFields
<1> HIDE DEF r
<1>3. AtBoundary(m) => AtBoundary(r)
  BY <1>2 DEF AtBoundary, Within
<1>4. AfterDecode(m) => AfterDecode(r)
  BY <1>2 DEF AfterDecode, Within
<1> QED BY <1>3, <1>4 DEF r

LEMMA WriteBackKeeps ==
  ASSUME NEW m, NEW line, AtBoundary(m)
  PROVE  AtBoundary(WriteBack(m, line))
<1> DEFINE head == Head(m.rob)
           eff == [head.eff EXCEPT !.mem = IF @ = "load" THEN "none" ELSE @, !.rd = None]
           result == CommitBoundary(m.cpu, head.pc, head.arch, eff)
           renamed == result.retired /\ head.arch # 0 /\ head.phys # 0
           newCpu == IF renamed
                     THEN WriteGpr(result.cpu, head.arch, m.phys[head.phys].value)
                     ELSE result.cpu
           newRename == IF renamed THEN CommitDest(m.rename, head.arch, head.phys)
                        ELSE m.rename
           newLsq == IF result.retired
                     THEN SelectSeq(m.lsq, LAMBDA e : ~(/\ e.tag = head.tag
                                                        /\ e.addrReady
                                                        /\ e.dataReady
                                                        /\ e.orderReady))
                     ELSE m.lsq
           newRob == IF result.retired THEN Tail(m.rob) ELSE m.rob
           newIrq == IF result.mmio THEN line ELSE m.irq
           committed == [m EXCEPT !.cpu = newCpu, !.rename = newRename, !.lsq = newLsq,
                                  !.rob = newRob, !.irq = newIrq,
                                  !.committed = result.retired]
<1>1. CASE m.rob = <<>> \/ ~Head(m.rob).ready
  BY <1>1 DEF WriteBack
<1>2. CASE m.rob # <<>> /\ Head(m.rob).ready
  <2>1. WriteBack(m, line) =
          IF result.flush THEN [Squash(committed) EXCEPT !.trapFlush = TRUE] ELSE committed
    BY <1>2 DEF WriteBack
  <2>2. DOMAIN m = MachineFields /\ DOMAIN m.cpu = CpuFields /\ EntryOK(head)
        /\ InFlight(m.cpu.pc, m.rob, m.ifId, m.idEx, m.exMem, m.fetchPc)
    <3>1. DOMAIN m = MachineFields /\ DOMAIN m.cpu = CpuFields
          /\ InFlight(m.cpu.pc, m.rob, m.ifId, m.idEx, m.exMem, m.fetchPc)
      BY DEF AtBoundary, Within
    <3>2. BufferOK(m.rob)
      BY <3>1 DEF InFlight
    <3>3. head = m.rob[1] /\ 1 \in 1 .. Len(m.rob)
      BY <1>2, <3>2, TailSeq DEF BufferOK
    <3> QED BY <3>1, <3>2, <3>3 DEF BufferOK
  <2>3. EffectOK(eff) /\ eff.target = head.eff.target
    BY <2>2 DEF EntryOK, EffectOK, EffectFields
  <2> HIDE DEF eff
  <2>4. /\ DOMAIN result.cpu = CpuFields
        /\ result.flush \in BOOLEAN /\ result.retired \in BOOLEAN
        /\ ~result.flush =>
             result.retired /\ result.cpu.pc = NextOf(head.pc, head.eff.target)
    BY <2>2, <2>3, CommitMovesOn
  <2> HIDE DEF result
  <2>5. DOMAIN newCpu = CpuFields /\ newCpu.pc = result.cpu.pc
    BY <2>4 DEF WriteGpr, CpuFields
  <2> HIDE DEF newCpu, newRename, newLsq, newIrq
  <2>6. /\ DOMAIN committed = MachineFields /\ committed.cpu = newCpu
        /\ committed.rob = newRob
        /\ committed.ifId = m.ifId /\ committed.idEx = m.idEx /\ committed.exMem = m.exMem
        /\ committed.nextIfId = m.nextIfId /\ committed.nextIdEx = m.nextIdEx
        /\ committed.nextExMem = m.nextExMem /\ committed.fetchPc = m.fetchPc
        /\ committed.fault = m.fault /\ committed.redirect = m.redirect
    BY <2>2 DEF MachineFields
  <2> HIDE DEF committed
  <2>7. CASE result.flush
    <3>1. AtBoundary(Squash(committed)) /\ DOMAIN Squash(committed) = MachineFields
      BY <2>5, <2>6, SquashEmpties DEF AtBoundary, Within
    <3> QED BY <2>1, <2>7, <3>1, FlagKeeps
  <2>8. CASE ~result.flush
    <3>1. newRob = Tail(m.rob) /\ newCpu.pc = NextOf(head.pc, head.eff.target)
      BY <2>4, <2>5, <2>8
    <3>2. InFlight(newCpu.pc, newRob, m.ifId, m.idEx, m.exMem, m.fetchPc)
      BY <1>2, <2>2, <3>1, Retired
    <3> HIDE DEF newRob
    <3>3. AtBoundary(committed)
      BY <2>5, <2>6, <3>2 DEF AtBoundary, Within
    <3> QED BY <2>1, <2>8, <3>3
  <2> QED BY <2>7, <2>8
<1> QED BY <1>1, <1>2

LEMMA TrapKeeps ==
  ASSUME NEW m, NEW atStart, AtBoundary(m)
  PROVE  AtBoundary(TrapAtBoundary(m, atStart))
<1>1. DOMAIN m = MachineFields /\ DOMAIN m.cpu = CpuFields
  BY DEF AtBoundary, Within
<1>2. CASE FetchFaultDue(m)
  <2> DEFINE c == EnterTrap([m.cpu EXCEPT !.pc = m.fault], "fetchFault")
             n == [m EXCEPT !.cpu = c]
  <2>1. TrapAtBoundary(m, atStart) = [Flush(n) EXCEPT !.trapFlush = TRUE]
    BY <1>1, <1>2 DEF TrapAtBoundary, MachineFields
  <2>2. DOMAIN c = CpuFields /\ m.rob = <<>>
    BY <1>1, <1>2 DEF EnterTrap, FetchFaultDue
  <2> HIDE DEF c
  <2>3. DOMAIN n = MachineFields /\ n.cpu = c /\ n.rob = <<>>
    BY <1>1, <2>2 DEF MachineFields
  <2> HIDE DEF n
  <2>4. AtBoundary(Flush(n)) /\ DOMAIN Flush(n) = MachineFields
    BY <2>2, <2>3, FlushEmpties DEF AtBoundary, Within
  <2> QED BY <2>1, <2>4, FlagKeeps
<1>3. CASE ~FetchFaultDue(m) /\ InterruptDue(m, atStart)
  <2> DEFINE c == EnterTrap(m.cpu, "interrupt")
             n == [m EXCEPT !.cpu = c, !.irq = FALSE]
  <2>1. TrapAtBoundary(m, atStart) = [Squash(n) EXCEPT !.trapFlush = TRUE]
    BY <1>1, <1>3 DEF TrapAtBoundary, MachineFields
  <2>2. DOMAIN c = CpuFields
    BY <1>1 DEF EnterTrap
  <2> HIDE DEF c
  <2>3. DOMAIN n = MachineFields /\ n.cpu = c
    BY <1>1, <2>2 DEF MachineFields
  <2> HIDE DEF n
  <2>4. AtBoundary(Squash(n)) /\ DOMAIN Squash(n) = MachineFields
    BY <2>2, <2>3, SquashEmpties DEF AtBoundary, Within
  <2> QED BY <2>1, <2>4, FlagKeeps
<1>4. CASE ~FetchFaultDue(m) /\ ~InterruptDue(m, atStart)
  BY <1>4 DEF TrapAtBoundary
<1> QED BY <1>2, <1>3, <1>4
\* After the memory stage: the instruction before memory, if it is not done, waits on.
AfterMemory(m) ==
  /\ Within(m, m.ifId, m.idEx, m.nextExMem)
  /\ m.nextIfId = NoSlot /\ m.nextIdEx = NoSlot
  /\ m.redirect = FALSE

\* What concerns the instructions in flight, but for the buffer and the latches that the
\* stages fill.
SameOld(r, m) ==
  /\ DOMAIN r = MachineFields
  /\ r.ifId = m.ifId /\ r.idEx = m.idEx /\ r.exMem = m.exMem
  /\ r.nextIfId = m.nextIfId /\ r.nextIdEx = m.nextIdEx
  /\ r.fetchPc = m.fetchPc /\ r.fault = m.fault /\ r.redirect = m.redirect

LEMMA MarkReadyIs ==
  ASSUME NEW m, NEW tag, NEW eff, DOMAIN m = MachineFields, BufferOK(m.rob),
         NEW k \in 1 .. Len(m.rob), m.rob[k].tag = tag
  PROVE  /\ SameOld(MarkReady(m, tag, eff), m)
         /\ MarkReady(m, tag, eff).rob = Marked(m.rob, k, eff)
         /\ MarkReady(m, tag, eff).cpu = m.cpu
         /\ MarkReady(m, tag, eff).nextExMem = m.nextExMem
<1>1. RobAt(m, tag) = k /\ DOMAIN m.rob = 1 .. Len(m.rob)
  BY Located DEF RobAt
<1> DEFINE marked == Marked(m.rob, k, eff)
<1>2. MarkReady(m, tag, eff) = [m EXCEPT !.rob = marked]
  BY <1>1 DEF MarkReady, Marked
<1> HIDE DEF marked
<1>3. SameOld([m EXCEPT !.rob = marked], m)
  BY DEF SameOld, MachineFields
<1>4. /\ [m EXCEPT !.rob = marked].rob = marked
      /\ [m EXCEPT !.rob = marked].cpu = m.cpu
      /\ [m EXCEPT !.rob = marked].nextExMem = m.nextExMem
  BY DEF MachineFields
<1> QED BY <1>2, <1>3, <1>4 DEF marked

LEMMA MemoryKeeps ==
  ASSUME NEW m, AtBoundary(m)
  PROVE  AfterMemory(MemoryStage(m))
<1> DEFINE slot == m.exMem
           eff == slot.eff
           forwarded == ForwardedValue(m, slot.tag, eff.addr, eff.size)
           value == IF forwarded # None THEN forwarded
                    ELSE Loaded(m.cpu, eff.addr, eff.size)
           loaded == [eff EXCEPT !.mem = "none", !.rd = value]
           faulted == [eff EXCEPT !.trap = "loadFault"]
           newLsq == SetOrderReady(m.lsq, slot.tag)
           newCpu == IF forwarded # None THEN m.cpu ELSE AfterLoad(m.cpu, eff.addr, eff.size)
           newPhys == IF slot.rd = 0 THEN m.phys ELSE WritePhys(m.phys, slot.rd, value)
           ordered == [m EXCEPT !.lsq = newLsq]
           read == [ordered EXCEPT !.cpu = newCpu, !.phys = newPhys]
           latched(n, e) == [n EXCEPT !.nextMemWb = [slot EXCEPT !.eff = e]]
           leave(n, e) == MarkReady(latched(n, e), slot.tag, e)
<1>1. /\ DOMAIN m = MachineFields /\ DOMAIN m.cpu = CpuFields
      /\ InFlight(m.cpu.pc, m.rob, m.ifId, m.idEx, slot, m.fetchPc)
      /\ (m.fault = None \/ m.fault = m.fetchPc)
      /\ m.nextIfId = NoSlot /\ m.nextIdEx = NoSlot /\ m.nextExMem = NoSlot
      /\ m.redirect = FALSE
  BY DEF AtBoundary, Within
<1>2. BufferOK(m.rob) /\ WaitingOK(slot, m.idEx, m.rob) /\ WaitingOK(NoSlot, m.idEx, m.rob)
  BY <1>1 DEF InFlight, WaitingOK, NoSlot
\* Whatever else changes, an instruction that leaves memory is marked.
<1>3. ASSUME NEW n, NEW e, slot.valid, SameOld(n, m), n.rob = m.rob,
             DOMAIN n.cpu = CpuFields, n.cpu.pc = m.cpu.pc, n.nextExMem = NoSlot,
             EffectOK(e), e.target = None
      PROVE  AfterMemory(leave(n, e))
  <2> DEFINE l == latched(n, e)
             passed == [slot EXCEPT !.eff = e]
  <2> HIDE DEF passed
  <2>1. /\ DOMAIN n = MachineFields
        /\ l = [n EXCEPT !.nextMemWb = passed]
    BY <1>3 DEF SameOld, passed
  <2> HIDE DEF l
  <2>2. SameOld(l, n) /\ l.rob = n.rob /\ l.cpu = n.cpu /\ l.nextExMem = n.nextExMem
    BY <2>1 DEF SameOld, MachineFields
  <2>3. PICK k \in 1 .. Len(m.rob) :
          /\ m.rob[k].tag = slot.tag
          /\ InFlight(m.cpu.pc, Marked(m.rob, k, e), m.ifId, m.idEx, NoSlot, m.fetchPc)
    BY <1>1, <1>3, MemoryDone
  <2> DEFINE r == MarkReady(l, slot.tag, e)
  <2>4. DOMAIN l = MachineFields /\ l.rob = m.rob
    BY <1>3, <2>2 DEF SameOld
  <2>5. SameOld(r, l) /\ r.rob = Marked(m.rob, k, e) /\ r.cpu = l.cpu
        /\ r.nextExMem = l.nextExMem
    BY <1>2, <2>3, <2>4, MarkReadyIs
  <2> HIDE DEF r
  <2>6. SameOld(r, m) /\ r.cpu = n.cpu /\ r.nextExMem = NoSlot
    BY <1>3, <2>2, <2>5 DEF SameOld
  <2>7. AfterMemory(r)
    BY <1>1, <1>3, <2>3, <2>5, <2>6 DEF AfterMemory, Within, SameOld
  <2> QED BY <2>7 DEF r, l
<1>4. ASSUME slot.valid
      PROVE  EffectOK(eff) /\ eff.target = None
  BY <1>2, <1>4 DEF WaitingOK
<1>5. ASSUME slot.valid
      PROVE  EffectOK(loaded) /\ loaded.target = None /\ EffectOK(faulted) /\ faulted.target = None
  BY <1>4, <1>5 DEF EffectOK, EffectFields
<1>6. DOMAIN newCpu = CpuFields /\ newCpu.pc = m.cpu.pc
  BY <1>1 DEF AfterLoad, CpuFields
<1>7. CASE ~slot.valid
  <2>1. MemoryStage(m) = m
    BY <1>7 DEF MemoryStage
  <2>2. InFlight(m.cpu.pc, m.rob, m.ifId, m.idEx, NoSlot, m.fetchPc)
    BY <1>1, <1>2 DEF InFlight
  <2> QED BY <1>1, <2>1, <2>2 DEF AfterMemory, Within
<1>8. CASE slot.valid /\ m.exMemCycles # 0
  <2> DEFINE cycles == m.exMemCycles - 1
             r == [m EXCEPT !.nextExMem = slot, !.nextExMemCycles = cycles]
  <2>1. MemoryStage(m) = r
    BY <1>8 DEF MemoryStage
  <2> HIDE DEF cycles
  <2>2. SameOld(r, m) /\ r.rob = m.rob /\ r.cpu = m.cpu /\ r.nextExMem = slot
    BY <1>1 DEF SameOld, MachineFields
  <2> HIDE DEF r
  <2>3. AfterMemory(r)
    BY <1>1, <2>2 DEF AfterMemory, Within, SameOld
  <2> QED BY <2>1, <2>3
<1> HIDE DEF loaded, faulted, newLsq, newCpu, newPhys
<1>9. SameOld(ordered, m) /\ ordered.rob = m.rob /\ ordered.cpu = m.cpu
      /\ ordered.nextExMem = NoSlot
  BY <1>1 DEF SameOld, MachineFields
<1>10. SameOld(read, m) /\ read.rob = m.rob /\ read.cpu = newCpu
       /\ read.nextExMem = NoSlot
  BY <1>1 DEF SameOld, MachineFields
<1>11. SameOld(m, m)
  BY <1>1 DEF SameOld
<1>12. CASE slot.valid /\ m.exMemCycles = 0 /\ eff.mem = "store"
  <2>1. MemoryStage(m) = leave(ordered, eff)
    BY <1>1, <1>12 DEF MemoryStage, newLsq, MachineFields
  <2> HIDE DEF ordered
  <2> QED BY <1>1, <1>3, <1>4, <1>9, <1>12, <2>1
<1>13. CASE slot.valid /\ m.exMemCycles = 0 /\ eff.mem # "store"
            /\ Region(eff.addr, eff.size) = "unmapped"
  <2>1. MemoryStage(m) = leave(m, faulted)
    BY <1>13 DEF MemoryStage, faulted
  <2> QED BY <1>1, <1>3, <1>5, <1>11, <1>13, <2>1
<1>14. CASE slot.valid /\ m.exMemCycles = 0 /\ eff.mem # "store"
            /\ Region(eff.addr, eff.size) # "unmapped"
  <2>1. MemoryStage(m) = leave(read, loaded)
    <3>1. ordered.cpu = m.cpu /\ ordered.phys = m.phys /\ m.lsq = m.lsq
      BY <1>1 DEF MachineFields
    <3> QED BY <1>1, <1>14, <3>1 DEF MemoryStage, loaded, newLsq, newCpu, newPhys, MachineFields
  <2> HIDE DEF read
  <2> QED BY <1>1, <1>3, <1>5, <1>6, <1>10, <1>14, <2>1
<1> QED BY <1>7, <1>8, <1>12, <1>13, <1>14
\* After execute: a wrong prediction discards what was fetched.
AfterExecute(m) ==
  /\ Within(m, IF m.redirect THEN NoSlot ELSE m.ifId, m.nextIdEx, m.nextExMem)
  /\ m.nextIfId = NoSlot
  /\ m.redirect \in BOOLEAN

\* An instruction with its effects.
LEMMA WithEffects ==
  ASSUME NEW slot, NEW eff, DOMAIN slot = IssuedFields
  PROVE  LET done == [slot EXCEPT !.eff = eff]
         IN  /\ DOMAIN done = IssuedFields /\ done.eff = eff
             /\ done.valid = slot.valid /\ done.tag = slot.tag /\ done.pc = slot.pc
             /\ done.insn = slot.insn /\ done.predicted = slot.predicted
BY DEF IssuedFields, FetchedFields

LEMMA IssueKeeps ==
  ASSUME NEW m, NEW done, AfterMemory(m), m.idEx.valid,
         m.idEx.insn.op \notin ControlFlow,
         DOMAIN done = IssuedFields, done.valid = m.idEx.valid, done.tag = m.idEx.tag,
         EffectOK(done.eff), done.eff.target = None
  PROVE  AfterExecute(IssueToMemory(m, done))
<1>1. /\ DOMAIN m = MachineFields /\ DOMAIN m.cpu = CpuFields
      /\ InFlight(m.cpu.pc, m.rob, m.ifId, m.idEx, m.nextExMem, m.fetchPc)
      /\ (m.fault = None \/ m.fault = m.fetchPc)
      /\ m.nextIfId = NoSlot /\ m.nextIdEx = NoSlot /\ m.redirect = FALSE
  BY DEF AfterMemory, Within
<1>2. CASE ~MayIssue(m, done)
  <2> DEFINE r == [m EXCEPT !.nextIdEx = m.idEx]
  <2>1. IssueToMemory(m, done) = r
    BY <1>2 DEF IssueToMemory
  <2>2. SameOld(r, [m EXCEPT !.nextIdEx = m.idEx]) /\ DOMAIN r = MachineFields
        /\ r.rob = m.rob /\ r.cpu = m.cpu /\ r.nextExMem = m.nextExMem
        /\ r.nextIdEx = m.idEx /\ r.ifId = m.ifId /\ r.nextIfId = m.nextIfId
        /\ r.fetchPc = m.fetchPc /\ r.fault = m.fault /\ r.redirect = m.redirect
    BY <1>1 DEF SameOld, MachineFields
  <2> HIDE DEF r
  <2> QED BY <1>1, <2>1, <2>2 DEF AfterExecute, Within
<1>3. CASE MayIssue(m, done)
  <2> DEFINE entry == [tag |-> done.tag, kind |-> "load", addr |-> done.eff.addr,
                       size |-> done.eff.size, addrReady |-> TRUE, dataReady |-> FALSE,
                       orderReady |-> FALSE, data |-> 0, replay |-> FALSE]
             cycles == IF Region(done.eff.addr, done.eff.size) = "mmio" THEN 0 ELSE 1
             newLsq == IF done.eff.mem = "load" THEN Append(m.lsq, entry)
                       ELSE StoreResolved(m, done.tag, done.eff)
             r == [m EXCEPT !.nextExMem = done, !.nextExMemCycles = cycles, !.lsq = newLsq]
  <2>1. IssueToMemory(m, done) = r
    BY <1>3 DEF IssueToMemory
  <2> HIDE DEF cycles, newLsq
  <2>2. SameOld(r, m) /\ r.rob = m.rob /\ r.cpu = m.cpu /\ r.nextExMem = done
    BY <1>1 DEF SameOld, MachineFields
  <2> HIDE DEF r
  <2>3. InFlight(m.cpu.pc, m.rob, m.ifId, NoSlot, done, m.fetchPc)
    BY <1>1, GoesToMemory
  <2> QED BY <1>1, <2>1, <2>2, <2>3 DEF AfterExecute, Within, SameOld
<1> QED BY <1>2, <1>3

LEMMA CompleteKeeps ==
  ASSUME NEW m, NEW done, AfterMemory(m), m.idEx.valid,
         done.tag = m.idEx.tag, done.pc = m.idEx.pc, done.insn = m.idEx.insn,
         done.predicted = m.idEx.predicted,
         EffectOK(done.eff), done.eff.target # None => done.insn.op \in ControlFlow
  PROVE  AfterExecute(ResolveControl(CompleteInExecute(m, done), done))
<1>1. /\ DOMAIN m = MachineFields /\ DOMAIN m.cpu = CpuFields
      /\ InFlight(m.cpu.pc, m.rob, m.ifId, m.idEx, m.nextExMem, m.fetchPc)
      /\ (m.fault = None \/ m.fault = m.fetchPc)
      /\ m.nextIfId = NoSlot /\ m.nextIdEx = NoSlot /\ m.redirect = FALSE
  BY DEF AfterMemory, Within
<1> DEFINE n == Len(m.rob)
           eff == done.eff
           newPhys == IF done.rd # 0 /\ eff.rd # None
                      THEN WritePhys(m.phys, done.rd, eff.rd) ELSE m.phys
           newMemWb == IF m.nextMemWb.valid THEN m.nextMemWb ELSE done
           passed == [m EXCEPT !.phys = newPhys, !.nextMemWb = newMemWb]
           complete == MarkReady(passed, done.tag, eff)
           marked == Marked(m.rob, n, eff)
           target == NextOf(done.pc, eff.target)
<1>2. CompleteInExecute(m, done) = complete
  BY <1>1 DEF CompleteInExecute, MachineFields
<1> HIDE DEF newPhys, newMemWb
<1>3. SameOld(passed, m) /\ passed.rob = m.rob /\ passed.cpu = m.cpu
      /\ passed.nextExMem = m.nextExMem
  BY <1>1 DEF SameOld, MachineFields
<1> HIDE DEF passed
<1>4. /\ n \in 1 .. n /\ m.rob[n].tag = done.tag /\ BufferOK(m.rob)
      /\ done.predicted = eff.target \/ done.insn.op \notin ControlFlow =>
           InFlight(m.cpu.pc, marked, m.ifId, NoSlot, m.nextExMem, m.fetchPc)
      /\ InFlight(m.cpu.pc, marked, NoSlot, NoSlot, m.nextExMem, target)
  <2>1. BufferOK(m.rob)
    BY <1>1 DEF InFlight
  <2>2. EffectOK(eff) /\ (eff.target # None => m.idEx.insn.op \in ControlFlow)
    OBVIOUS
  <2>3. /\ n \in 1 .. n /\ m.rob[n].tag = m.idEx.tag
        /\ m.idEx.predicted = eff.target \/ m.idEx.insn.op \notin ControlFlow =>
             InFlight(m.cpu.pc, marked, m.ifId, NoSlot, m.nextExMem, m.fetchPc)
        /\ InFlight(m.cpu.pc, marked, NoSlot, NoSlot, m.nextExMem,
                    NextOf(m.idEx.pc, eff.target))
    BY ONLY <1>1, <2>2, m.idEx.valid, ExecuteDone
  <2> QED BY <2>1, <2>3
<1>5. /\ SameOld(complete, passed) /\ complete.rob = marked
      /\ complete.cpu = passed.cpu /\ complete.nextExMem = passed.nextExMem
  <2>1. DOMAIN passed = MachineFields
    BY <1>3 DEF SameOld
  <2> QED BY <1>3, <1>4, <2>1, MarkReadyIs
<1>6. /\ SameOld(complete, m) /\ complete.rob = marked
      /\ complete.cpu = m.cpu /\ complete.nextExMem = m.nextExMem
  BY <1>3, <1>5 DEF SameOld
<1> HIDE DEF complete, marked
<1> DEFINE table == Trained(complete.predictor, done.pc, done.insn, eff.target)
           trained == [complete EXCEPT !.predictor = table]
<1>7. /\ SameOld(trained, m) /\ trained.rob = marked
      /\ trained.cpu = m.cpu /\ trained.nextExMem = m.nextExMem
  BY <1>6 DEF SameOld, MachineFields
<1>8. ASSUME NEW r, SameOld(r, m), r.rob = marked, r.cpu = m.cpu, r.nextExMem = m.nextExMem,
             done.predicted = eff.target \/ done.insn.op \notin ControlFlow
      PROVE  AfterExecute(r)
  BY <1>1, <1>4, <1>8 DEF AfterExecute, Within, SameOld
<1>9. CASE done.insn.op \notin ControlFlow
  BY <1>2, <1>6, <1>8, <1>9 DEF ResolveControl
<1>10. CASE done.insn.op \in ControlFlow /\ done.predicted = eff.target
  <2>1. ResolveControl(complete, done) = trained
    BY <1>6, <1>10 DEF ResolveControl, SameOld, MachineFields
  <2> HIDE DEF trained
  <2> QED BY <1>2, <1>7, <1>8, <1>10, <2>1
<1>11. CASE done.insn.op \in ControlFlow /\ done.predicted # eff.target
  <2> DEFINE r == [trained EXCEPT !.redirect = TRUE, !.nextIfId = NoSlot, !.nextIdEx = NoSlot,
                                  !.fault = None, !.fetchPc = target]
  <2>1. ResolveControl(complete, done) = r
    BY <1>6, <1>11 DEF ResolveControl, SameOld, MachineFields, NextOf
  <2> HIDE DEF trained, target
  <2>2. /\ DOMAIN r = MachineFields /\ r.rob = marked /\ r.cpu = m.cpu
        /\ r.nextExMem = m.nextExMem /\ r.nextIfId = NoSlot /\ r.nextIdEx = NoSlot
        /\ r.fault = None /\ r.fetchPc = target /\ r.redirect = TRUE
    BY <1>7 DEF SameOld, MachineFields
  <2> HIDE DEF r
  <2> QED BY <1>1, <1>2, <1>4, <2>1, <2>2 DEF AfterExecute, Within
<1> QED BY <1>9, <1>10, <1>11

LEMMA ExecuteKeeps ==
  ASSUME NEW m, AfterMemory(m)
  PROVE  AfterExecute(ExecuteStage(m))
<1> DEFINE slot == m.idEx
           eff == Effects(slot.insn, slot.pc, Operand(m, slot.s1, slot.v1),
                          Operand(m, slot.s2, slot.v2), ReadCsr(m.cpu, slot.insn),
                          Operand(m, slot.a7, m.phys[slot.a7].value))
           done == [slot EXCEPT !.eff = eff]
<1>1. /\ DOMAIN m = MachineFields /\ DOMAIN m.cpu = CpuFields
      /\ InFlight(m.cpu.pc, m.rob, m.ifId, slot, m.nextExMem, m.fetchPc)
      /\ (m.fault = None \/ m.fault = m.fetchPc)
      /\ m.nextIfId = NoSlot /\ m.nextIdEx = NoSlot /\ m.redirect = FALSE
  BY DEF AfterMemory, Within
<1>2. IssuedOK(slot, m.rob)
  BY <1>1 DEF InFlight
<1>3. CASE ~slot.valid
  <2>1. ExecuteStage(m) = m
    BY <1>3 DEF ExecuteStage
  <2>2. InFlight(m.cpu.pc, m.rob, m.ifId, NoSlot, m.nextExMem, m.fetchPc)
    <3>1. NoSlot.valid = FALSE /\ slot.valid = FALSE
      BY <1>2, <1>3 DEF NoSlot, IssuedOK
    <3>2. IssuedOK(NoSlot, m.rob) /\ WaitingOK(m.nextExMem, NoSlot, m.rob)
      BY <1>1, <3>1 DEF InFlight, IssuedOK, WaitingOK
    <3>3. PathOK(m.cpu.pc, m.rob, m.ifId, slot, m.fetchPc)
      BY <1>1 DEF InFlight
    <3>4. \A i \in 1 .. Len(m.rob) : ~Unresolved(m.rob[i])
      BY <3>1, <3>3 DEF PathOK
    <3>5. Len(m.rob) # 0 => ~Unresolved(m.rob[Len(m.rob)])
      BY <1>1, <3>4 DEF InFlight, BufferOK, IsSeq
    <3>6. PathOK(m.cpu.pc, m.rob, m.ifId, NoSlot, m.fetchPc)
      BY <3>3, <3>4, <3>5 DEF PathOK
    <3> QED BY <1>1, <3>2, <3>6 DEF InFlight
  <2> QED BY <1>1, <2>1, <2>2 DEF AfterExecute, Within
<1>4. CASE slot.valid /\ slot.insn.op \in System /\ ~AtHead(m, slot.tag)
  <2> DEFINE r == [m EXCEPT !.nextIdEx = slot]
  <2>1. ExecuteStage(m) = r
    BY <1>4 DEF ExecuteStage
  <2>2. DOMAIN r = MachineFields
        /\ r.rob = m.rob /\ r.cpu = m.cpu /\ r.nextExMem = m.nextExMem
        /\ r.nextIdEx = slot /\ r.ifId = m.ifId /\ r.nextIfId = m.nextIfId
        /\ r.fetchPc = m.fetchPc /\ r.fault = m.fault /\ r.redirect = m.redirect
    BY <1>1 DEF MachineFields
  <2> HIDE DEF r
  <2> QED BY <1>1, <2>1, <2>2 DEF AfterExecute, Within
<1>5. CASE slot.valid /\ ~(slot.insn.op \in System /\ ~AtHead(m, slot.tag))
  <2>1. /\ EffectOK(eff) /\ (eff.target # None => slot.insn.op \in ControlFlow)
        /\ (eff.mem \in {"load", "store"} => slot.insn.op \in {"load", "store"})
    <3>1. slot.insn \in Instruction
      BY <1>2, <1>5 DEF IssuedOK
    <3> QED BY <3>1, EffectsOK
  <2> HIDE DEF eff
  <2>2. /\ DOMAIN done = IssuedFields /\ done.eff = eff
        /\ done.valid = slot.valid /\ done.tag = slot.tag /\ done.pc = slot.pc
        /\ done.insn = slot.insn /\ done.predicted = slot.predicted
    BY <1>2, <1>5, WithEffects DEF IssuedOK
  <2>3. ExecuteStage(m) = IF eff.mem \in {"load", "store"} THEN IssueToMemory(m, done)
                          ELSE ResolveControl(CompleteInExecute(m, done), done)
    BY <1>5 DEF ExecuteStage, eff
  <2> HIDE DEF done
  <2>4. CASE eff.mem \in {"load", "store"}
    <3>1. slot.insn.op \notin ControlFlow /\ done.eff.target = None
      BY <2>1, <2>2, <2>4 DEF ControlFlow
    <3> QED BY <1>5, <2>1, <2>2, <2>3, <2>4, <3>1, IssueKeeps
  <2>5. CASE eff.mem \notin {"load", "store"}
    BY <1>5, <2>1, <2>2, <2>3, <2>5, CompleteKeeps
  <2> QED BY <2>4, <2>5
<1> QED BY <1>3, <1>4, <1>5
\* There is a tag that no instruction in flight has, and decode takes the least of them.
LEMMA TagIsFresh ==
  ASSUME NEW rob, BufferOK(rob)
  PROVE  LET tag == CHOOSE t \in 1 .. Len(rob) + 1 :
                      /\ \A i \in DOMAIN rob : rob[i].tag # t
                      /\ \A u \in 1 .. t - 1 : \E i \in DOMAIN rob : rob[i].tag = u
         IN  \A i \in DOMAIN rob : rob[i].tag # tag
<1> DEFINE n == Len(rob)
           tags == {rob[i].tag : i \in 1 .. n}
           free == {t \in 1 .. n + 1 : t \notin tags}
<1>1. n \in Nat /\ DOMAIN rob = 1 .. n
  BY DEF BufferOK, IsSeq
<1>2. IsFiniteSet(tags) /\ Cardinality(tags) <= n
  <2> DEFINE f == [i \in 1 .. n |-> rob[i].tag]
  <2>1. IsFiniteSet(1 .. n) /\ Cardinality(1 .. n) = n
    <3> HIDE DEF n
    <3>1. IsFiniteSet(1 .. n) /\ Cardinality(1 .. n) = IF 1 > n THEN 0 ELSE n - 1 + 1
      BY <1>1, FS_Interval
    <3> QED BY <1>1, <3>1
  <2>2. f \in Surjection(1 .. n, tags)
    BY DEF Surjection
  <2> HIDE DEF f, tags
  <2> QED BY <2>1, <2>2, FS_Surjection
<1>3. IsFiniteSet(1 .. n + 1) /\ Cardinality(1 .. n + 1) = n + 1
  BY <1>1, FS_Interval
<1>4. free # {}
  <2> SUFFICES ASSUME 1 .. n + 1 \subseteq tags
               PROVE  FALSE
    OBVIOUS
  <2> HIDE DEF tags
  <2>1. Cardinality(1 .. n + 1) <= Cardinality(tags)
    BY <1>2, FS_Subset
  <2>2. Cardinality(tags) \in Nat
    BY <1>2, FS_CardinalityType
  <2> QED BY <1>1, <1>2, <1>3, <2>1, <2>2
<1>5. free \in SUBSET Nat
  BY <1>1
<1>6. PICK t \in free : \A u \in free : t <= u
  BY <1>4, <1>5, LeastOf
<1>7. t \in 1 .. n + 1 /\ \A i \in DOMAIN rob : rob[i].tag # t
  BY <1>1
<1>8. \A u \in 1 .. t - 1 : \E i \in DOMAIN rob : rob[i].tag = u
  <2> SUFFICES ASSUME NEW u \in 1 .. t - 1
               PROVE  u \in tags
    BY <1>1
  <2>1. u \in 1 .. n + 1 /\ ~(t <= u)
    BY <1>1, <1>7
  <2> QED BY <1>6, <2>1
<1> QED BY <1>7, <1>8

LEMMA DecodeKeeps ==
  ASSUME NEW m, AfterExecute(m)
  PROVE  AfterDecode(DecodeStage(m))
<1> DEFINE slot == m.ifId
           insn == slot.insn
           s1 == IF insn.op \in ReadsRs1 THEN m.rename.spec[insn.rs1] ELSE 0
           s2 == IF insn.op \in ReadsRs2 THEN m.rename.spec[insn.rs2] ELSE 0
           a7 == IF insn.op = "ecall" THEN m.rename.spec[SyscallReg] ELSE 0
           addr == (m.phys[s1].value + insn.imm) % 4
           writes == insn.op \in WritesRd /\ insn.rd # 0
           dest == RenameDest(m.rename, insn.rd)
           rd == IF writes THEN dest.phys ELSE 0
           tag == CHOOSE t \in 1 .. Len(m.rob) + 1 :
                    /\ \A i \in DOMAIN m.rob : m.rob[i].tag # t
                    /\ \A u \in 1 .. t - 1 : \E i \in DOMAIN m.rob : m.rob[i].tag = u
           held == [m EXCEPT !.nextIfId = slot]
           stays == \/ DecodeHolds(m, slot, {s1, s2, a7})
                    \/ insn.op = "load" /\ LoadBlocked(m, addr, insn.size)
           arch == IF writes THEN insn.rd ELSE 0
           prev == IF writes THEN m.rename.spec[insn.rd] ELSE 0
           next == [valid |-> TRUE, pc |-> slot.pc, insn |-> insn,
                    predicted |-> slot.predicted, s1 |-> s1, s2 |-> s2, a7 |-> a7,
                    rd |-> rd, tag |-> tag, v1 |-> m.phys[s1].value,
                    v2 |-> m.phys[s2].value, eff |-> NoEffects]
           entry == [tag |-> tag, pc |-> slot.pc, insn |-> insn, arch |-> arch, phys |-> rd,
                     prev |-> prev, ready |-> FALSE, eff |-> NoEffects]
           newRename == IF writes THEN dest.map ELSE m.rename
           newPhys == SetPending(m.phys, rd)
           newRob == Append(m.rob, entry)
           newLsq == IF insn.op # "store" THEN m.lsq
                     ELSE Append(m.lsq, [tag |-> tag, kind |-> "store", addr |-> 0,
                                         size |-> insn.size, addrReady |-> FALSE,
                                         dataReady |-> FALSE, orderReady |-> FALSE,
                                         data |-> 0, replay |-> FALSE])
           decoded == [m EXCEPT !.nextIfId = NoSlot, !.nextIdEx = next, !.rename = newRename,
                                !.phys = newPhys, !.rob = newRob, !.lsq = newLsq]
<1>1. /\ DOMAIN m = MachineFields /\ DOMAIN m.cpu = CpuFields
      /\ InFlight(m.cpu.pc, m.rob, IF m.redirect THEN NoSlot ELSE slot, m.nextIdEx,
                  m.nextExMem, m.fetchPc)
      /\ (m.fault = None \/ m.fault = m.fetchPc)
      /\ m.nextIfId = NoSlot /\ m.redirect \in BOOLEAN
  BY DEF AfterExecute, Within
<1>2. ASSUME NEW s, NEW r, r = [m EXCEPT !.nextIfId = s],
             InFlight(m.cpu.pc, m.rob, s, m.nextIdEx, m.nextExMem, m.fetchPc)
      PROVE  AfterDecode(r)
  <2>1. DOMAIN r = MachineFields
        /\ r.rob = m.rob /\ r.cpu = m.cpu /\ r.nextExMem = m.nextExMem
        /\ r.nextIdEx = m.nextIdEx /\ r.nextIfId = s
        /\ r.fetchPc = m.fetchPc /\ r.fault = m.fault
    BY <1>1, <1>2 DEF MachineFields
  <2> QED BY <1>1, <1>2, <2>1 DEF AfterDecode, Within
<1>3. CASE m.redirect
  <2>1. DecodeStage(m) = [m EXCEPT !.nextIfId = NoSlot]
    BY <1>3 DEF DecodeStage
  <2> QED BY <1>1, <1>2, <1>3, <2>1
<1>4. CASE ~m.redirect /\ stays
  <2>1. DecodeStage(m) = held
    BY <1>4 DEF DecodeStage
  <2> QED BY <1>1, <1>2, <1>4, <2>1
<1>5. CASE ~m.redirect /\ ~stays
  <2>1. DecodeStage(m) = decoded
    BY <1>1, <1>5 DEF DecodeStage, MachineFields
  <2>2. ~m.nextIdEx.valid /\ slot.valid
    BY <1>5 DEF DecodeHolds
  <2>3. InFlight(m.cpu.pc, m.rob, slot, m.nextIdEx, m.nextExMem, m.fetchPc)
    BY <1>1, <1>5
  <2>4. slot.valid = TRUE /\ BufferOK(m.rob) /\ DOMAIN m.rob = 1 .. Len(m.rob)
    BY <2>2, <2>3 DEF InFlight, FetchedOK, BufferOK, IsSeq
  <2>5. \A i \in 1 .. Len(m.rob) : m.rob[i].tag # tag
    BY <2>4, TagIsFresh
  <2> HIDE DEF stays, s1, s2, a7, rd, tag, arch, prev
  <2>6. /\ EntryOK(entry) /\ ~entry.ready /\ entry.tag = tag
        /\ entry.pc = slot.pc /\ entry.insn = slot.insn
    BY DEF EntryOK, EntryFields, EffectOK, EffectFields, NoEffects, None
  <2>7. /\ DOMAIN next = IssuedFields /\ next.valid = TRUE /\ next.pc = slot.pc
        /\ next.insn = slot.insn /\ next.predicted = slot.predicted /\ next.tag = tag
    BY DEF IssuedFields, FetchedFields
  <2> HIDE DEF next, entry, newRename, newPhys, newLsq
  <2>8. InFlight(m.cpu.pc, newRob, NoSlot, next, m.nextExMem, m.fetchPc)
    BY <2>2, <2>3, <2>4, <2>5, <2>6, <2>7, DecodeDone
  <2> HIDE DEF newRob
  <2>9. /\ DOMAIN decoded = MachineFields
        /\ decoded.rob = newRob /\ decoded.cpu = m.cpu /\ decoded.nextExMem = m.nextExMem
        /\ decoded.nextIdEx = next /\ decoded.nextIfId = NoSlot
        /\ decoded.fetchPc = m.fetchPc /\ decoded.fault = m.fault
    BY <1>1 DEF MachineFields
  <2> HIDE DEF decoded
  <2> QED BY <1>1, <2>1, <2>8, <2>9 DEF AfterDecode, Within
<1> QED BY <1>1, <1>3, <1>4, <1>5

LEMMA FetchKeeps ==
  ASSUME NEW m, AfterDecode(m), program \in [DOMAIN program -> Instruction]
  PROVE  AfterDecode(FetchStage(m))
<1> DEFINE pc == m.fetchPc
           insn == program[pc]
           predicted == Prediction(m.predictor, pc, insn)
<1>1. /\ DOMAIN m = MachineFields /\ DOMAIN m.cpu = CpuFields
      /\ InFlight(m.cpu.pc, m.rob, m.nextIfId, m.nextIdEx, m.nextExMem, pc)
      /\ (m.fault = None \/ m.fault = pc)
  BY DEF AfterDecode, Within
<1>2. CASE m.cpu.halted \/ m.nextIfId.valid \/ m.fault # None
  BY <1>2 DEF FetchStage
<1>3. CASE ~(m.cpu.halted \/ m.nextIfId.valid \/ m.fault # None) /\ pc \notin DOMAIN program
  <2> DEFINE r == [m EXCEPT !.fault = pc]
  <2>1. FetchStage(m) = r
    BY <1>3 DEF FetchStage
  <2>2. DOMAIN r = MachineFields
        /\ r.rob = m.rob /\ r.cpu = m.cpu /\ r.nextExMem = m.nextExMem
        /\ r.nextIdEx = m.nextIdEx /\ r.nextIfId = m.nextIfId
        /\ r.fetchPc = pc /\ r.fault = pc
    BY <1>1 DEF MachineFields
  <2> HIDE DEF r
  <2> QED BY <1>1, <2>1, <2>2 DEF AfterDecode, Within
<1>4. CASE ~(m.cpu.halted \/ m.nextIfId.valid \/ m.fault # None) /\ pc \in DOMAIN program
  <2> DEFINE slot == [valid |-> TRUE, pc |-> pc, insn |-> insn, predicted |-> predicted]
             on == NextOf(pc, predicted)
             r == [m EXCEPT !.nextIfId = slot, !.fetchPc = on]
  <2>1. FetchStage(m) = r
    BY <1>4 DEF FetchStage, NextOf
  <2>2. insn \in Instruction
    BY <1>4
  <2>3. insn.op \notin ControlFlow => predicted = None
    BY DEF ControlFlow, Prediction
  <2>4. InFlight(m.cpu.pc, m.rob, slot, m.nextIdEx, m.nextExMem, on)
    BY <1>1, <1>4, <2>2, <2>3, FetchDone
  <2> HIDE DEF slot, on
  <2>5. DOMAIN r = MachineFields
        /\ r.rob = m.rob /\ r.cpu = m.cpu /\ r.nextExMem = m.nextExMem
        /\ r.nextIdEx = m.nextIdEx /\ r.nextIfId = slot
        /\ r.fetchPc = on /\ r.fault = m.fault
    BY <1>1 DEF MachineFields
  <2> HIDE DEF r
  <2> QED BY <1>1, <1>4, <2>1, <2>4, <2>5 DEF AfterDecode, Within
<1> QED BY <1>2, <1>3, <1>4
-----------------------------------------------------------------------------
(* Cycles *)

PipeFields ==
  {"fetchPc", "fault", "ifId", "idEx", "exMem", "memWb", "exMemCycles", "rename", "phys",
   "rob", "lsq", "committed", "trapFlush"}

PathInv ==
  /\ program \in [DOMAIN program -> Instruction]
  /\ DOMAIN cpu = CpuFields /\ DOMAIN pipe = PipeFields
  /\ InFlight(cpu.pc, pipe.rob, pipe.ifId, pipe.idEx, pipe.exMem, pipe.fetchPc)
  /\ pipe.fault = None \/ pipe.fault = pipe.fetchPc

LEMMA PathInvInit ==
  Init => PathInv
<1> SUFFICES ASSUME Init PROVE PathInv
  OBVIOUS
<1>1. PICK s \in Starts : cpu = s.cpu /\ program = s.program
  BY DEF Init
<1>2. cpu \in CpuState /\ program \in [DOMAIN program -> Instruction]
  BY <1>1, PipelineAssumption
<1>3. DOMAIN cpu = CpuFields
  BY <1>2 DEF CpuState, CpuFields
<1>4. DOMAIN pipe = PipeFields
      /\ pipe.rob = <<>> /\ pipe.ifId = NoSlot /\ pipe.idEx = NoSlot /\ pipe.exMem = NoSlot
      /\ pipe.fetchPc = cpu.pc /\ pipe.fault = None
  BY DEF Init, InitialPipe, PipeFields
<1>5. InFlight(cpu.pc, <<>>, NoSlot, NoSlot, NoSlot, cpu.pc)
  BY NoneInFlight
<1> QED BY <1>2, <1>3, <1>4, <1>5 DEF PathInv

LEMMA BeginKeeps ==
  ASSUME NEW line, PathInv
  PROVE  AtBoundary(Begin(line))
<1> DEFINE m == Begin(line)
<1>1. /\ DOMAIN m = MachineFields /\ m.cpu = cpu /\ m.rob = pipe.rob
      /\ m.ifId = pipe.ifId /\ m.idEx = pipe.idEx /\ m.exMem = pipe.exMem
      /\ m.nextIfId = NoSlot /\ m.nextIdEx = NoSlot /\ m.nextExMem = NoSlot
      /\ m.fetchPc = pipe.fetchPc /\ m.fault = pipe.fault /\ m.redirect = FALSE
  BY DEF Begin, MachineFields
<1> HIDE DEF m
<1>2. AtBoundary(m)
  BY <1>1 DEF PathInv, AtBoundary, Within
<1> QED BY <1>2 DEF m

LEMMA BecomesKeeps ==
  ASSUME NEW m, PathInv, UNCHANGED program, AfterDecode(m), Becomes(m)
  PROVE  PathInv'
<1> DEFINE end == Latch(m)
<1>1. DOMAIN m = MachineFields
  BY DEF AfterDecode, Within
<1>2. /\ end.cpu = m.cpu /\ end.rob = m.rob
      /\ end.ifId = m.nextIfId /\ end.idEx = m.nextIdEx /\ end.exMem = m.nextExMem
      /\ end.fetchPc = m.fetchPc /\ end.fault = m.fault
  BY <1>1 DEF Latch, MachineFields
<1>3. cpu' = end.cpu /\ pipe' = [field \in DOMAIN pipe |-> end[field]]
  BY DEF Becomes
<1> HIDE DEF end
<1>4. /\ DOMAIN pipe' = PipeFields /\ pipe'.rob = m.rob
      /\ pipe'.ifId = m.nextIfId /\ pipe'.idEx = m.nextIdEx /\ pipe'.exMem = m.nextExMem
      /\ pipe'.fetchPc = m.fetchPc /\ pipe'.fault = m.fault
  BY <1>2, <1>3 DEF PathInv, PipeFields
<1> QED BY <1>2, <1>3, <1>4 DEF PathInv, AfterDecode, Within

LEMMA StepKeeps ==
  ASSUME NEW line, NEW lineAfterMmio, PathInv, UNCHANGED program, Step(line, lineAfterMmio)
  PROVE  PathInv'
<1> DEFINE start == Begin(line)
           written == WriteBack(start, lineAfterMmio)
           atStart == Serviceable(start)
           deferred == written.committed /\ ~atStart /\ Serviceable(written)
           bound == IF written.trapFlush THEN written ELSE TrapAtBoundary(written, atStart)
           memory == MemoryStage(bound)
           executed == ExecuteStage(memory)
           decoded == DecodeStage(executed)
<1>1. AtBoundary(start)
  BY BeginKeeps
<1>2. AtBoundary(written)
  BY <1>1, WriteBackKeeps
<1>3. \A m : AtBoundary(m) => DOMAIN m = MachineFields /\ DOMAIN m.cpu = CpuFields
  BY DEF AtBoundary, Within
<1>4. IF ReplayPending(start) THEN Becomes(Squash(start))
      ELSE IF deferred THEN Becomes([Squash(written) EXCEPT !.trapFlush = TRUE])
      ELSE Becomes(FetchStage(decoded))
  BY DEF Step
<1> HIDE DEF start, written, deferred, atStart
<1>5. CASE ReplayPending(start)
  BY <1>1, <1>3, <1>4, <1>5, SquashEmpties, BecomesKeeps
<1>6. CASE ~ReplayPending(start) /\ deferred
  <2>1. AfterDecode(Squash(written)) /\ DOMAIN Squash(written) = MachineFields
    BY <1>2, <1>3, SquashEmpties DEF AfterDecode, Within
  <2> DEFINE flushed == [Squash(written) EXCEPT !.trapFlush = TRUE]
  <2>2. AfterDecode(flushed)
    BY <2>1, FlagKeeps
  <2>3. Becomes(flushed)
    BY <1>4, <1>6
  <2> HIDE DEF flushed
  <2> QED BY <2>2, <2>3, BecomesKeeps
<1>7. CASE ~ReplayPending(start) /\ ~deferred
  <2>1. AtBoundary(bound)
    BY <1>2, TrapKeeps
  <2> HIDE DEF bound
  <2>2. AfterMemory(memory)
    BY <2>1, MemoryKeeps
  <2> HIDE DEF memory
  <2>3. AfterExecute(executed)
    BY <2>2, ExecuteKeeps
  <2> HIDE DEF executed
  <2>4. AfterDecode(decoded)
    BY <2>3, DecodeKeeps
  <2> HIDE DEF decoded
  <2>5. AfterDecode(FetchStage(decoded))
    BY <2>4, FetchKeeps DEF PathInv
  <2> QED BY <1>4, <1>7, <2>5, BecomesKeeps
<1> QED BY <1>5, <1>6, <1>7

LEMMA PathInvNext ==
  PathInv /\ [Next]_vars => PathInv'
<1> SUFFICES ASSUME PathInv, [Next]_vars PROVE PathInv'
  OBVIOUS
<1>1. CASE Next
  <2>1. PICK line, lineAfterMmio \in BOOLEAN : Step(line, lineAfterMmio)
    BY <1>1 DEF Next, Cycle
  <2>2. UNCHANGED program
    BY <1>1 DEF Next, Cycle
  <2> QED BY <2>1, <2>2, StepKeeps
<1>2. CASE UNCHANGED vars
  BY <1>2 DEF vars, PathInv
<1> QED BY <1>1, <1>2

LEMMA PathInvImplies ==
  PathInv => InFlightIsTheComingPath
<1> SUFFICES ASSUME PathInv PROVE InFlightIsTheComingPath
  OBVIOUS
<1> DEFINE n == Len(pipe.rob)
<1>1. /\ PathOK(cpu.pc, pipe.rob, pipe.ifId, pipe.idEx, pipe.fetchPc)
      /\ n \in Nat
      /\ (pipe.fault = None \/ pipe.fault = pipe.fetchPc)
  BY DEF PathInv, InFlight, BufferOK, IsSeq
<1>2. FrontPc = IF pipe.ifId.valid THEN pipe.ifId.pc ELSE pipe.fetchPc
  BY <1>1 DEF FrontPc
<1>3. \A pc, e : Follows(pc, e) <=> pc = NextOf(e.pc, e.eff.target)
  BY DEF Follows, NextOf
<1> QED BY <1>1, <1>2, <1>3 DEF InFlightIsTheComingPath, PathOK, Unresolved

\* The pipeline never loses, repeats or reorders an instruction: after any number of cycles,
\* mispredictions, redirects, traps, interrupts and flushes, what is in the reorder buffer is
\* the path of the program from the committed pc on, each instruction where the one before it
\* went, and what is fetched next goes on from the youngest.
THEOREM FollowsTheProgram ==
  Spec => []InFlightIsTheComingPath
<1>1. PathInv /\ [Next]_vars => PathInv'
  BY PathInvNext
<1> QED BY PathInvInit, <1>1, PathInvImplies, PTL DEF Spec
===============================================================================
