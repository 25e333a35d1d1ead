------------------------------ MODULE RenameMap ------------------------------
(***************************************************************************)
(* Register renaming of the pipeline backend: RenameMap                    *)
(* (src/myCPU/src/exec/rename_map.cpp) driven, as PipelineBackend drives   *)
(* it, by a reorder buffer that commits in program order.                  *)
(*                                                                         *)
(* The architectural map is what committed instructions left behind, the   *)
(* speculative map is what the next instruction reads.  Each map has its   *)
(* own list of free physical registers and a high-water mark past which    *)
(* registers have never been handed out.                                   *)
(*                                                                         *)
(* Abstraction: the two free lists are sets.  The code hands out the back  *)
(* of a vector; here any free register may be handed out, so every order   *)
(* the vector could have is covered.  That the vectors hold no register    *)
(* twice, which makes sets adequate, is what RecycledRegisterWasLive says. *)
(***************************************************************************)
EXTENDS Integers, Sequences, FiniteSets

CONSTANTS
  NumArch,      \* architectural registers, 32 in the code; register 0 is x0
  MaxInFlight   \* renamed instructions the reorder buffer may hold at once

ASSUME NumArchAssumption == NumArch \in Nat \ {0}
ASSUME MaxInFlightAssumption == MaxInFlight \in Nat

VARIABLES
  archMap,      \* architectural_map_
  specMap,      \* speculative_map_
  commFree,     \* committed_free_list_
  specFree,     \* speculative_free_list_
  nextPhys,     \* next_phys_
  rob           \* destinations of the instructions in flight, oldest first

vars == <<archMap, specMap, commFree, specFree, nextPhys, rob>>

Arch == 0 .. NumArch - 1

RobDest == [arch : 1 .. NumArch - 1, phys : Nat, prev : Nat]

Mapped(map) == {map[a] : a \in Arch}

InFlight == {rob[i].phys : i \in DOMAIN rob}

\* committed_next_phys: one past the largest register the committed state names.
CommittedNext(map, free) ==
  LET named == {NumArch - 1} \cup Mapped(map) \cup free
  IN  1 + CHOOSE p \in named : \A q \in named : q <= p

\* Types, and x0: it is never renamed, so both maps send it to register 0.
TypeOK ==
  /\ archMap \in [Arch -> Nat] /\ archMap[0] = 0
  /\ specMap \in [Arch -> Nat] /\ specMap[0] = 0
  /\ commFree \in SUBSET Nat
  /\ specFree \in SUBSET Nat
  /\ nextPhys \in Nat
  /\ rob \in Seq(RobDest)

-----------------------------------------------------------------------------
Init ==
  /\ archMap = [a \in Arch |-> a]
  /\ specMap = archMap
  /\ commFree = {}
  /\ specFree = {}
  /\ nextPhys = NumArch
  /\ rob = << >>

\* Mutant: rename_dest without its early return for x0.
RenameX0Too == Arch

\* The registers rename_dest and commit_dest act on: both return at once for x0.
Renamed == Arch \ {0}

\* Mutant: the stale register is read from the committed map.
AllocateRecordsCommitted(arch, phys) ==
  /\ specMap' = [specMap EXCEPT ![arch] = phys]
  /\ rob' = Append(rob, [arch |-> arch, phys |-> phys, prev |-> archMap[arch]])
  /\ UNCHANGED <<archMap, commFree>>

\* Record register `phys' as the newest destination of `arch', as step_id does
\* with what rename_dest returned.
Allocate(arch, phys) ==
  /\ specMap' = [specMap EXCEPT ![arch] = phys]
  /\ rob' = Append(rob, [arch |-> arch, phys |-> phys, prev |-> specMap[arch]])
  /\ UNCHANGED <<archMap, commFree>>

\* rename_dest with a register left on the speculative free list.
RenameRecycled(arch) ==
  /\ Len(rob) < MaxInFlight
  /\ \E phys \in specFree :
       /\ specFree' = specFree \ {phys}
       /\ Allocate(arch, phys)
  /\ UNCHANGED nextPhys

\* rename_dest with the free list exhausted: a register never used before.
RenameFresh(arch) ==
  /\ Len(rob) < MaxInFlight
  /\ specFree = {}
  /\ nextPhys' = nextPhys + 1
  /\ Allocate(arch, nextPhys)
  /\ UNCHANGED specFree

\* Mutant: the committed register stays on the committed free list it came from.
CommitLeavesOnFreeList ==
  /\ rob # << >>
  /\ LET dest == Head(rob)
         stale == archMap[dest.arch]
     IN  /\ archMap' = [archMap EXCEPT ![dest.arch] = dest.phys]
         /\ commFree' = commFree \cup ({stale} \ {0})
         /\ specFree' = (specFree \ {dest.phys}) \cup ({stale} \ {0})
  /\ rob' = Tail(rob)
  /\ UNCHANGED <<specMap, nextPhys>>

\* Mutant: commit also points the speculative map at the committed register.
CommitMovesSpecMap ==
  /\ rob # << >>
  /\ LET dest == Head(rob)
         stale == archMap[dest.arch]
     IN  /\ archMap' = [archMap EXCEPT ![dest.arch] = dest.phys]
         /\ specMap' = [specMap EXCEPT ![dest.arch] = dest.phys]
         /\ commFree' = (commFree \ {dest.phys}) \cup {stale}
         /\ specFree' = (specFree \ {dest.phys}) \cup {stale}
  /\ rob' = Tail(rob)
  /\ UNCHANGED nextPhys

\* commit_dest of the reorder buffer's head.  The register the architectural map
\* named until now is recycled into both lists, unless it is physical register 0.
Commit ==
  /\ rob # << >>
  /\ LET dest == Head(rob)
         stale == archMap[dest.arch]
         recycled == IF stale # 0 /\ stale # dest.phys THEN {stale} ELSE {}
     IN  /\ archMap' = [archMap EXCEPT ![dest.arch] = dest.phys]
         /\ commFree' = (commFree \ {dest.phys}) \cup recycled
         /\ specFree' = (specFree \ {dest.phys}) \cup recycled
  /\ rob' = Tail(rob)
  /\ UNCHANGED <<specMap, nextPhys>>

\* Mutant: rollback forgets the free list.
SquashKeepsFreeList ==
  /\ specMap' = archMap
  /\ nextPhys' = CommittedNext(archMap, commFree)
  /\ rob' = << >>
  /\ UNCHANGED <<archMap, commFree, specFree>>

\* Mutant: rollback forgets the high-water mark.
SquashKeepsHighWater ==
  /\ specMap' = archMap
  /\ specFree' = commFree
  /\ rob' = << >>
  /\ UNCHANGED <<archMap, commFree, nextPhys>>

\* rollback(committed_checkpoint()) together with ReorderBuffer::clear, on a trap,
\* an interrupt or a memory-order replay.
Squash ==
  /\ specMap' = archMap
  /\ specFree' = commFree
  /\ nextPhys' = CommittedNext(archMap, commFree)
  /\ rob' = << >>
  /\ UNCHANGED <<archMap, commFree>>

Next ==
  \/ \E arch \in Renamed : RenameRecycled(arch)
  \/ \E arch \in Renamed : RenameFresh(arch)
  \/ Commit
  \/ Squash

Spec == Init /\ [][Next]_vars

-----------------------------------------------------------------------------
(***************************************************************************)
(* Safety.                                                                 *)
(***************************************************************************)

\* No physical register is ever lost or owned twice by the committed state: those
\* the architectural map names and those on the committed free list split the
\* registers below the high-water mark that rollback computes from them.
CommittedPartition ==
  /\ \A a, b \in Arch : archMap[a] = archMap[b] => a = b
  /\ Mapped(archMap) \cap commFree = {}
  /\ Mapped(archMap) \cup commFree = 0 .. CommittedNext(archMap, commFree) - 1

\* The same for the speculative state: every register below next_phys_ has exactly
\* one owner among the architectural map, the instructions in flight and the
\* speculative free list, so rename_dest never hands out a register whose value a
\* later commit, squash or reader still needs.
SpeculativePartition ==
  /\ \A i, j \in DOMAIN rob : rob[i].phys = rob[j].phys => i = j
  /\ Mapped(archMap) \cap InFlight = {}
  /\ specFree \cap (Mapped(archMap) \cup InFlight) = {}
  /\ Mapped(archMap) \cup InFlight \cup specFree = 0 .. nextPhys - 1

\* A source operand reads the youngest older producer of its register, or the
\* committed value when nothing in flight writes it.
SourceIsYoungestProducer ==
  \A a \in Arch :
    LET writers == {i \in DOMAIN rob : rob[i].arch = a}
    IN  \/ /\ writers = {}
           /\ specMap[a] = archMap[a]
        \/ \E i \in writers : /\ \A j \in writers : j <= i
                              /\ specMap[a] = rob[i].phys

\* The mapping recorded in the reorder buffer when the head was renamed
\* (previous_phys_rd) is the one its commit recycles, although commit_dest reads
\* the architectural map and never looks at the recorded one.
RecordedMappingIsRecycled ==
  rob # << >> => Head(rob).prev = archMap[Head(rob).arch]

\* The physical register file never outgrows one register per architectural
\* register and one per instruction in flight, however long the program runs and
\* however often it is squashed.
RegisterFileBounded == nextPhys <= NumArch + MaxInFlight

\* The register a commit recycles is on neither free list, and the one it installs
\* is not on the speculative list: the searches in recycle_phys and in the second
\* remove_from_free_list of commit_dest never find anything.  (It follows from the
\* two partitions.)
RecycledRegisterWasLive ==
  rob # << >> =>
    /\ archMap[Head(rob).arch] \notin commFree \cup specFree
    /\ Head(rob).phys \notin specFree

-----------------------------------------------------------------------------
(***************************************************************************)
(* The inductive invariant.                                                *)
(***************************************************************************)

\* The speculative free list is the committed one less what is in flight.
FreeListsAgree == specFree = commFree \ InFlight

\* Registers past the committed high-water mark were handed out in program order,
\* so the oldest of them is the next one the committed state will name.
FreshInOrder ==
  LET n == CommittedNext(archMap, commFree)
  IN  /\ n \in Nat /\ NumArch <= n
      /\ \A i, j \in DOMAIN rob :
           i < j /\ n <= rob[i].phys /\ n <= rob[j].phys => rob[i].phys < rob[j].phys

\* Each entry records the register of the youngest older writer of its destination.
RecordedMappings ==
  \A i \in DOMAIN rob :
    LET older == {j \in 1 .. i - 1 : rob[j].arch = rob[i].arch}
    IN  \/ /\ older = {}
           /\ rob[i].prev = archMap[rob[i].arch]
        \/ \E j \in older : /\ \A k \in older : k <= j
                            /\ rob[i].prev = rob[j].phys

IInv ==
  /\ TypeOK
  /\ CommittedPartition
  /\ SpeculativePartition
  /\ SourceIsYoungestProducer
  /\ RecordedMappings
  /\ FreeListsAgree
  /\ FreshInOrder
=============================================================================
