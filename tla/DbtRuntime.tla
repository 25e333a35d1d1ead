----------------------------- MODULE DbtRuntime -----------------------------
(***************************************************************************)
(* The runtime of the binary translator (src/exec/dbt_*.cpp): the loop     *)
(* that runs a block of simple instructions as host code, a scalar load or *)
(* store as a helper and everything else as a step of the functional       *)
(* backend; the cache of host blocks; and the events that invalidate it.   *)
(* The cache is keyed by virtual addresses and remembers the physical ones *)
(* its blocks were translated from.  A hit is executed only beside a fresh *)
(* translation of the same addresses, and committed only if both agree.    *)
(*                                                                         *)
(* A cell stands for an instruction's place in memory; the registers are   *)
(* one bit that "inc" flips and "clr" clears.                              *)
(***************************************************************************)
EXTENDS Selection, FiniteSetsExt, SequencesExt

CONSTANTS
  NumCells,    \* physical cells, and virtual ones
  DbtEntries,  \* kMaxEntries of the executable cache (64)
  PageMaps     \* the mappings of virtual to physical cells that software installs

Cells == 1..NumCells
Identity == [v \in Cells |-> v]

ASSUME DbtAssumption ==
  /\ NumCells \in Nat \ {0} /\ DbtEntries \in Nat \ {0}
  /\ PageMaps \subseteq [Cells -> Cells]

VARIABLES
  dbt,       \* pc, reg; map of virtual to physical cells; wrong (history): a block was
             \* committed with another effect than the functional backend's
  dbtCode,   \* what each physical cell holds
  dbtCache,  \* entries in order of insertion: first, last, code, spans, memory;
             \* doubted (history): code or mapping changed and no event said so
  hostMem    \* blocks of executable memory that are allocated

dbtVars == <<dbt, dbtCode, dbtCache, hostMem>>

Inlineable == {"inc", "clr"}
Insns == Inlineable \cup {"memory", "other"}

DbtInit ==
  /\ dbt = [pc |-> 1, reg |-> 0, map |-> Identity, wrong |-> FALSE]
  /\ dbtCode \in [Cells -> {"inc", "memory", "other"}]
  /\ dbtCache = <<>> /\ hostMem = {}

-----------------------------------------------------------------------------
(* Blocks *)

\* plan_dbt_block: the instructions from first to last as they are now.
Planned(first, last) == [i \in 1..(last - first + 1) |-> dbtCode[dbt.map[first + i - 1]]]
PlanOk(first, last) == ToSet(Planned(first, last)) \subseteq Inlineable

\* append_code_physical_spans
Spans(first, last) == {dbt.map[v] : v \in first..last}

\* What a block does to the registers, evaluated or as host code.
Effect(code, reg) == FoldLeft(LAMBDA r, i : IF i = "clr" THEN 0 ELSE 1 - r, reg, code)

After(cell) == (cell % NumCells) + 1

\* The executable memory the next block gets.
FreshMemory == Min((1..(DbtEntries + 1)) \ hostMem)

Entry(first, last) ==
  [first |-> first, last |-> last, code |-> Planned(first, last), spans |-> Spans(first, last),
   memory |-> FreshMemory, doubted |-> FALSE]

Matching(first, last) ==
  {i \in DOMAIN dbtCache : dbtCache[i].first = first /\ dbtCache[i].last = last}

\* Mutant: the memory of the evicted block is not given back.
InsertedLeaks(entry) ==
  LET same == Matching(entry.first, entry.last)
  IN  IF same # {}
      THEN [cache |-> [dbtCache EXCEPT ![Min(same)] = entry],
            mem |-> (hostMem \ {dbtCache[Min(same)].memory}) \cup {entry.memory}]
      ELSE IF Len(dbtCache) >= DbtEntries
      THEN [cache |-> Append(Tail(dbtCache), entry), mem |-> hostMem \cup {entry.memory}]
      ELSE [cache |-> Append(dbtCache, entry), mem |-> hostMem \cup {entry.memory}]

\* Mutant: a block that is there already is entered again.
InsertedTwice(entry) ==
  IF Len(dbtCache) >= DbtEntries
  THEN [cache |-> Append(Tail(dbtCache), entry),
        mem |-> (hostMem \ {Head(dbtCache).memory}) \cup {entry.memory}]
  ELSE [cache |-> Append(dbtCache, entry), mem |-> hostMem \cup {entry.memory}]

\* insert_entry: in the place of the block with that key, or of the oldest one if the cache
\* is full; what goes gives its memory back.
Inserted(entry) ==
  LET same == Matching(entry.first, entry.last)
  IN  IF same # {}
      THEN [cache |-> [dbtCache EXCEPT ![Min(same)] = entry],
            mem |-> (hostMem \ {dbtCache[Min(same)].memory}) \cup {entry.memory}]
      ELSE IF Len(dbtCache) >= DbtEntries
      THEN [cache |-> Append(Tail(dbtCache), entry),
            mem |-> (hostMem \ {Head(dbtCache).memory}) \cup {entry.memory}]
      ELSE [cache |-> Append(dbtCache, entry), mem |-> hostMem \cup {entry.memory}]

\* Mutant: what the host code computed is committed as it is.
AgreesAlways(code, first, last) == TRUE

\* execute_with_guardrail: the host code's results against the fresh translation's.
Agrees(code, first, last) == Effect(code, dbt.reg) = Effect(Planned(first, last), dbt.reg)

CommitGprs(code, first, last) ==
  dbt' = [dbt EXCEPT !.reg = Effect(code, @), !.pc = After(last),
            !.wrong = @ \/ Effect(code, dbt.reg) # Effect(Planned(first, last), dbt.reg)]

\* run_dbt_runtime_harness_block_with_cache.  After a disagreement nothing is committed and
\* the entry stays.
DispatchBlock(first, last) ==
  /\ dbt.pc = first /\ PlanOk(first, last)
  /\ LET hits == Matching(first, last)
     IN  IF hits # {}
         THEN /\ Agrees(dbtCache[Min(hits)].code, first, last)
              /\ CommitGprs(dbtCache[Min(hits)].code, first, last)
              /\ UNCHANGED <<dbtCache, hostMem>>
         ELSE LET after == Inserted(Entry(first, last))
              IN  /\ CommitGprs(Planned(first, last), first, last)
                  /\ dbtCache' = after.cache /\ hostMem' = after.mem
  /\ UNCHANGED dbtCode

\* DbtExecutableCacheRuntime::insert of a block translated now, without running it.
InsertBlock(first, last) ==
  /\ PlanOk(first, last)
  /\ LET after == Inserted(Entry(first, last))
     IN  dbtCache' = after.cache /\ hostMem' = after.mem
  /\ UNCHANGED <<dbt, dbtCode>>

-----------------------------------------------------------------------------
(* Invalidation *)

\* Mutant: only virtual addresses are compared.
OverlapsVirtual(entry, cell) == cell \in entry.first..entry.last

\* plan_dbt_block_invalidation_event and plan_physical_span_invalidation: the address of a
\* store or of a payload is compared with both.
Overlaps(entry, cell) == cell \in entry.first..entry.last \/ cell \in entry.spans

\* enforce_invalidation for a range, after the cells in affected changed for reasons that the
\* event's address does not show.
Invalidated(cell, unseen) ==
  LET kept == Selected(dbtCache, {i \in DOMAIN dbtCache : ~Overlaps(dbtCache[i], cell)})
  IN  /\ dbtCache' = [i \in DOMAIN kept |->
           [kept[i] EXCEPT !.doubted = @ \/ (kept[i].first..kept[i].last) \cap unseen # {}]]
      /\ hostMem' = hostMem \ {e.memory : e \in {f \in ToSet(dbtCache) : Overlaps(f, cell)}}

\* No event at all.
Unannounced(unseen) ==
  /\ dbtCache' = [i \in DOMAIN dbtCache |->
       [dbtCache[i] EXCEPT
          !.doubted = @ \/ (dbtCache[i].first..dbtCache[i].last) \cap unseen # {}]]
  /\ UNCHANGED hostMem

\* The virtual cells through which a physical one is seen.
Aliases(cell) == {v \in Cells : dbt.map[v] = cell}

\* Primary image load, debug reset, satp write, SFENCE.VMA, changed region attributes.
FlushCache == dbtCache' = <<>> /\ hostMem' = {} /\ UNCHANGED <<dbt, dbtCode>>

\* A payload is loaded to a physical address and announced.
LoadPayload(cell, insn) ==
  /\ dbtCode' = [dbtCode EXCEPT ![cell] = insn]
  /\ Invalidated(cell, {})
  /\ UNCHANGED dbt

-----------------------------------------------------------------------------
(* Helpers and the functional backend *)

AtMemoryInsn == dbtCode[dbt.map[dbt.pc]] = "memory"

HelperLoad(value) ==
  /\ AtMemoryInsn
  /\ dbt' = [dbt EXCEPT !.reg = value, !.pc = After(@)]
  /\ UNCHANGED <<dbtCode, dbtCache, hostMem>>

\* execute_dbt_helper_request of a store, then the loop's invalidation (if the request asks
\* for it) with the virtual address: code that it is mapped to elsewhere is not looked for.
HelperStore(va, insn, announced) ==
  /\ AtMemoryInsn
  /\ dbtCode' = [dbtCode EXCEPT ![dbt.map[va]] = insn]
  /\ dbt' = [dbt EXCEPT !.pc = After(@)]
  /\ IF announced
     THEN Invalidated(va, IF dbt.map[va] = va THEN {} ELSE Aliases(dbt.map[va]))
     ELSE Unannounced(Aliases(dbt.map[va]))

\* execute_dbt_reference_fallback: one step of the functional backend, for any instruction
\* but a simple one.  It may jump, write memory, and change the mapping, unannounced.
ReferenceStep ==
  /\ dbtCode[dbt.map[dbt.pc]] \notin Inlineable
  /\ \/ \E pc \in Cells : dbt' = [dbt EXCEPT !.pc = pc] /\ UNCHANGED <<dbtCode, dbtCache, hostMem>>
     \/ \E cell \in Cells, insn \in Insns :
          /\ dbtCode' = [dbtCode EXCEPT ![cell] = insn]
          /\ dbt' = [dbt EXCEPT !.pc = After(@)]
          /\ Unannounced(Aliases(cell))
     \/ \E map \in PageMaps :
          /\ dbt' = [dbt EXCEPT !.map = map, !.pc = After(@)]
          /\ Unannounced({v \in Cells : map[v] # dbt.map[v]})
          /\ UNCHANGED dbtCode

DbtNext ==
  \/ \E first \in Cells : \E last \in first..NumCells :
       DispatchBlock(first, last) \/ InsertBlock(first, last)
  \/ FlushCache
  \/ \E cell \in Cells, insn \in Insns : LoadPayload(cell, insn)
  \/ \E value \in 0..1 : HelperLoad(value)
  \/ \E va \in Cells, insn \in Insns, announced \in BOOLEAN : HelperStore(va, insn, announced)
  \/ ReferenceStep

DbtSpec == DbtInit /\ [][DbtNext]_dbtVars

-----------------------------------------------------------------------------
(* Properties *)

\* A cached block is what its addresses hold, in each mapping it was kept through, unless
\* code or mapping changed without an event.
CacheFresh ==
  \A i \in DOMAIN dbtCache :
    ~dbtCache[i].doubted => dbtCache[i].code = Planned(dbtCache[i].first, dbtCache[i].last)

\* Every block of executable memory belongs to one entry, and every entry has its own.
HostMemoryOwned ==
  /\ hostMem = {e.memory : e \in ToSet(dbtCache)}
  /\ Cardinality(hostMem) = Len(dbtCache) /\ Len(dbtCache) <= DbtEntries
  /\ \A i, j \in DOMAIN dbtCache :
       dbtCache[i].first = dbtCache[j].first /\ dbtCache[i].last = dbtCache[j].last => i = j

\* The translator never does what the functional backend would not: an outdated block is
\* found in the cache only if no event told of the change, and even then is not committed.
TranslatorSound == CacheFresh /\ HostMemoryOwned /\ ~dbt.wrong
=============================================================================
