---------------------------- MODULE AddressSpace ----------------------------
(***************************************************************************)
(* The path of a memory access of the hart: translation with its TLB and   *)
(* the access and dirty bits (mem/address_space.cpp), the write-through    *)
(* first-level data cache (mem/simple_l1_cache.cpp), atomics and the       *)
(* reservation (isa/atomic_contract.cpp, trap.cpp), and DMA beside it      *)
(* (mem/bus.cpp).                                                          *)
(*                                                                         *)
(* Memory has two kinds of cells: frames of data, and one page-table entry *)
(* per virtual page.  The three levels of the walk are one read, so        *)
(* superpages are left out, as are MXR and MPRV.  A cache line holds one   *)
(* cell; only physical memory is modelled, so only an access that crosses  *)
(* lines bypasses the cache.                                               *)
(***************************************************************************)
EXTENDS Naturals, Sequences, SequencesExt

CONSTANTS
  Pages,     \* virtual pages; a page also names the cell of its entry
  Frames,    \* physical frames of data
  Words,     \* contents of a frame
  SoftPtes,  \* page-table entries that software writes
  TlbSize,   \* entries of the TLB (32 in the code)
  L1Lines    \* capacity_lines; 0 when the cache is off

ASSUME AddressSpaceAssumption ==
  /\ Pages \cap Frames = {} /\ "none" \notin Pages \cup Frames
  /\ TlbSize \in Nat \ {0} /\ L1Lines \in Nat
  \* An entry may map any cell, that of an entry too.
  /\ SoftPtes # {}
  /\ SoftPtes \subseteq [valid : BOOLEAN, frame : Pages \cup Frames, perms : SUBSET {"r", "w", "x"},
                         user : BOOLEAN, a : BOOLEAN, d : BOOLEAN]

VARIABLES
  path,     \* the hart's side: mode, sum, satp, tlb, victim, l1, reservation
  ram,      \* the cells
  changed,  \* history: pages whose entry software wrote since the last flush
  behind,   \* history: cells written past the cache while it holds them
  dirtied,  \* history: pages stored through since software wrote their entry
  disturbed \* history: since the reservation its frame was stored to, or a trap taken

spaceVars == <<path, ram, changed, behind, dirtied, disturbed>>

Cells == Pages \cup Frames
None == "none"
Types == {"fetch", "load", "store"}
\* What may be written to a cell.
Contents(c) == IF c \in Frames THEN Words ELSE SoftPtes
EmptyTlb == [n \in 1..TlbSize |-> [page |-> None]]
EmptyL1 == [recent |-> <<>>, copy |-> <<>>]

Translated == path.mode # "M" /\ path.satp # "bare"

-----------------------------------------------------------------------------
(* The TLB and the page table *)

\* check_leaf_permissions
Permitted(pte, type) ==
  /\ "w" \in pte.perms => "r" \in pte.perms
  /\ IF path.mode = "U" THEN pte.user ELSE pte.user => type # "fetch" /\ path.sum
  /\ CASE type = "fetch" -> "x" \in pte.perms
       [] type = "load"  -> "r" \in pte.perms
       [] type = "store" -> "w" \in pte.perms

\* Mutant: a store through a TLB entry that was filled by a load leaves no dirty bit.
WithAccessBitsNoDirty(pte, type) == [pte EXCEPT !.a = TRUE]

\* update_pte_access_bits
WithAccessBits(pte, type) == [pte EXCEPT !.a = TRUE, !.d = @ \/ type = "store"]

TlbSlots(p) == {n \in 1..TlbSize : path.tlb[n].page = p}

Entry(p) == IF TlbSlots(p) # {} THEN path.tlb[CHOOSE n \in TlbSlots(p) : TRUE].pte ELSE ram[p]

\* translate and walk_page_table find the access allowed.
Granted(p, type) == Entry(p).valid /\ Permitted(Entry(p), type)

\* Mutant: the memory copy is updated and the TLB's is not.
TlbAfterMemoryOnly(p, type) ==
  IF TlbSlots(p) # {} THEN path.tlb
  ELSE [path.tlb EXCEPT ![path.victim] = [page |-> p, pte |-> ram[p]]]

\* The TLB after a granted access: filled round robin on a miss.
TlbAfter(p, type) ==
  LET new == [page |-> p, pte |-> WithAccessBits(Entry(p), type)]
  IN  IF TlbSlots(p) # {} THEN [n \in 1..TlbSize |-> IF n \in TlbSlots(p) THEN new ELSE path.tlb[n]]
      ELSE [path.tlb EXCEPT ![path.victim] = new]

VictimAfter(p) == IF TlbSlots(p) # {} THEN path.victim ELSE (path.victim % TlbSize) + 1

\* The entry is written back whole, from the TLB's copy on a hit, if a bit changed.
RamAfter(p, type) ==
  IF WithAccessBits(Entry(p), type) = Entry(p) THEN ram
  ELSE [ram EXCEPT ![p] = WithAccessBits(Entry(p), type)]

\* The same for an address: the cell it reaches, and the state after its translation.
Allowed(x, type) == Translated => Granted(x, type)
Cell(x) == IF Translated THEN Entry(x).frame ELSE x
Walked(x, type) ==
  IF Translated
  THEN [path EXCEPT !.tlb = TlbAfter(x, type), !.victim = VictimAfter(x)]
  ELSE path
\* And after the access itself, with what it makes of the cache and the reservation.
After(x, type, l1, reservation) ==
  [Walked(x, type) EXCEPT !.l1 = l1, !.reservation = reservation]
RamWalked(x, type) == IF Translated THEN RamAfter(x, type) ELSE ram
Addresses == IF Translated THEN Pages ELSE Cells
DataAddresses == IF Translated THEN Pages ELSE Frames

-----------------------------------------------------------------------------
(* The data cache *)

Holds(l1, c) == c \in DOMAIN l1.copy
Position(l1, c) == CHOOSE n \in DOMAIN l1.recent : l1.recent[n] = c
Without(l1, c) ==
  IF Holds(l1, c)
  THEN [recent |-> RemoveAt(l1.recent, Position(l1, c)),
        copy |-> Restrict(l1.copy, DOMAIN l1.copy \ {c})]
  ELSE l1
Touch(l1, c) == [l1 EXCEPT !.recent = Append(Without(l1, c).recent, c)]
Filled(l1, c, v) ==
  [recent |-> Append(l1.recent, c),
   copy |-> [k \in DOMAIN l1.copy \cup {c} |-> IF k = c THEN v ELSE l1.copy[k]]]

\* Mutant: a line is filled beside the others when the cache is full.
L1LoadUnbounded(l1, c, m) ==
  IF L1Lines = 0 THEN l1
  ELSE IF Holds(l1, c) THEN Touch(l1, c) ELSE Filled(l1, c, m[c])

\* SimpleL1DataCache::load: a hit returns the line; a miss evicts the least recently
\* used one when the cache is full and reads memory.
L1Load(l1, c, m) ==
  IF L1Lines = 0 THEN l1
  ELSE IF Holds(l1, c) THEN Touch(l1, c)
  ELSE LET room == IF Len(l1.recent) < L1Lines THEN l1 ELSE Without(l1, Head(l1.recent))
       IN  Filled(room, c, m[c])

\* Mutant: a store goes to memory only.
L1StoreAround(l1, c, v) == IF Holds(l1, c) THEN Touch(l1, c) ELSE l1

\* SimpleL1DataCache::store: through to memory, and into the line if there is one.
L1Store(l1, c, v) == IF Holds(l1, c) THEN [Touch(l1, c) EXCEPT !.copy[c] = v] ELSE l1

\* invalidate_range, of the two lines that an access may touch
L1Invalidate(l1, c, d) == Without(Without(l1, c), d)

-----------------------------------------------------------------------------
SpaceInit ==
  /\ path = [mode |-> "M", sum |-> FALSE, satp |-> "bare", tlb |-> EmptyTlb, victim |-> 1,
             l1 |-> EmptyL1, reservation |-> None]
  /\ ram = [c \in Cells |-> CHOOSE v \in Contents(c) : TRUE]
  /\ changed = {} /\ behind = {} /\ dirtied = {} /\ disturbed = FALSE

\* The lines a step leaves out of date: those it wrote past the cache.
Behind(l1, past) == behind' = (behind \cup past) \cap DOMAIN l1.copy
\* The entry whose bits the walk wrote, if it did.
WalkWrote(x, type) == IF RamWalked(x, type) = ram THEN {} ELSE {x}

\* enter_trap to a level at least as high.
TakeTrap ==
  /\ \E m \in {"S", "M"} :
       /\ path.mode = "M" => m = "M"
       /\ path' = [path EXCEPT !.mode = m, !.reservation = None]
  /\ disturbed' = (path'.reservation # None)
  /\ UNCHANGED <<ram, changed, behind, dirtied>>

\* An access that is refused traps; nothing was translated.
Fault ==
  /\ \E x \in Addresses, type \in Types : ~Allowed(x, type)
  /\ TakeTrap

\* ecall, or an interrupt.
Trap == TakeTrap

Return ==
  /\ path.mode # "U"
  /\ \E m \in {"U", "S", "M"} :
       /\ path.mode = "S" => m # "M"
       /\ path' = [path EXCEPT !.mode = m]
  /\ UNCHANGED <<ram, changed, behind, dirtied, disturbed>>

WriteSum ==
  /\ path.mode # "U" /\ path' = [path EXCEPT !.sum = ~@]
  /\ UNCHANGED <<ram, changed, behind, dirtied, disturbed>>

\* Mutant: a write to satp leaves the TLB.
WriteSatpKeepsTlb ==
  /\ path.mode # "U"
  /\ \E mode \in {"bare", "sv39"} : path' = [path EXCEPT !.satp = mode]
  /\ changed' = {} /\ UNCHANGED <<ram, behind, dirtied, disturbed>>

\* CsrFile::write of satp flushes the TLB whatever is written.
WriteSatp ==
  /\ path.mode # "U"
  /\ \E mode \in {"bare", "sv39"} :
       path' = [path EXCEPT !.satp = mode, !.tlb = EmptyTlb, !.victim = 1]
  /\ changed' = {} /\ UNCHANGED <<ram, behind, dirtied, disturbed>>

SfenceVma ==
  /\ path.mode # "U"
  /\ path' = [path EXCEPT !.tlb = EmptyTlb, !.victim = 1]
  /\ changed' = {} /\ UNCHANGED <<ram, behind, dirtied, disturbed>>

\* An instruction is fetched past the data cache.
Fetch ==
  \E x \in DataAddresses :
    /\ Allowed(x, "fetch")
    /\ path' = After(x, "fetch", path.l1, path.reservation)
    /\ ram' = RamWalked(x, "fetch")
    /\ Behind(path.l1, WalkWrote(x, "fetch"))
    /\ UNCHANGED <<changed, dirtied, disturbed>>

Load ==
  \E x \in Addresses :
    /\ Allowed(x, "load")
    /\ ram' = RamWalked(x, "load")
    /\ path' = After(x, "load", L1Load(path.l1, Cell(x), ram'), path.reservation)
    /\ Behind(path'.l1, (WalkWrote(x, "load") \cap DOMAIN path.l1.copy))
    /\ UNCHANGED <<changed, dirtied, disturbed>>

\* What a store to cell c means for the histories.
Stored(x, c) ==
  /\ changed' = IF c \in Pages THEN changed \cup {c} ELSE changed
  /\ dirtied' = IF c \in Pages THEN dirtied \ {c}
                ELSE IF Translated /\ x \notin changed THEN dirtied \cup {x} ELSE dirtied
  /\ disturbed' = (path'.reservation # None /\ (disturbed \/ path.reservation = c))

\* Mutant: the reservation survives a store to its frame.
InvalidateReservationNever(c) == path.reservation

\* invalidate_reservation_for_store
InvalidateReservation(c) == IF path.reservation = c THEN None ELSE path.reservation

\* A store through the cache; to the entry of a page it writes an entry.
Store ==
  \E x \in Addresses : LET c == Cell(x) IN
    /\ Allowed(x, "store")
    /\ \E v \in Contents(c) :
         /\ ram' = [RamWalked(x, "store") EXCEPT ![c] = v]
         /\ path' = After(x, "store", L1Store(path.l1, c, v), InvalidateReservation(c))
    /\ Behind(path.l1, WalkWrote(x, "store") \ {c})
    /\ Stored(x, c)

\* Mutant: a store that crosses lines leaves them.
StoreAcrossLinesKeeps ==
  /\ ~Translated
  /\ \E c, d \in Frames, v \in Words :
       /\ c # d
       /\ ram' = [ram EXCEPT ![c] = v, ![d] = v]
       /\ path' = [path EXCEPT !.reservation = IF @ \in {c, d} THEN None ELSE @]
       /\ disturbed' = (path'.reservation # None /\ (disturbed \/ path.reservation \in {c, d}))
  /\ UNCHANGED <<changed, behind, dirtied>>

\* A store that crosses a line bypasses the cache and invalidates what it touched.
StoreAcrossLines ==
  /\ ~Translated
  /\ \E c, d \in Frames, v \in Words :
       /\ c # d
       /\ ram' = [ram EXCEPT ![c] = v, ![d] = v]
       /\ path' = [path EXCEPT !.l1 = L1Invalidate(@, c, d),
                     !.reservation = IF @ \in {c, d} THEN None ELSE @]
       /\ disturbed' = (path'.reservation # None /\ (disturbed \/ path.reservation \in {c, d}))
       /\ behind' = behind \ {c, d}
  /\ UNCHANGED <<changed, dirtied>>

\* LR: past the cache.
LoadReserved ==
  \E x \in DataAddresses :
    /\ Allowed(x, "load")
    /\ ram' = RamWalked(x, "load")
    /\ path' = After(x, "load", path.l1, Cell(x))
    /\ disturbed' = FALSE
    /\ Behind(path.l1, WalkWrote(x, "load"))
    /\ UNCHANGED <<changed, dirtied>>

\* SC: translated as a store whether or not it then stores; past the cache.
StoreConditional ==
  \E x \in DataAddresses : LET c == Cell(x) IN
    /\ Allowed(x, "store")
    /\ path' = After(x, "store", path.l1, None)
    /\ IF path.reservation = c
       THEN /\ \E v \in Contents(c) : ram' = [RamWalked(x, "store") EXCEPT ![c] = v]
            /\ Behind(path.l1, WalkWrote(x, "store") \cup {c})
            /\ Stored(x, c)
       ELSE /\ ram' = RamWalked(x, "store")
            /\ Behind(path.l1, WalkWrote(x, "store"))
            /\ disturbed' = FALSE
            /\ UNCHANGED <<changed, dirtied>>

\* Another AMO: a swap, past the cache.
Amo ==
  \E x \in DataAddresses : LET c == Cell(x) IN
    /\ Allowed(x, "store")
    /\ \E v \in Contents(c) : ram' = [RamWalked(x, "store") EXCEPT ![c] = v]
    /\ path' = After(x, "store", path.l1, InvalidateReservation(c))
    /\ Behind(path.l1, WalkWrote(x, "store") \cup {c})
    /\ Stored(x, c)

\* Bus::dma_write: past the cache, and the reservation stays.
DmaWrite ==
  /\ \E c \in Frames, v \in Words : ram' = [ram EXCEPT ![c] = v] /\ Behind(path.l1, {c})
  /\ UNCHANGED <<path, changed, dirtied, disturbed>>

SpaceNext ==
  \/ Fault \/ Trap \/ Return \/ WriteSum \/ WriteSatp \/ SfenceVma
  \/ Fetch \/ Load \/ Store \/ StoreAcrossLines
  \/ LoadReserved \/ StoreConditional \/ Amo \/ DmaWrite

SpaceSpec == SpaceInit /\ [][SpaceNext]_spaceVars

-----------------------------------------------------------------------------
(* Properties *)

SpaceTypeOK ==
  /\ path.mode \in {"U", "S", "M"} /\ path.satp \in {"bare", "sv39"}
  /\ path.victim \in 1..TlbSize
  /\ \A n \in 1..TlbSize : path.tlb[n].page \in Pages \cup {None}
  /\ DOMAIN path.l1.copy = {path.l1.recent[n] : n \in DOMAIN path.l1.recent}
  /\ Len(path.l1.recent) <= L1Lines
  /\ path.reservation \in Cells \cup {None}

\* The TLB shows the page table, its access and dirty bits included, for every page whose
\* entry software has not written since the last flush; and it holds no page twice.
TlbShowsPageTable ==
  \A m, n \in 1..TlbSize :
    path.tlb[n].page # None =>
      /\ path.tlb[n].page \notin changed => path.tlb[n].pte = ram[path.tlb[n].page]
      /\ path.tlb[m].page = path.tlb[n].page => m = n

\* Once a page was stored through, its entry in memory says so until software rewrites it,
\* unless an access through an outdated entry wrote that back.
StoresLeaveDirtyBit == \A p \in dirtied : ram[p].d /\ ram[p].a

\* A line is what memory holds, unless memory was written past the cache: by an atomic,
\* by DMA, or by the walk's access and dirty bits.
LinesAgree == \A c \in DOMAIN path.l1.copy \ behind : path.l1.copy[c] = ram[c]

\* A reservation is only ever held on a frame this hart has not stored to since, and
\* across no trap, so a conditional store that succeeds follows its load undisturbed.
ReservationIntact == path.reservation # None => ~disturbed

\* What the hart sees through TLB and cache is what memory holds, and a reservation is intact.
MemoryCoherent ==
  SpaceTypeOK /\ TlbShowsPageTable /\ StoresLeaveDirtyBit /\ LinesAgree /\ ReservationIntact
=============================================================================
