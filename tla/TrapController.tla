--------------------------- MODULE TrapController ---------------------------
(***************************************************************************)
(* Interrupts and trap levels of the hart (trap.cpp, arch/csr_file.cpp)    *)
(* under the backends: a step of either starts with the tick of the        *)
(* devices and a synchronisation of mip.  The functional backend then      *)
(* takes an interrupt before it executes an instruction; the pipeline      *)
(* commits one first, synchronises again if it stored to a device, and     *)
(* takes an interrupt after it.                                            *)
(*                                                                         *)
(* The lines of the timer and of the interrupt controller are free.  Of    *)
(* the instructions those remain that touch the trap state; the vectors,   *)
(* the causes and the saved pc are left out.                               *)
(***************************************************************************)
EXTENDS Naturals, Sequences, SequencesExt

CONSTANTS
  Wired,       \* the external interrupts whose lines exist
  MaxNesting   \* bound on the traps remembered by `taken'

ASSUME TrapAssumption == Wired \subseteq {"MEI", "SEI"} /\ MaxNesting \in Nat

VARIABLES
  hart,    \* mode; the fields of mstatus; mip, mie, mideleg, medeleg; timerMask
  lines,   \* PlatformEvents; and sstc: "due" or not, of stimecmp
  phase,   \* "tick", "synced" or "committed" (pipeline: an instruction was committed)
  backend, \* "functional" or "pipeline"
  posted,  \* history: interrupt bits that were not put into mip by a line
  taken    \* history: traps not returned from, innermost last

trapVars == <<hart, lines, phase, backend, posted, taken>>

Level == [U |-> 0, S |-> 1, M |-> 3]
Modes == DOMAIN Level
Delegable == {"STI"} \cup (Wired \ {"MEI"})
Interrupts == {"MTI", "STI"} \cup Wired

-----------------------------------------------------------------------------
\* What a read of mip returns.
ReadMip(h, l) == h.mip \cup (IF l.sstc = "due" THEN {"STI"} ELSE {})

\* Mutant: the timer bit goes away only where it was put without delegation.
SyncedKeepsStale(h, l) ==
  LET bit == IF "STI" \in h.mideleg THEN "STI" ELSE "MTI"
      timed == IF l.timer
               THEN [h EXCEPT !.mip = (ReadMip(h, l) \cup {bit}) \ ({"MTI", "STI"} \ {bit}),
                       !.timerMask = {bit}]
               ELSE [h EXCEPT !.mip = ReadMip(h, l) \ {"MTI"}, !.timerMask = {}]
  IN  [timed EXCEPT !.mip = (ReadMip(timed, l) \ {"MEI", "SEI"})
         \cup (IF l.mext THEN {"MEI"} ELSE {}) \cup (IF l.sext THEN {"SEI"} ELSE {})]

\* sync_platform_events: the timer's bit, where delegation sends it, then the external ones.
Synced(h, l) ==
  LET bit == IF "STI" \in h.mideleg THEN "STI" ELSE "MTI"
      timed == IF l.timer
               THEN [h EXCEPT !.mip = (ReadMip(h, l) \cup {bit}) \ ({"MTI", "STI"} \ {bit}),
                       !.timerMask = {bit}]
               ELSE [h EXCEPT !.mip = IF h.timerMask = {} THEN @ ELSE ReadMip(h, l) \ h.timerMask,
                       !.timerMask = {}]
  IN  [timed EXCEPT !.mip = (ReadMip(timed, l) \ {"MEI", "SEI"})
         \cup (IF l.mext THEN {"MEI"} ELSE {}) \cup (IF l.sext THEN {"SEI"} ELSE {})]

\* Bits of mip that no line accounts for after a synchronisation.
Unaccounted(h, l) ==
  ((posted \cup (IF l.sstc = "due" THEN {"STI"} ELSE {})) \ {"MEI", "SEI"}) \cap h.mip

MachineEnabled(h) == h.mode # "M" \/ h.mie_
SupervisorEnabled(h) == h.mode = "U" \/ (h.mode = "S" /\ h.sie_)

\* The order in which select_serviceable_interrupt looks for the four.
Order == [MEI |-> 1, MTI |-> 2, SEI |-> 3, STI |-> 4]

\* select_serviceable_interrupt: the interrupts it would return, were they the first.
Serviceable(h, l) ==
  {i \in h.mie \cap ReadMip(h, l) :
     IF i \in Delegable THEN i \in h.mideleg /\ SupervisorEnabled(h) ELSE MachineEnabled(h)}

ToSupervisor(h, delegated) == h.mode # "M" /\ delegated

\* Mutant: a trap into S mode forgets that it came from S mode.
EnteredForgetsSpp(h, delegated) ==
  IF ToSupervisor(h, delegated)
  THEN [h EXCEPT !.spie_ = h.sie_, !.sie_ = FALSE, !.spp = "U", !.mode = "S"]
  ELSE [h EXCEPT !.mpie_ = h.mie_, !.mie_ = FALSE, !.mpp = h.mode, !.mode = "M"]

\* Mutant: delegation is looked at in M mode too.
EnteredFromAnyMode(h, delegated) ==
  IF delegated
  THEN [h EXCEPT !.spie_ = h.sie_, !.sie_ = FALSE,
          !.spp = IF h.mode = "S" THEN "S" ELSE "U", !.mode = "S"]
  ELSE [h EXCEPT !.mpie_ = h.mie_, !.mie_ = FALSE, !.mpp = h.mode, !.mode = "M"]

\* enter_trap
Entered(h, delegated) ==
  IF ToSupervisor(h, delegated)
  THEN [h EXCEPT !.spie_ = h.sie_, !.sie_ = FALSE,
          !.spp = IF h.mode = "S" THEN "S" ELSE "U", !.mode = "S"]
  ELSE [h EXCEPT !.mpie_ = h.mie_, !.mie_ = FALSE, !.mpp = h.mode, !.mode = "M"]

\* A trap to the level of an earlier one overwrites what that one saved.
Overwritten(to) ==
  IF \E n \in DOMAIN taken : taken[n].to = to
  THEN RemoveAt(taken, CHOOSE n \in DOMAIN taken : taken[n].to = to)
  ELSE taken

Remember(h, delegated) ==
  LET to == IF ToSupervisor(h, delegated) THEN "S" ELSE "M"
  IN  /\ Len(taken) < MaxNesting
      /\ taken' = Append(Overwritten(to),
                         [to |-> to, mode |-> h.mode, mie_ |-> h.mie_, sie_ |-> h.sie_])

-----------------------------------------------------------------------------
TrapInit ==
  /\ hart = [mode |-> "M", mie_ |-> FALSE, mpie_ |-> FALSE, mpp |-> "U", sie_ |-> FALSE,
             spie_ |-> FALSE, spp |-> "U", mip |-> {}, mie |-> {}, mideleg |-> {},
             medeleg |-> FALSE, timerMask |-> {}]
  /\ lines = [timer |-> FALSE, mext |-> FALSE, sext |-> FALSE, sstc |-> "idle"]
  /\ phase = "tick" /\ backend \in {"functional", "pipeline"}
  /\ posted = {} /\ taken = <<>>

LinesChange ==
  \E t, m, s \in BOOLEAN :
    /\ (m => "MEI" \in Wired) /\ (s => "SEI" \in Wired)
    /\ lines' = [timer |-> t, mext |-> m, sext |-> s, sstc |-> lines.sstc]

\* Lines change with time; stimecmp becomes due and stays so.
TimePasses ==
  \/ LinesChange
  \/ lines.sstc = "idle" /\ lines' = [lines EXCEPT !.sstc = "due"]

\* bus.tick and sync_platform_events at the start of a step.
Tick ==
  /\ phase = "tick"
  /\ TimePasses
  /\ hart' = Synced(hart, lines')
  /\ posted' = Unaccounted(hart', lines')
  /\ phase' = "synced"
  /\ UNCHANGED <<backend, taken>>

Phase(p) ==
  /\ phase = IF backend = "functional" THEN "committed" ELSE "synced"
  /\ phase' = IF backend = "functional" THEN "tick" ELSE "committed"
  /\ p

\* service_pending_interrupts, or nothing to service.
Service ==
  /\ phase = IF backend = "functional" THEN "synced" ELSE "committed"
  /\ phase' = IF backend = "functional" THEN "committed" ELSE "tick"
  /\ UNCHANGED <<lines, backend>>
  /\ LET ready == Serviceable(hart, lines)
     IN  \/ ready = {} /\ UNCHANGED <<hart, posted, taken>>
         \/ \E i \in ready :
              LET h == [hart EXCEPT !.mip = ReadMip(hart, lines) \ {i}]
              IN  /\ \A j \in ready : Order[i] <= Order[j]
                  /\ hart' = Entered(h, i \in h.mideleg)
                  /\ Remember(h, i \in h.mideleg)
                  /\ posted' = posted \ {i}

\* An instruction that leaves the trap state alone, or a cycle without a commit.
Other == Phase(UNCHANGED <<hart, lines, backend, posted, taken>>)

Exception ==
  Phase(/\ hart' = Entered(hart, hart.medeleg) /\ Remember(hart, hart.medeleg)
        /\ UNCHANGED <<lines, backend, posted>>)

Returned(to) ==
  taken' = IF taken # <<>> /\ Last(taken).to = to THEN Front(taken) ELSE <<>>

\* Mutant: the interrupt enable stays off.
MretKeepsDisabled ==
  Phase(/\ hart.mode = "M"
        /\ hart' = [hart EXCEPT !.mpie_ = TRUE, !.mpp = "U", !.mode = hart.mpp]
        /\ Returned("M") /\ UNCHANGED <<lines, backend, posted>>)

Mret ==
  Phase(/\ hart.mode = "M"
        /\ hart' = [hart EXCEPT !.mie_ = hart.mpie_, !.mpie_ = TRUE, !.mpp = "U", !.mode = hart.mpp]
        /\ Returned("M") /\ UNCHANGED <<lines, backend, posted>>)

Sret ==
  Phase(/\ hart.mode # "U"
        /\ hart' = [hart EXCEPT !.sie_ = hart.spie_, !.spie_ = TRUE, !.spp = "U", !.mode = hart.spp]
        /\ Returned("S") /\ UNCHANGED <<lines, backend, posted>>)

\* Mutant: the reserved mode is kept.
SanitizedMppNot(mpp) == mpp

\* sanitize_mstatus: MPP never holds the reserved mode.
SanitizedMpp(mpp) == IF mpp \in Modes THEN mpp ELSE "U"

\* A write to mstatus: the saved modes and enables are no longer those of a trap.
WriteMstatus ==
  Phase(/\ hart.mode = "M"
        /\ \E mpp \in Modes \cup {"reserved"}, spp \in {"U", "S"}, on \in BOOLEAN :
             hart' = [hart EXCEPT !.mpp = SanitizedMpp(mpp), !.spp = spp, !.mie_ = on]
        /\ taken' = <<>> /\ UNCHANGED <<lines, backend, posted>>)

WriteSstatus ==
  Phase(/\ hart.mode # "U"
        /\ \E on \in BOOLEAN : hart' = [hart EXCEPT !.sie_ = on]
        /\ taken' = <<>> /\ UNCHANGED <<lines, backend, posted>>)

\* Writes to mie, mideleg and medeleg.
WriteEnableOrDelegation ==
  Phase(/\ hart.mode = "M"
        /\ \/ \E set \in {{}, Interrupts} : hart' = [hart EXCEPT !.mie = set]
           \/ \E set \in SUBSET Delegable : hart' = [hart EXCEPT !.mideleg = set]
           \/ \E on \in BOOLEAN : hart' = [hart EXCEPT !.medeleg = on]
        /\ UNCHANGED <<lines, backend, posted, taken>>)

\* Writes to mip in M mode, and to the delegated bits of sip, of a value read before.
WriteMip ==
  Phase(/\ hart.mode # "U"
        /\ \E mask \in {Interrupts, hart.mideleg} : \E i \in mask, on \in BOOLEAN :
             LET read == ReadMip(hart, lines)
                 value == IF on THEN read \cup {i} ELSE read \ {i}
             IN  /\ mask = hart.mideleg \/ hart.mode = "M"
                 /\ hart' = [hart EXCEPT !.mip = (@ \ mask) \cup (value \cap mask)]
                 /\ posted' = (IF on THEN posted \cup {i} ELSE posted \ {i})
                                \cup ((read \ hart.mip) \cap hart'.mip)
        /\ UNCHANGED <<lines, backend, taken>>)

\* A write to menvcfg or stimecmp; without the extension stimecmp is never due.
WriteStimecmp ==
  Phase(/\ hart.mode # "U"
        /\ \E t \in {"idle", "due"} : lines' = [lines EXCEPT !.sstc = t]
        /\ UNCHANGED <<hart, backend, posted, taken>>)

\* Mutant: a store to a device is not followed by a synchronisation.
DeviceStoreUnseen ==
  Phase(/\ LinesChange
        /\ UNCHANGED <<hart, backend, posted, taken>>)

\* A store to a device changes lines; the pipeline synchronises at once.
DeviceStore ==
  Phase(/\ LinesChange
        /\ IF backend = "pipeline" THEN hart' = Synced(hart, lines') /\ posted' = Unaccounted(hart', lines')
           ELSE UNCHANGED <<hart, posted>>
        /\ UNCHANGED <<backend, taken>>)

TrapNext ==
  \/ Tick \/ Service
  \/ Other \/ Exception \/ Mret \/ Sret
  \/ WriteMstatus \/ WriteSstatus \/ WriteEnableOrDelegation \/ WriteMip \/ WriteStimecmp
  \/ DeviceStore

TrapSpec == TrapInit /\ [][TrapNext]_trapVars

-----------------------------------------------------------------------------
(* Properties *)

TrapTypeOK ==
  /\ hart \in [mode : Modes, mie_ : BOOLEAN, mpie_ : BOOLEAN, mpp : Modes, sie_ : BOOLEAN,
               spie_ : BOOLEAN, spp : {"U", "S"}, mip : SUBSET Interrupts,
               mie : SUBSET Interrupts, mideleg : SUBSET Delegable, medeleg : BOOLEAN,
               timerMask : SUBSET {"MTI", "STI"}]
  /\ posted \subseteq Interrupts /\ Len(taken) <= MaxNesting

Justified(i) ==
  \/ i \in posted
  \/ i = "MEI" /\ lines.mext
  \/ i = "SEI" /\ lines.sext
  \/ i = "MTI" /\ lines.timer
  \/ i = "STI" /\ (lines.timer \/ lines.sstc = "due")

\* When interrupts are serviced every pending bit has its reason at that moment: a line
\* that is up, or a write to mip.  An instruction of the same cycle may have dropped the
\* line, and delegation may have moved the timer's bit, since the last synchronisation.
NoStaleInterrupt ==
  phase = (IF backend = "functional" THEN "synced" ELSE "committed") =>
    \A i \in ReadMip(hart, lines) : Justified(i)

\* Both, whatever CSRs are written.
PendingIsJustified == TrapTypeOK /\ NoStaleInterrupt

\* A trap never lowers the privilege, whatever is delegated.
NeverLowers == Service \/ Exception => Level[hart'.mode] >= Level[hart.mode]

\* Leaving a trap restores the mode and the interrupt enable it found, whatever traps of
\* the other level came between, unless software wrote the saved fields.
Restores ==
  /\ Mret /\ taken # <<>> /\ Last(taken).to = "M" =>
       hart'.mode = Last(taken).mode /\ hart'.mie_ = Last(taken).mie_
  /\ Sret /\ taken # <<>> /\ Last(taken).to = "S" =>
       hart'.mode = Last(taken).mode /\ hart'.sie_ = Last(taken).sie_

\* Nobody is interrupted to a level whose handler has neither returned nor enabled
\* interrupts again.
HandlerKept ==
  Service /\ taken' # taken => Last(taken').to \notin {taken[n].to : n \in DOMAIN taken}

\* Traps nest and unwind: all three, of every step.
TrapsNest == [][NeverLowers /\ Restores /\ HandlerKept]_trapVars
=============================================================================
