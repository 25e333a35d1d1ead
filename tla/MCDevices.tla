------------------------------ MODULE MCDevices ------------------------------
(***************************************************************************)
(* The units around the hart and its rename map, for TLC: one of them      *)
(* runs, the others rest in their initial states, so that one run checks   *)
(* them all and its states add up instead of multiplying.                  *)
(***************************************************************************)
EXTENDS Plic, TrapController, AddressSpace, Virtio, Console, AiAccelerator,
        RenameMap

VARIABLE unit   \* the one that runs

Units == {"plic", "trap", "space", "virtio", "console", "ai", "rename"}

DevicesInit ==
  /\ unit \in Units
  /\ PlicInit /\ TrapInit /\ SpaceInit /\ VirtioInit /\ ConsoleInit /\ AiInit /\ Init
  /\ unit # "trap" => backend = "functional"

\* Only unit u moves.
Rest(u) ==
  /\ unit = u /\ UNCHANGED unit
  /\ IF u = "plic" THEN TRUE ELSE UNCHANGED plic
  /\ IF u = "trap" THEN TRUE ELSE UNCHANGED trapVars
  /\ IF u = "space" THEN TRUE ELSE UNCHANGED spaceVars
  /\ IF u = "virtio" THEN TRUE ELSE UNCHANGED virtioVars
  /\ IF u = "console" THEN TRUE ELSE UNCHANGED consoleVars
  /\ IF u = "ai" THEN TRUE ELSE UNCHANGED aiVars
  /\ IF u = "rename" THEN TRUE ELSE UNCHANGED vars

\* Of the trap unit, delegation is all or nothing and at most one bit of mip is one no line
\* accounts for; of the address space, SUM is set in S mode only, the one mode that looks at
\* it, and software writes at most one page's entry between two flushes.
DevicesNext ==
  \/ Rest("plic") /\ PlicNext
  \/ Rest("trap") /\ TrapNext /\ hart'.mideleg \in {{}, Delegable} /\ Cardinality(posted') <= 1
  \/ Rest("space") /\ SpaceNext /\ (path'.sum => path'.mode = "S") /\ Cardinality(changed') <= 1
  \/ Rest("virtio") /\ VirtioNext
  \/ Rest("console") /\ ConsoleNext
  \/ Rest("ai") /\ AiNext
  \/ Rest("rename") /\ Next

DevicesSpec ==
  DevicesInit
  /\ [][DevicesNext]_<<unit, plic, trapVars, spaceVars, virtioVars, consoleVars, aiVars,
                          vars>>

\* The page-table entries software may install.
SomePtes ==
  {[valid |-> TRUE, frame |-> "f1", perms |-> {"r", "w", "x"}, user |-> TRUE, a |-> FALSE,
    d |-> FALSE],
   [valid |-> TRUE, frame |-> "f2", perms |-> {"r"}, user |-> FALSE, a |-> FALSE, d |-> FALSE]}
=============================================================================
