---------------------------- MODULE PrivateMemory ----------------------------
(***************************************************************************)
(* What the course process table promises about user pages: every process  *)
(* has pages of its own.  A store of one process is never seen by another, *)
(* a forked child starts with its parent's bytes, and pages go away only   *)
(* with the image that owned them.  Sharing does not exist at this level.  *)
(*                                                                         *)
(* A page is one cell: offsets do not matter to any of this.               *)
(***************************************************************************)
CONSTANTS
  Pids,       \* process identifiers
  UserPages,  \* page indices of one process
  Values,     \* contents of a page
  Unmapped    \* a page index that holds nothing

VARIABLE memory   \* contents of each page of each process

Empty == [i \in UserPages |-> Unmapped]

Init == memory = [p \in Pids |-> Empty]

\* A page the process did not have gets a fill value, a store reaches a page it has.
Write(p) == \E i \in UserPages, v \in Values : memory'[p] = [memory[p] EXCEPT ![i] = v]

\* A child that owned nothing gets its parent's contents.
Clone(child) ==
  /\ memory[child] = Empty
  /\ \E parent \in Pids \ {child} : memory'[child] = memory[parent]

\* The image is replaced or the process reaped: all its pages go at once.
Drop(p) == memory'[p] = Empty

\* Whatever happens shows in the memory of one process at most.
Next ==
  LET changed == {p \in Pids : memory'[p] # memory[p]}
  IN  \A p \in changed : changed = {p} /\ (Write(p) \/ Clone(p) \/ Drop(p))

Spec == Init /\ [][Next]_memory
=============================================================================
