------------------------------ MODULE FileTree ------------------------------
(***************************************************************************)
(* What a file system promises its callers: a tree of directories and      *)
(* files, each file a sequence of bytes.  A path is a sequence of names.   *)
(***************************************************************************)
EXTENDS Integers, Sequences, SequencesExt

CONSTANTS
  Writes,    \* what one call may write
  MaxData    \* bytes of a file

VARIABLES
  tree,   \* path -> whether it is a directory, and its bytes
  got     \* what the last call read

treeVars == <<tree, got>>

Directory == [dir |-> TRUE, bytes |-> <<>>]
EmptyFile == [dir |-> FALSE, bytes |-> <<>>]

Bare == [p \in {<<>>} |-> Directory]

Parent(p) == Front(p)

\* Bytes put at an offset; what lies between them and the end of the file is zero.
Overwritten(contents, offset, bytes) ==
  [i \in 1 .. (IF offset + Len(bytes) > Len(contents) THEN offset + Len(bytes) ELSE Len(contents)) |->
     IF i \in offset + 1 .. offset + Len(bytes) THEN bytes[i - offset]
     ELSE IF i <= Len(contents) THEN contents[i] ELSE 0]

Childless(t, p) == \A q \in DOMAIN t \ {<<>>} : Parent(q) # p

\* What one call may make of a tree.
Make(before, after, p) ==
  /\ p # <<>> /\ Parent(p) \in DOMAIN before /\ before[Parent(p)].dir
  /\ \E contents \in {Directory, EmptyFile} :
       after = [q \in DOMAIN before \cup {p} |-> IF q = p THEN contents ELSE before[q]]

Delete(before, after, p) ==
  p # <<>> /\ Childless(before, p) /\ after = Restrict(before, DOMAIN before \ {p})

Put(before, after, p) ==
  /\ ~before[p].dir
  /\ \E offset \in 0 .. MaxData - 1, bytes \in Writes :
       after = [before EXCEPT ![p].bytes = Overwritten(@, offset, bytes)]

Change(before, after) ==
  \/ \E p \in DOMAIN after \ DOMAIN before : Make(before, after, p)
  \/ \E p \in DOMAIN before \ DOMAIN after : Delete(before, after, p)
  \/ \E p \in {q \in DOMAIN before \cap DOMAIN after : before[q] # after[q]} : Put(before, after, p)
  \/ after = Bare

\* What a read may return.
Fetch(t, bytes) ==
  \/ bytes = <<>>
  \/ \E p \in {q \in DOMAIN t : ~t[q].dir} :
       \E first \in 1 .. Len(t[p].bytes) + 1, last \in 0 .. Len(t[p].bytes) :
         bytes = SubSeq(t[p].bytes, first, last)

TreeStep(before, after, bytes) ==
  IF before = after THEN Fetch(before, bytes) ELSE bytes = <<>> /\ Change(before, after)

TreeInit == tree = Bare /\ got = <<>>

TreeSpec == TreeInit /\ [][TreeStep(tree, tree', got')]_treeVars
=============================================================================
