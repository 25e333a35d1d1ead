----------------------------- MODULE CourseFiles -----------------------------
(***************************************************************************)
(* The file system of the course OS and its descriptors                    *)
(* (guest/kernel/course_fs.c, course_fd.c): a table of nodes, in each      *)
(* directory an index of its children sorted by name and cut into leaves,  *)
(* a data area per node, and descriptors that keep a path and an offset.   *)
(*                                                                         *)
(* Abstraction: a path is the sequence of its names, a name a number, a    *)
(* file has MaxData bytes at most.  The statistics are left out.  The      *)
(* kernel is not preempted in a call, so a call works on a value m of      *)
(* everything that is kept and returned: m.ok and m.fd or m.read.          *)
(***************************************************************************)
EXTENDS Integers, Sequences, FiniteSets, SequencesExt

CONSTANTS
  NumNodes,      \* COURSE_FS_MAX_NODES
  LeafCapacity,  \* COURSE_FS_BTREE_LEAF_CAPACITY
  MaxData,       \* COURSE_FS_MAX_DATA
  MaxOpen,       \* COURSE_FD_MAX_OPEN
  FilePaths,     \* the paths that are named, and their directories; names are ordered
  MaxCwd,        \* names in a working directory
  Bytes          \* bytes that are written

ASSUME FilesAssumption ==
  /\ {NumNodes, LeafCapacity} \subseteq Nat \ {0} /\ {MaxData, MaxOpen, MaxCwd} \subseteq Nat
  /\ FilePaths \subseteq Seq(Int) /\ <<>> \in FilePaths /\ Bytes \subseteq Int
  /\ \A p \in FilePaths \ {<<>>} : Front(p) \in FilePaths

VARIABLES
  files,
  seen    \* the tree that lookups find after the call

Nodes == 0 .. NumNodes - 1
Root == 0
Fds == 3 .. MaxOpen - 1

FreeNode == [used |-> FALSE, dir |-> FALSE, parent |-> Root, name |-> 0, size |-> 0, index |-> <<>>]
FreeFd == [kind |-> "unused", flags |-> {}, offset |-> 0, path |-> <<>>]

\* course_fs_init_with_storage and course_fd_table_init; the data areas keep what they hold.
Formatted(data) ==
  [nodes |-> [n \in Nodes |-> IF n = Root THEN [FreeNode EXCEPT !.used = TRUE, !.dir = TRUE]
                              ELSE FreeNode],
   data |-> data, fds |-> [fd \in Fds |-> FreeFd], cwd |-> <<>>,
   ok |-> TRUE, fd |-> 0, read |-> <<>>]

FilesStart == Formatted([n \in Nodes |-> [i \in 1 .. MaxData |-> 0]])

Done(m) == [m EXCEPT !.ok = TRUE]
Refuse(m) == [m EXCEPT !.ok = FALSE]

-----------------------------------------------------------------------------
(* The index of a directory *)

\* The first position from low before high whose child is not named below name.
Bisect(m, n, name, low, high, positions) ==
  LET search[from \in low .. high] ==
        [to \in low .. high |->
           LET mid == from + (to - from) \div 2
           IN  IF from >= to THEN from
               ELSE IF m.nodes[m.nodes[n].index[positions[mid]]].name < name
               THEN search[mid + 1][to] ELSE search[from][mid]]
  IN  search[low][high]

\* rebuild_child_btree: leaf k holds the children from LeafStart to LeafEnd.
LeafCount(index) == (Len(index) + LeafCapacity - 1) \div LeafCapacity
LeafStart(index, k) == (k - 1) * LeafCapacity + 1
LeafEnd(index, k) == IF k * LeafCapacity < Len(index) THEN k * LeafCapacity ELSE Len(index)

\* Mutant: the leaf is chosen by its first child.
FindChildByFirst(m, n, name) ==
  LET index == m.nodes[n].index
      leaves == LeafCount(index)
      leaf == Bisect(m, n, name, 1, leaves + 1, [k \in 1 .. leaves |-> LeafStart(index, k)])
      at == Bisect(m, n, name, LeafStart(index, leaf), LeafEnd(index, leaf) + 1,
                   [k \in 1 .. Len(index) |-> k])
  IN  IF ~m.nodes[n].dir \/ leaf > leaves THEN -1
      ELSE IF at <= LeafEnd(index, leaf) /\ m.nodes[index[at]].name = name THEN index[at] ELSE -1

\* find_child: the leaf by its last child, then the child in the leaf; -1 when there is none.
FindChild(m, n, name) ==
  LET index == m.nodes[n].index
      leaves == LeafCount(index)
      leaf == Bisect(m, n, name, 1, leaves + 1, [k \in 1 .. leaves |-> LeafEnd(index, k)])
      at == Bisect(m, n, name, LeafStart(index, leaf), LeafEnd(index, leaf) + 1,
                   [k \in 1 .. Len(index) |-> k])
  IN  IF ~m.nodes[n].dir \/ leaf > leaves THEN -1
      ELSE IF at <= LeafEnd(index, leaf) /\ m.nodes[index[at]].name = name THEN index[at] ELSE -1

\* resolve_path
FindNode(m, path) ==
  LET walk[i \in 0 .. Len(path)] ==
        LET above == IF i = 0 THEN -1 ELSE walk[i - 1]
        IN  IF i = 0 THEN Root ELSE IF above < 0 THEN -1 ELSE FindChild(m, above, path[i])
  IN  walk[Len(path)]

\* insert_child_index
WithChild(m, n, child) ==
  LET index == m.nodes[n].index
      below == {k \in 1 .. Len(index) : m.nodes[index[k]].name < m.nodes[child].name}
  IN  [m EXCEPT !.nodes[n].index = InsertAt(@, Cardinality(below) + 1, child)]

\* remove_child_index
WithoutChild(m, n, child) ==
  [m EXCEPT !.nodes[n].index = RemoveAt(@, CHOOSE k \in 1 .. Len(@) : @[k] = child)]

-----------------------------------------------------------------------------
(* Calls of the file system *)

\* course_fs_create, in the first free node.
Create(m, path, dir) ==
  LET parent == IF path = <<>> THEN -1 ELSE FindNode(m, Front(path))
      free == {n \in Nodes : ~m.nodes[n].used}
      n == CHOOSE x \in free : \A y \in free : x <= y
      node == [FreeNode EXCEPT !.used = TRUE, !.dir = dir, !.parent = parent, !.name = Last(path)]
  IN  IF parent < 0 \/ FindNode(m, path) >= 0 \/ free = {} THEN Refuse(m)
      ELSE IF ~m.nodes[parent].dir THEN Refuse(m)
      ELSE WithChild([Done(m) EXCEPT !.nodes[n] = node], parent, n)

HasChildren(m, n) == \E c \in Nodes : c # Root /\ m.nodes[c].used /\ m.nodes[c].parent = n

\* Mutant: a directory goes with what is in it.
RemoveWithChildren(m, path, dir) ==
  LET n == FindNode(m, path)
  IN  IF n <= Root THEN Refuse(m)
      ELSE IF m.nodes[n].dir # dir THEN Refuse(m)
      ELSE [WithoutChild(Done(m), m.nodes[n].parent, n) EXCEPT !.nodes[n] = FreeNode]

\* course_fs_rmdir and course_fs_unlink
RemoveNode(m, path, dir) ==
  LET n == FindNode(m, path)
  IN  IF n <= Root THEN Refuse(m)
      ELSE IF m.nodes[n].dir # dir \/ (dir /\ HasChildren(m, n)) THEN Refuse(m)
      ELSE [WithoutChild(Done(m), m.nodes[n].parent, n) EXCEPT !.nodes[n] = FreeNode]

\* Mutant: the hole before what is written is not cleared.
WriteOverHole(m, n, offset, bytes) ==
  LET end == offset + Len(bytes)
  IN  IF n < 0 \/ end > MaxData THEN Refuse(m)
      ELSE IF m.nodes[n].dir THEN Refuse(m)
      ELSE [Done(m) EXCEPT
              !.data[n] = [i \in 1 .. MaxData |->
                             IF i \in offset + 1 .. end THEN bytes[i - offset] ELSE @[i]],
              !.nodes[n].size = IF end > @ THEN end ELSE @]

\* course_fs_write, to node n.
WriteAt(m, n, offset, bytes) ==
  LET end == offset + Len(bytes)
      size == m.nodes[n].size
  IN  IF n < 0 \/ end > MaxData THEN Refuse(m)
      ELSE IF m.nodes[n].dir THEN Refuse(m)
      ELSE [Done(m) EXCEPT
              !.data[n] = [i \in 1 .. MaxData |->
                             IF i \in offset + 1 .. end THEN bytes[i - offset]
                             ELSE IF i \in size + 1 .. offset THEN 0 ELSE @[i]],
              !.nodes[n].size = IF end > @ THEN end ELSE @]

WriteNode(m, path, offset, bytes) == WriteAt(m, FindNode(m, path), offset, bytes)

\* course_fs_size and course_fs_read: what a node holds, unless it is none or a directory.
Nothing == [there |-> FALSE, bytes |-> <<>>]

Held(m, n) ==
  IF n < 0 THEN Nothing
  ELSE IF m.nodes[n].dir THEN Nothing
  ELSE [there |-> TRUE, bytes |-> SubSeq(m.data[n], 1, m.nodes[n].size)]

Contents(m, path) == Held(m, FindNode(m, path))

-----------------------------------------------------------------------------
(* Calls of the descriptors *)

Opened(m, fd, kind, flags, path) ==
  IF ~m.ok THEN m
  ELSE [m EXCEPT !.fd = fd, !.fds[fd] = [kind |-> kind, flags |-> flags, offset |-> 0, path |-> path]]

\* course_fd_open, of a path under /proc when proc holds.
Open(m, path, flags, proc) ==
  LET free == {fd \in Fds : m.fds[fd].kind = "unused"}
      fd == CHOOSE x \in free : \A y \in free : x <= y
  IN  IF free = {} THEN Refuse(m)
      ELSE IF proc THEN Opened(IF "w" \in flags THEN Refuse(m) ELSE Done(m), fd, "proc", flags, path)
      ELSE Opened(IF FindNode(m, path) >= 0 THEN Done(m)
                  ELSE IF "c" \in flags THEN Create(m, path, FALSE) ELSE Refuse(m),
                  fd, "file", flags, path)

\* course_fd_close
Close(m, fd) ==
  IF m.fds[fd].kind = "unused" THEN Refuse(m) ELSE [Done(m) EXCEPT !.fds[fd] = FreeFd]

\* course_fd_read: from the offset, as much as there is now, and no more than size.
ReadFrom(m, fd, size, held) ==
  LET offset == m.fds[fd].offset
      count == IF offset + size <= Len(held.bytes) THEN size
               ELSE IF offset <= Len(held.bytes) THEN Len(held.bytes) - offset ELSE 0
  IN  IF ~held.there THEN Refuse(m)
      ELSE [Done(m) EXCEPT !.read = SubSeq(held.bytes, offset + 1, offset + count),
                           !.fds[fd].offset = @ + count]

\* Of a descriptor under /proc, text is what its path says now.
ReadFd(m, fd, size, text) ==
  IF m.fds[fd].kind = "unused" \/ "r" \notin m.fds[fd].flags THEN Refuse(m)
  ELSE ReadFrom(m, fd, size, IF m.fds[fd].kind = "file" THEN Contents(m, m.fds[fd].path) ELSE text)

\* course_fd_write
Moved(m, fd, count) == IF m.ok THEN [m EXCEPT !.fds[fd].offset = @ + count] ELSE m

WriteFd(m, fd, bytes) ==
  IF m.fds[fd].kind # "file" \/ "w" \notin m.fds[fd].flags THEN Refuse(m)
  ELSE Moved(WriteNode(m, m.fds[fd].path, m.fds[fd].offset, bytes), fd, Len(bytes))

\* course_fd_seek
Seek(m, fd, offset) ==
  IF m.fds[fd].kind # "file" THEN Refuse(m) ELSE [Done(m) EXCEPT !.fds[fd].offset = offset]

\* course_fd_set_cwd, which a file may be too.
SetCwd(m, path) == IF FindNode(m, path) < 0 THEN Refuse(m) ELSE [Done(m) EXCEPT !.cwd = path]

\* course_fd_resolve_path, of an absolute or a relative path.
Resolved(m, absolute, path) == IF absolute THEN path ELSE m.cwd \o path

-----------------------------------------------------------------------------
(* Steps *)

\* The tree that lookups find.
TreeOf(m) ==
  LET found == [p \in FilePaths |-> FindNode(m, p)]
  IN  [p \in {q \in FilePaths : found[q] >= 0} |->
         [dir |-> m.nodes[found[p]].dir, bytes |-> SubSeq(m.data[found[p]], 1, m.nodes[found[p]].size)]]

FilesInit == files = FilesStart /\ seen = TreeOf(FilesStart)

FilesCall(m) == files' = [m EXCEPT !.fd = 0, !.ok = TRUE] /\ seen' = TreeOf(m)

Named == {Resolved(files, absolute, path) : absolute \in BOOLEAN, path \in FilePaths} \cap FilePaths

FilesNext ==
  LET called == [files EXCEPT !.read = <<>>] IN
  \/ \E p \in Named :
       \/ FilesCall(Create(called, p, TRUE))
       \/ \E dir \in BOOLEAN : FilesCall(RemoveNode(called, p, dir))
       \/ \E flags \in {{"r", "w"}, {"w", "c"}} : FilesCall(Open(called, p, flags, FALSE))
       \/ Len(p) <= MaxCwd /\ FilesCall(SetCwd(called, p))
  \/ \E fd \in Fds :
       \/ FilesCall(Close(called, fd))
       \/ FilesCall(ReadFd(called, fd, 1, Nothing))
       \/ \E byte \in Bytes : FilesCall(WriteFd(called, fd, <<byte>>))
       \/ \E offset \in 0 .. MaxData : FilesCall(Seek(called, fd, offset))
  \/ FilesCall(Formatted(files.data))

FilesSpec == FilesInit /\ [][FilesNext]_<<files, seen>>

-----------------------------------------------------------------------------
(* Properties *)

Tree == INSTANCE FileTree WITH tree <- seen, got <- files.read,
                               Writes <- {<<byte>> : byte \in Bytes}

\* What a path leads to through the indexes of the directories is what was made there and
\* written to it, and nothing else changes: not by the reuse of a node and its data area, nor
\* by a write beyond the end of a file.
ImplementsFileTree == Tree!TreeSpec
=============================================================================
