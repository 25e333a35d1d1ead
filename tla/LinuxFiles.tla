----------------------------- MODULE LinuxFiles -----------------------------
(***************************************************************************)
(* Files of the Linux compatibility layer (guest/kernel/linux_compat.c):   *)
(* descriptors, the writable overlay above the read-only root file system, *)
(* and pipes.  A node of the overlay lives while it has a name or an open  *)
(* descriptor, which open_count is to say; close, dup3, execve and the     *)
(* start of the next program of a session all touch it.  One action per    *)
(* system call; a call that only returns an error is left out, one that    *)
(* fails after it changed something is not.  What files contain is left    *)
(* out.                                                                    *)
(***************************************************************************)
EXTENDS Naturals, FiniteSets, FiniteSetsExt

CONSTANTS
  MaxFds,      \* LINUX_COMPAT_MAX_FDS (8); 0, 1 and 2 are the terminal
  MaxNodes,    \* LINUX_COMPAT_MAX_OVERLAY_NODES (32)
  MaxPipes,    \* LINUX_COMPAT_MAX_PIPES (4)
  FileSize,    \* LINUX_COMPAT_MAX_OVERLAY_FILE_SIZE (2048)
  PipeSize,    \* LINUX_COMPAT_MAX_PIPE_SIZE (512)
  MaxLeft,     \* bound: the open count a node may be left with when a program ends
  Names,       \* absolute paths
  LowerNames,  \* those of files in the root file system
  ParentOf     \* the directory of each; "/" stands for every one of the root file system

ASSUME LinuxFilesAssumption ==
  /\ MaxFds \in Nat /\ MaxFds > 3 /\ {MaxNodes, MaxPipes, FileSize, PipeSize, MaxLeft} \subseteq Nat
  /\ LowerNames \subseteq Names /\ "" \notin Names
  /\ ParentOf \in [Names -> Names \cup {"/"}] /\ \A p \in LowerNames : ParentOf[p] = "/"

VARIABLES
  fds,      \* of each descriptor: kind, slot (of its node or pipe), write, append, cloexec, offset
  nodes,    \* overlay_nodes: path, dir, opens, size
  pipes,    \* used, size, read_offset
  doubted   \* history: slots with a descriptor that was not counted (uncounted) or was dropped
            \* without being released (abandoned); a directory was renamed or replaced (moved)

linuxVars == <<fds, nodes, pipes, doubted>>

Fds == 3..(MaxFds - 1)
NodeSlots == 1..MaxNodes
PipeSlots == 1..MaxPipes
Root == "/"
NoName == ""
Closed == [kind |-> "closed", slot |-> 0, write |-> FALSE, append |-> FALSE, cloexec |-> FALSE,
           offset |-> 0]
Unused == [path |-> NoName, dir |-> FALSE, opens |-> 0, size |-> 0]
FreePipe == [used |-> FALSE, size |-> 0, read |-> 0]

\* A slot is used while it has a name or is open.
Used(n) == nodes[n].path # NoName \/ nodes[n].opens > 0
FreeFds == {fd \in Fds : fds[fd].kind = "closed"}
FreeNodes == {n \in NodeSlots : ~Used(n)}
Found(p) == {n \in NodeSlots : nodes[n].path = p}   \* find_overlay_node
PathExists(p) == Found(p) # {} \/ p \in LowerNames
ParentExists(p) == ParentOf[p] = Root \/ \E n \in Found(ParentOf[p]) : nodes[n].dir
File(fd) == fds[fd].kind \in {"lower", "overlay"}

LinuxInit ==
  /\ fds = [fd \in Fds |-> Closed]
  /\ nodes = [n \in NodeSlots |-> Unused]
  /\ pipes = [k \in PipeSlots |-> FreePipe]
  /\ doubted = [uncounted |-> {}, abandoned |-> {}, moved |-> FALSE]

-----------------------------------------------------------------------------
(* Opening and closing *)

Opened(kind, slot, flags) ==
  [kind |-> kind, slot |-> slot, write |-> "write" \in flags, append |-> "append" \in flags,
   cloexec |-> "cloexec" \in flags, offset |-> 0]

Retained(ns, n) == [ns EXCEPT ![n].opens = @ + 1]

\* Mutant: the last descriptor does not take an unlinked file with it.
ReleasedOpenKeeps(ns, n) == ns

\* overlay_release_open
ReleasedOpen(ns, n) == [ns EXCEPT ![n].opens = IF @ = 0 THEN 0 ELSE @ - 1]

\* Mutant: an unlinked file is gone although descriptors are open.
DroppedAnyway(ns, n) == [ns EXCEPT ![n] = Unused]

\* overlay_drop_link: the name goes, and the rest too unless a descriptor is open.
Dropped(ns, n) == IF ns[n].opens = 0 THEN [ns EXCEPT ![n] = Unused] ELSE [ns EXCEPT ![n].path = NoName]

\* /dev/null and /dev/urandom
OpenDevice(flags) ==
  /\ FreeFds # {}
  /\ fds' = [fds EXCEPT ![Min(FreeFds)] = Opened("device", 0, flags)]
  /\ UNCHANGED <<nodes, pipes, doubted>>

\* The node that an open creates, copies up from the root file system, or finds (0: none).
NodeFor(p, flags) ==
  IF Found(p) # {} THEN Min(Found(p))
  ELSE IF p \notin LowerNames \/ "write" \in flags THEN Min(FreeNodes)
  ELSE 0

\* openat of a file or directory.  With every descriptor in use it fails in the end, with the
\* node created, copied up or truncated.
OpenAt(p, flags) ==
  /\ ~(PathExists(p) /\ {"create", "excl"} \subseteq flags)
  /\ PathExists(p) \/ ("create" \in flags /\ ParentExists(p))
  /\ Found(p) = {} /\ (p \notin LowerNames \/ "write" \in flags) => FreeNodes # {}
  /\ \A n \in Found(p) : nodes[n].dir => "write" \notin flags
  /\ LET n == NodeFor(p, flags)
         size == IF "trunc" \in flags \/ p \notin LowerNames \/ Found(p) # {} THEN 0 ELSE FileSize
         made == IF n = 0 THEN nodes
                 ELSE IF Found(p) = {}
                 THEN [nodes EXCEPT ![n] = [path |-> p, dir |-> FALSE, opens |-> 0, size |-> size]]
                 ELSE [nodes EXCEPT ![n].size = IF "trunc" \in flags THEN 0 ELSE @]
     IN  IF FreeFds = {}
         THEN nodes' = made /\ UNCHANGED fds
         ELSE /\ fds' = [fds EXCEPT ![Min(FreeFds)] =
                           Opened(IF n = 0 THEN "lower" ELSE "overlay", n, flags)]
              /\ nodes' = IF n = 0 THEN made ELSE Retained(made, n)
  /\ UNCHANGED <<pipes, doubted>>

\* The nodes when a descriptor goes.
WithoutFd(ns, fd) == IF fds[fd].kind = "overlay" THEN ReleasedOpen(ns, fds[fd].slot) ELSE ns

Close(fd) ==
  /\ fds[fd].kind # "closed"
  /\ nodes' = WithoutFd(nodes, fd)
  /\ fds' = [fds EXCEPT ![fd] = Closed]
  /\ UNCHANGED <<pipes, doubted>>

\* A copy of the terminal's descriptors is open but neither a file nor a pipe.
Copy(old) == IF old \in Fds THEN fds[old] ELSE [Closed EXCEPT !.kind = "terminal"]

\* Mutant: the copy is not counted.
Dup3Uncounted(old, new, cloexec) ==
  /\ old # new /\ Copy(old).kind # "closed"
  /\ fds' = [fds EXCEPT ![new] = [Copy(old) EXCEPT !.cloexec = cloexec]]
  /\ nodes' = WithoutFd(nodes, new)
  /\ UNCHANGED <<pipes, doubted>>

Dup3(old, new, cloexec) ==
  /\ old # new /\ Copy(old).kind # "closed"
  /\ fds' = [fds EXCEPT ![new] = [Copy(old) EXCEPT !.cloexec = cloexec]]
  /\ nodes' = LET closed == WithoutFd(nodes, new)
              IN  IF Copy(old).kind = "overlay" THEN Retained(closed, Copy(old).slot) ELSE closed
  /\ UNCHANGED <<pipes, doubted>>

\* fcntl F_DUPFD: the copy, with its cloexec flag, is not counted.
DupFd(old) ==
  /\ FreeFds # {} /\ Copy(old).kind # "closed"
  /\ \E new \in FreeFds : fds' = [fds EXCEPT ![new] = Copy(old)]
  /\ doubted' = IF Copy(old).kind = "overlay"
                THEN [doubted EXCEPT !.uncounted = @ \cup {Copy(old).slot}] ELSE doubted
  /\ UNCHANGED <<nodes, pipes>>

SetCloexec(fd, on) ==
  /\ fds[fd].kind # "closed"
  /\ fds' = [fds EXCEPT ![fd].cloexec = on]
  /\ UNCHANGED <<nodes, pipes, doubted>>

\* execve: descriptors that ask for it are closed.
Execve ==
  LET gone == {fd \in Fds : fds[fd].kind # "closed" /\ fds[fd].cloexec}
      Opens(n) == Cardinality({fd \in gone : fds[fd].kind = "overlay" /\ fds[fd].slot = n})
  IN  /\ gone # {}
      /\ fds' = [fd \in Fds |-> IF fd \in gone THEN Closed ELSE fds[fd]]
      /\ nodes' = [n \in NodeSlots |->
                     [nodes[n] EXCEPT !.opens = IF Opens(n) > @ THEN 0 ELSE @ - Opens(n)]]
      /\ UNCHANGED <<pipes, doubted>>

\* linux_compat_run for the next program of a session: descriptors and pipes are cleared, the
\* overlay stays, with the counts of what was open.
NextProgram ==
  /\ \A n \in NodeSlots : nodes[n].opens <= MaxLeft
  /\ doubted' = [doubted EXCEPT !.uncounted = {},
       !.abandoned = @ \cup {n \in NodeSlots : nodes[n].opens > 0}]
  /\ fds' = [fd \in Fds |-> Closed]
  /\ pipes' = [k \in PipeSlots |-> FreePipe]
  /\ UNCHANGED nodes

-----------------------------------------------------------------------------
(* Names *)

MkdirAt(p) ==
  /\ ~PathExists(p) /\ ParentExists(p) /\ FreeNodes # {}
  /\ nodes' = [nodes EXCEPT ![Min(FreeNodes)] = [Unused EXCEPT !.path = p, !.dir = TRUE]]
  /\ UNCHANGED <<fds, pipes, doubted>>

\* unlinkat, of a file; the root file system's own file of that name shows again.
UnlinkAt(p) ==
  /\ \E n \in Found(p) : ~nodes[n].dir /\ nodes' = Dropped(nodes, n)
  /\ UNCHANGED <<fds, pipes, doubted>>

\* Mutant: the file that had the name keeps it.
RenameAtOver(p, q) ==
  /\ Found(p) # {} /\ ParentExists(q) /\ (q \notin LowerNames \/ Found(q) # {})
  /\ \E n \in Found(p) :
       /\ nodes' = [nodes EXCEPT ![n].path = q]
       /\ doubted' = [doubted EXCEPT !.moved = @ \/ (p # q /\ nodes[n].dir)]
  /\ UNCHANGED <<fds, pipes>>

\* renameat, of files and directories alike; what had the new name loses it.
RenameAt(p, q) ==
  /\ Found(p) # {} /\ ParentExists(q) /\ (q \notin LowerNames \/ Found(q) # {})
  /\ \E n \in Found(p) :
       LET others == Found(q) \ {n}
           room == IF others = {} THEN nodes ELSE Dropped(nodes, Min(others))
       IN  /\ nodes' = [room EXCEPT ![n].path = q]
           /\ doubted' = [doubted EXCEPT
                !.moved = @ \/ (p # q /\ nodes[n].dir) \/ \E m \in others : nodes[m].dir]
  /\ UNCHANGED <<fds, pipes>>

-----------------------------------------------------------------------------
(* Contents: how far they reach *)

\* lseek, also past the end; no further than one past the largest file here.
Lseek(fd, offset) ==
  /\ File(fd) /\ (fds[fd].kind = "overlay" => ~nodes[fds[fd].slot].dir)
  /\ fds' = [fds EXCEPT ![fd].offset = offset]
  /\ UNCHANGED <<nodes, pipes, doubted>>

\* Reading moves the offset to the end of the file at most.
Read(fd) ==
  /\ File(fd)
  /\ LET size == IF fds[fd].kind = "overlay" THEN nodes[fds[fd].slot].size ELSE FileSize
     IN  /\ fds[fd].offset < size
         /\ \E next \in (fds[fd].offset + 1)..size : fds' = [fds EXCEPT ![fd].offset = next]
  /\ UNCHANGED <<nodes, pipes, doubted>>

\* Mutant: only the length is compared with the largest size.
FitsAlone(offset, length) == length <= FileSize

\* The write stays within the node's data.
Fits(offset, length) == offset <= FileSize /\ length <= FileSize - offset

\* The file after a write at an offset, by write or pwrite64.
Extended(fd, offset, length) ==
  [nodes EXCEPT ![fds[fd].slot].size = IF offset + length > @ THEN offset + length ELSE @]

Writable(fd) == fds[fd].kind = "overlay" /\ fds[fd].write /\ ~nodes[fds[fd].slot].dir

\* Where it writes; appending moves the offset there even when the write is then refused.
WriteOffset(fd) == IF fds[fd].append THEN nodes[fds[fd].slot].size ELSE fds[fd].offset

Write(fd, length) ==
  /\ Writable(fd)
  /\ LET offset == WriteOffset(fd)
     IN  IF Fits(offset, length)
         THEN /\ nodes' = Extended(fd, offset, length)
              /\ fds' = [fds EXCEPT ![fd].offset = offset + length]
         ELSE fds' = [fds EXCEPT ![fd].offset = offset] /\ UNCHANGED nodes
  /\ UNCHANGED <<pipes, doubted>>

\* pwrite64: the offset is the caller's (an appending descriptor still appends) and is restored.
Pwrite(fd, at, length) ==
  /\ Writable(fd)
  /\ LET offset == IF fds[fd].append THEN nodes[fds[fd].slot].size ELSE at
     IN  Fits(offset, length) /\ nodes' = Extended(fd, offset, length)
  /\ UNCHANGED <<fds, pipes, doubted>>

\* ftruncate also pulls the offset of this descriptor back.
Ftruncate(fd, length) ==
  /\ Writable(fd) /\ length <= FileSize
  /\ nodes' = [nodes EXCEPT ![fds[fd].slot].size = length]
  /\ fds' = [fds EXCEPT ![fd].offset = IF @ > length THEN length ELSE @]
  /\ UNCHANGED <<pipes, doubted>>

-----------------------------------------------------------------------------
(* Pipes *)

\* pipe2: two descriptors and a pipe that nobody used since the program started.
Pipe2(flags) ==
  /\ Cardinality(FreeFds) >= 2 /\ \E k \in PipeSlots : ~pipes[k].used
  /\ LET r == Min(FreeFds)
         w == Min(FreeFds \ {r})
         k == Min({j \in PipeSlots : ~pipes[j].used})
     IN  /\ fds' = [fds EXCEPT ![r] = Opened("reader", k, flags), ![w] = Opened("writer", k, flags)]
         /\ pipes' = [pipes EXCEPT ![k] = [FreePipe EXCEPT !.used = TRUE]]
  /\ UNCHANGED <<nodes, doubted>>

PipeRead(fd, length) ==
  /\ fds[fd].kind = "reader"
  /\ LET pipe == pipes[fds[fd].slot]
     IN  /\ length <= pipe.size - pipe.read
         /\ pipes' = [pipes EXCEPT ![fds[fd].slot] =
                        IF pipe.read + length = pipe.size THEN [FreePipe EXCEPT !.used = TRUE]
                        ELSE [pipe EXCEPT !.read = @ + length]]
  /\ UNCHANGED <<fds, nodes, doubted>>

\* Mutant: what was read already makes room.
RoomBehind(pipe) == PipeSize - (pipe.size - pipe.read)

\* Room is counted from the end of what was ever written since the pipe was empty.
Room(pipe) == PipeSize - pipe.size

\* The chunks that were copied before a bad address stay in the pipe.
PipeWrite(fd, length, copied) ==
  /\ fds[fd].kind = "writer" /\ copied <= length
  /\ length <= Room(pipes[fds[fd].slot])
  /\ pipes' = [pipes EXCEPT ![fds[fd].slot].size = @ + copied]
  /\ UNCHANGED <<fds, nodes, doubted>>

-----------------------------------------------------------------------------
OpenFlags ==
  {{}, {"write"}, {"write", "trunc", "create"}, {"create", "excl"}, {"write", "append"}, {"cloexec"}}

DescriptorCall ==
  \/ \E flags \in {{}, {"write", "cloexec"}} : OpenDevice(flags)
  \/ \E p \in Names, flags \in OpenFlags : OpenAt(p, flags)
  \/ \E fd \in Fds : Close(fd)
  \/ \E old \in 0..(MaxFds - 1), new \in Fds, on \in BOOLEAN : Dup3(old, new, on)
  \/ \E fd \in Fds, on \in BOOLEAN : SetCloexec(fd, on)
  \/ Execve
  \/ NextProgram

CopyCall == \E old \in 0..(MaxFds - 1) : DupFd(old)

NameCall ==
  \/ \E p \in Names : MkdirAt(p) \/ UnlinkAt(p)
  \/ \E p, q \in Names : RenameAt(p, q)

DataCall ==
  \/ \E fd \in Fds, offset \in 0..(FileSize + 1) : Lseek(fd, offset)
  \/ \E fd \in Fds : Read(fd)
  \/ \E fd \in Fds, length \in 0..FileSize : Write(fd, length) \/ Ftruncate(fd, length)
  \/ \E fd \in Fds, at \in 0..(FileSize + 1), length \in 0..FileSize : Pwrite(fd, at, length)
  \/ \E flags \in {{}, {"cloexec"}} : Pipe2(flags)
  \/ \E fd \in Fds, length \in 0..PipeSize : PipeRead(fd, length)
  \/ \E fd \in Fds, length, copied \in 0..PipeSize : PipeWrite(fd, length, copied)

LinuxNext == DescriptorCall \/ CopyCall \/ NameCall \/ DataCall

LinuxSpec == LinuxInit /\ [][LinuxNext]_linuxVars

-----------------------------------------------------------------------------
(* Properties *)

Refs(n) == {fd \in Fds : fds[fd].kind = "overlay" /\ fds[fd].slot = n}

\* The test test_opened_overlay_fd_survives_rename_unlink_until_close: a file lives, renamed or
\* unlinked, until its last descriptor is closed.  F_DUPFD breaks it.
OpenFileSurvives == \A n \in NodeSlots : Refs(n) # {} => Used(n)

\* As long as no copy of a descriptor went uncounted: no open file is given away, an unlinked
\* one goes with its last descriptor (unless a program ended with it open).
NodesLiveAsLongAsNeeded ==
  \A n \in NodeSlots \ doubted.uncounted :
    /\ nodes[n].opens >= Cardinality(Refs(n))
    /\ n \notin doubted.abandoned => nodes[n].opens = Cardinality(Refs(n))

\* A path names one file, whose directory exists as long as no directory was moved.
NamesConsistent ==
  /\ \A p \in Names : Cardinality(Found(p)) <= 1
  /\ ~doubted.moved => \A n \in NodeSlots : nodes[n].path # NoName => ParentExists(nodes[n].path)

\* No write reaches past the buffer of a file or a pipe, whatever was sought, appended or
\* truncated before.
BuffersKept ==
  /\ \A n \in NodeSlots : nodes[n].size <= FileSize
  /\ \A k \in PipeSlots : pipes[k].read <= pipes[k].size /\ pipes[k].size <= PipeSize
  /\ \A fd \in Fds : fds[fd].kind \in {"reader", "writer"} => pipes[fds[fd].slot].used

LinuxFilesSound == NodesLiveAsLongAsNeeded /\ NamesConsistent /\ BuffersKept
=============================================================================
