----------------------------- MODULE CourseShell -----------------------------
(***************************************************************************)
(* The shell of the course OS (guest/kernel/course_shell.c,                *)
(* course_shell_linux.c): command lines with "&&", pipelines through two   *)
(* shared scratch buffers, redirection, scripts, programs run as children, *)
(* on the course files, descriptors and process table.                     *)
(*                                                                         *)
(* Abstraction: a line is a sequence of parsed segments, texts are         *)
(* sequences of numbers, a number in a script stands for a line.  The      *)
(* texts under /proc, the sem and mutex commands (module CourseSync) and   *)
(* what a Linux program does are left out, and so is the user memory of a  *)
(* child, which is its own and goes with it.                               *)
(***************************************************************************)
EXTENDS Integers, Sequences, FiniteSets, SequencesExt, FiniteSetsExt

CONSTANTS
  NumNodes, LeafCapacity, MaxData, MaxOpen, MaxCwd, FilePaths, Bytes, \* of CourseFiles
  MaxProcesses, NumPages, MaxCowPages, Values, MaxPid, MaxPageId,     \* of CourseProcess
  MaxHeld,       \* COURSE_SHELL_COMMAND_SCRATCH_DEPTH
  MaxTyped,      \* lines in the transcript (COURSE_SHELL_MAX_TRANSCRIPT bytes)
  Lines,         \* what may be typed: a sequence of lines
  Images,        \* contents that course_elf_load accepts
  LinuxDirs,     \* directories of the Linux root file system
  FirstFiles     \* what is there at first: a sequence of [path, dir, bytes]

VARIABLE shell

Fs == INSTANCE CourseFiles WITH files <- shell, seen <- <<>>
Ps == INSTANCE CourseProcess WITH table <- shell.table

ShellPid == 1
NoArg == <<0>>

\* Buffers: the caller's, line_output_scratch, command_output_scratch, and the line_out of
\* each script that runs.
Callers == 0
LineScratch == 1
CommandScratch == 2
ScriptLine(m) == 2 + m.held

Fail(m) == [m EXCEPT !.ok = FALSE]
Unsuccessful(m) == [m EXCEPT !.ok = TRUE, !.good = FALSE]
\* What comes next is done only if what came before succeeded.
Then(m, Next(_)) == IF m.ok THEN Next(m) ELSE m

Said(m, b, text) == [m EXCEPT !.ok = TRUE, !.buf[b] = text, !.meant = text]

-----------------------------------------------------------------------------
(* Files *)

\* read_all_fd into a buffer, and course_fd_close.
ReadAndClose(read, fd, b) ==
  IF read.ok THEN Said(Fs!Close(read, fd), b, read.read)
  ELSE Fail([Fs!Close(read, fd) EXCEPT !.buf[b] = <<>>])

ReadWhole(m, path, b) ==
  Then(Fs!Open(m, path, {"r"}, FALSE), LAMBDA opened :
       ReadAndClose(Fs!ReadFd(opened, opened.fd, MaxData, Fs!Nothing), opened.fd, b))

\* The output redirection: nothing closes the descriptor when the write fails.
Redirected(m, path, b) ==
  Then(Fs!Open(m, path, {"c", "w"}, FALSE), LAMBDA opened :
       Then(Fs!WriteFd(opened, opened.fd, m.buf[b]), LAMBDA written : Fs!Close(written, opened.fd)))

\* course_fs_listdir
ListNode(m, n) ==
  IF n < 0 THEN Fail(m)
  ELSE IF ~m.nodes[n].dir THEN Fail(m)
  ELSE [m EXCEPT !.ok = TRUE,
                 !.read = [k \in 1 .. Len(m.nodes[n].index) |-> m.nodes[m.nodes[n].index[k]].name]]

List(m, path, b) ==
  LET said(listing) == IF listing.ok THEN Said(listing, b, listing.read)
                       ELSE Unsuccessful(Said(m, b, <<>>))
  IN  said(ListNode(m, Fs!FindNode(m, IF path = NoArg THEN m.cwd ELSE path)))

\* run_cd_command: a directory of the course files, or else one of the Linux files.
ChangeDirectory(m, path, b) ==
  LET changed(set) == IF set.ok THEN Said(set, b, path)
                      ELSE IF path \in LinuxDirs THEN Said([m EXCEPT !.cwd = path], b, path)
                      ELSE Fail(m)
  IN  changed(Fs!SetCwd(m, path))

\* mkfs: the files and the descriptors start anew.
MakeFs(m, b) ==
  LET new == Fs!Formatted(m.data)
  IN  Said([m EXCEPT !.nodes = new.nodes, !.fds = new.fds, !.cwd = new.cwd], b, <<>>)

-----------------------------------------------------------------------------
(* Programs *)

Zombie(m, pid) == [m EXCEPT !.table = Ps!SetState(@, pid, "ZOMBIE")]

\* course_process_exit and course_process_waitpid of a child of the shell.
ExitedAndReaped(m, pid) ==
  [m EXCEPT !.ok = TRUE, !.table = Ps!Reaped(Ps!SetState(@, pid, "ZOMBIE"), Ps!SlotOf(@, pid))]

\* run_program_libc_effect: what the program does through its system calls.
Effect(m, program, arg, b) ==
  CASE program = "hello" -> Said(m, b, <<1>>)
    [] program = "echo" -> Said(m, b, IF arg = NoArg THEN <<>> ELSE arg)
    [] program = "cat" ->
         IF arg = NoArg THEN Fail(m)
         ELSE Then(Fs!Open(m, arg, {"r"}, FALSE), LAMBDA opened :
              Then(Fs!ReadFd(opened, opened.fd, MaxData, Fs!Nothing), LAMBDA read :
                   Said(Fs!Close(read, opened.fd), b, read.read)))
    [] OTHER -> Said(m, b, <<>>)

\* The image of an external program, read through a descriptor.
Loads(m, path) ==
  /\ \E fd \in Fs!Fds : m.fds[fd].kind = "unused"
  /\ Fs!Contents(m, path).bytes \in Images \ {<<>>}

Forked(m) == [m EXCEPT !.ok = Ps!IsLive(m.table, ShellPid) /\ Ps!CanSpawn(m.table),
                       !.table = IF Ps!IsLive(@, ShellPid) /\ Ps!CanSpawn(@)
                                 THEN Ps!Forked(@, ShellPid) ELSE @]

\* Mutant: a child whose program cannot be loaded is not cleaned up.
RunProgramLeft(m, program, arg, b) ==
  Then(Forked(m), LAMBDA forked :
       IF program # "file"
       THEN Then(Effect(forked, program, arg, b), LAMBDA done : Zombie(done, m.table.nextPid))
       ELSE IF Loads(m, arg) THEN Said(ExitedAndReaped(forked, m.table.nextPid), b, <<>>)
       ELSE Fail(forked))

\* run_program_command: a child is forked, loaded, run and waited for.  When it cannot be
\* loaded it is cleaned up; when its work fails it is not.
RunProgram(m, program, arg, b) ==
  Then(Forked(m), LAMBDA forked :
       IF program # "file"
       THEN Then(Effect(forked, program, arg, b), LAMBDA done : ExitedAndReaped(done, m.table.nextPid))
       ELSE IF Loads(m, arg) THEN Said(ExitedAndReaped(forked, m.table.nextPid), b, <<>>)
       ELSE Fail(ExitedAndReaped(forked, m.table.nextPid)))

\* The exec command: a failure is reported, of an external program as a success.
Exec(m, program, arg, b) ==
  LET reported(run) ==
        IF run.ok THEN run
        ELSE IF program = "file" THEN Unsuccessful(Said(run, b, <<>>))
        ELSE [run EXCEPT !.good = FALSE]
  IN  IF program = "file" /\ ~Fs!Contents(m, arg).there THEN Unsuccessful(Said(m, b, <<>>))
      ELSE reported(RunProgram(m, program, arg, b))

\* course_shell_run_linux_command; when there is no memory for it the child stays.
RunLinux(m, outcome, b) ==
  LET ended(forked) ==
        IF ~forked.ok \/ outcome = "no memory" THEN Unsuccessful(Said(forked, b, <<>>))
        ELSE [Said(ExitedAndReaped(forked, m.table.nextPid), b, <<>>) EXCEPT !.good = (outcome = "runs")]
  IN  ended(Forked(m))

\* run_concurrency_demo: three children, or as many as there is room for, all reaped again.
RunDemo(m, b) ==
  LET forked == FoldLeft(LAMBDA before, worker : Forked(before), m, <<"worker-a", "worker-b", "sem-owner">>)
      reaped(born) == FoldSet(LAMBDA pid, before : ExitedAndReaped(before, pid), born,
                              m.table.nextPid .. born.table.nextPid - 1)
  IN  [Said(reaped(forked), b, <<>>) EXCEPT !.good = forked.ok]

\* The kill command.
Kill(m, pid, b) ==
  LET said == Said(m, b, <<>>)
  IN  IF pid = ShellPid \/ ~Ps!IsLive(m.table, ShellPid)
           \/ Ps!StateOf(m.table, pid) \in {"UNUSED", "DEAD"}
      THEN Unsuccessful(said) ELSE Zombie(said, pid)

\* read_ps
Listed(m) ==
  LET rows == SelectSeq([s \in Ps!Slots |-> m.table.procs[s]],
                        LAMBDA p : p.state \notin {"UNUSED", "DEAD"})
  IN  [k \in 1 .. Len(rows) |-> rows[k].pid]

-----------------------------------------------------------------------------
(* Lines *)

RECURSIVE RunLine(_, _, _)

\* run_script: line by line into buffer b, until one fails; its own line_out is buffer mine.
RunScript(m, path, b, mine) ==
  LET added(before, ran) ==
        IF ran.ok THEN [ran EXCEPT !.buf[b] = @ \o ran.buf[mine], !.meant = before.meant \o @]
        ELSE ran
      step(before, n) ==
        IF n \in DOMAIN Lines THEN added(before, RunLine(before, Lines[n], mine)) ELSE Fail(before)
      all(script) ==
        FoldLeft(LAMBDA m1, n : Then(m1, LAMBDA before : step(before, n)),
                 Said(script, b, <<>>), script.read)
  IN  Then(ReadWhole(m, path, b), LAMBDA script : [all(script) EXCEPT !.good = TRUE])

\* run_simple: command c with a buffer of input, or none, into buffer b; given is what the
\* input should hold.
Simple(m, c, input, given, b) ==
  CASE c.do = "echo" -> Said(m, b, c.arg)
    [] c.do = "cat" /\ c.arg = NoArg ->
         [Said(m, b, IF input < 0 THEN <<>> ELSE m.buf[input]) EXCEPT !.meant = given]
    [] c.do = "cat" /\ c.arg # NoArg -> ReadWhole(m, c.arg, b)
    [] c.do = "sh" -> RunScript(m, c.arg, b, ScriptLine(m))
    [] c.do = "ls" -> List(m, c.arg, b)
    [] c.do = "ps" -> Said(m, b, Listed(m))
    [] c.do = "cd" -> ChangeDirectory(m, c.arg, b)
    [] c.do = "mkfs" -> MakeFs(m, b)
    [] c.do = "kill" -> Kill(m, c.arg[1], b)
    [] c.do = "exec" -> Exec(m, c.program, c.arg, b)
    [] c.do = "linux" -> RunLinux(m, c.program, b)
    [] c.do = "concurrency_demo" -> RunDemo(m, b)
    [] OTHER -> RunProgram(m, c.do, c.arg, b)

RunCommand(m, c, input, given, b) ==
  Simple([Said(m, b, <<>>) EXCEPT !.good = TRUE], c, input, given, b)

\* Mutant: a stage writes to the buffer it reads.
StageBufferOfParity(k, input) == IF k % 2 = 1 THEN LineScratch ELSE CommandScratch

\* Where stage k of a pipeline writes, never where it reads.
StageBuffer(k, input) ==
  LET turn == IF k % 2 = 1 THEN LineScratch ELSE CommandScratch
  IN  IF turn = input THEN LineScratch + CommandScratch - turn ELSE turn

\* One command goes to buffer b, the stages of a pipeline through the scratch buffers to it.
RunStages(begun, segment, b) ==
  LET to(before) == IF Len(segment.stages) = 1 THEN b ELSE StageBuffer(before.k, before.at)
      step(before, c, at) ==
        [k |-> before.k + 1, at |-> at,
         m |-> RunCommand(before.m, c, before.at, IF before.at < 0 THEN <<>> ELSE before.m.meant, at)]
      piped(p) == IF p.m.ok THEN [p.m EXCEPT !.buf[b] = p.m.buf[p.at]] ELSE p.m
  IN  piped(FoldLeft(LAMBDA p, c : IF p.m.ok THEN step(p, c, to(p)) ELSE p,
                     [k |-> 1, at |-> IF segment.from = NoArg THEN -1 ELSE LineScratch, m |-> begun],
                     segment.stages))

\* run_single_command_line_internal: redirected input, one command or a pipeline, redirected
\* output.  A segment is [from, stages, to].
RunSegment(m, segment, b) ==
  LET held == [m EXCEPT !.held = @ + 1, !.good = FALSE, !.ok = TRUE]
      begun == IF segment.from = NoArg THEN held ELSE ReadWhole(held, segment.from, LineScratch)
      run(m1) == Then(RunStages(m1, segment, b), LAMBDA told :
                      IF segment.to = NoArg THEN told ELSE Redirected(told, segment.to, b))
  IN  IF m.held = MaxHeld THEN Fail(m)
      ELSE [Then(begun, run) EXCEPT !.held = m.held]

\* course_shell_run_line_internal: segments until one fails.
RunSegments(m, line, b) ==
  LET added(before, ran) ==
        IF ran.ok THEN [ran EXCEPT !.buf[b] = @ \o ran.buf[CommandScratch],
                                   !.meant = before.meant \o @]
        ELSE ran
  IN  FoldLeft(LAMBDA before, segment :
                 IF before.ok /\ before.good
                 THEN added(before, RunSegment(before, segment, CommandScratch)) ELSE before,
               [m EXCEPT !.ok = TRUE, !.good = TRUE, !.buf[b] = <<>>, !.meant = <<>>], line)

\* A line is noted in the transcript before it runs.
RunLine(m, line, b) ==
  LET noted == [m EXCEPT !.typed = @ + 1]
  IN  IF m.typed = MaxTyped THEN Fail(m)
      ELSE IF Len(line) = 1 THEN RunSegment(noted, line[1], b)
      ELSE RunSegments(noted, line, b)

-----------------------------------------------------------------------------
(* Steps *)

\* course_shell_init
ShellStart ==
  LET empty == [Fs!FilesStart EXCEPT !.ok = TRUE]
                 @@ [table |-> [procs |-> [s \in Ps!Slots |->
                                  IF s = 1 THEN [Ps!Cleared EXCEPT !.pid = ShellPid, !.state = "READY"]
                                  ELSE Ps!Cleared],
                                pages |-> [k \in {} |-> [refcount |-> 0, data |-> 0]],
                                nextPid |-> 2, nextPage |-> 1],
                     buf |-> [b \in 0 .. 2 + MaxHeld |-> <<>>], meant |-> <<>>,
                     good |-> TRUE, held |-> 0, typed |-> 0]
      put[k \in 0 .. Len(FirstFiles)] ==
        IF k = 0 THEN empty
        ELSE LET made == Fs!Create(put[k - 1], FirstFiles[k].path, FirstFiles[k].dir)
             IN  IF FirstFiles[k].dir THEN made
                 ELSE Fs!WriteNode(made, FirstFiles[k].path, 0, FirstFiles[k].bytes)
  IN  put[Len(FirstFiles)]

ShellInit == shell = ShellStart

Typed(k) == shell' = [RunLine(shell, Lines[k], Callers) EXCEPT !.fd = 0, !.read = <<>>]

ShellNext == \E k \in DOMAIN Lines : Typed(k)

ShellSpec == ShellInit /\ [][ShellNext]_shell

-----------------------------------------------------------------------------
(* Properties *)

\* What a line says is what its commands say when each gets what the one before it said, and
\* the segments one after the other: the scratch buffers, two for all of it, are not mixed up.
OutputsCompose == shell.ok => shell.buf[Callers] = shell.meant

OpenFds(m) == {fd \in Fs!Fds : m.fds[fd].kind # "unused"}
Children(m) == {m.table.procs[s].pid : s \in {t \in Ps!Slots : m.table.procs[t].state \notin {"UNUSED", "DEAD"}}}

\* A line that succeeds leaves no descriptor open and no process behind.
NothingLeft ==
  [][shell'.ok /\ shell'.good =>
       OpenFds(shell') \subseteq OpenFds(shell) /\ Children(shell') \subseteq Children(shell)]_shell

LinesSound == []OutputsCompose /\ NothingLeft

\* A program that fails is cleaned up too: "exit first, then waitpid" (course_shell.c:602).
FailuresCleanedUp == [][Children(shell') \subseteq Children(shell)]_shell
=============================================================================
