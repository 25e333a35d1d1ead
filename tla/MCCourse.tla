------------------------------ MODULE MCCourse ------------------------------
(***************************************************************************)
(* The files and the shell of the course OS, for TLC.  One of the units    *)
(* runs, the others rest in their initial states: the files with contents  *)
(* and descriptors; a larger directory, without contents; the shell.       *)
(***************************************************************************)
EXTENDS CourseFiles

VARIABLES unit, shell

P == {<<>>, <<1>>, <<2>>}

DirectoryPaths == {<<>>, <<1>>, <<2>>, <<3>>, <<4>>, <<1, 2>>}
ShellPaths == {<<>>, <<1>>, <<2>>, <<3>>, <<1, 2>>, <<9>>}

Directory == INSTANCE CourseFiles WITH
  NumNodes <- 5, LeafCapacity <- 2, MaxData <- 0, MaxOpen <- 3, MaxCwd <- 2,
  FilePaths <- DirectoryPaths, Bytes <- {}

-----------------------------------------------------------------------------
(* What is typed at the shell *)

None == <<0>>
Do(command, arg) == [do |-> command, program |-> "", arg |-> arg]
Run(program, arg) == [do |-> "exec", program |-> program, arg |-> arg]
Linux(outcome) == [do |-> "linux", program |-> outcome, arg |-> None]
Piped(stages) == [from |-> None, stages |-> stages, to |-> None]
Just(command) == <<Piped(<<command>>)>>
Copy == Do("cat", None)

TypedLines ==
  <<Just(Do("cat", <<1>>)),
    <<[Piped(<<Do("echo", <<1>>)>>) EXCEPT !.to = <<1>>]>>,
    <<[Piped(<<Do("echo", <<6>>)>>) EXCEPT !.to = <<3>>]>>,
    Just(Do("sh", <<3>>)),
    <<[Piped(<<Copy, Copy, Copy>>) EXCEPT !.from = <<2>>]>>,
    <<Piped(<<Do("ps", None), Copy>>), Piped(<<Do("ls", None), Copy, Copy>>)>>,
    Just(Run("cat", <<1>>)),
    Just(Run("file", <<2>>)),
    <<[Piped(<<Run("echo", <<2>>), Copy>>) EXCEPT !.to = <<1>>],
      Piped(<<Do("kill", <<2>>)>>), Piped(<<Do("cat", <<1>>)>>)>>,
    Just(Do("cd", <<9>>)),
    Just(Do("mkfs", None)),
    Just(Do("crash", None)),
    Just(Linux("no memory")),
    Just(Linux("fails")),
    Just(Do("concurrency_demo", None))>>

ShellFiles == <<[path |-> <<1>>, dir |-> TRUE, bytes |-> <<>>],
                [path |-> <<2>>, dir |-> FALSE, bytes |-> <<7, 7>>]>>

Shell == INSTANCE CourseShell WITH
  NumNodes <- 4, LeafCapacity <- 1, MaxData <- 3, MaxOpen <- 5, MaxCwd <- 2,
  FilePaths <- ShellPaths, Bytes <- {1},
  MaxProcesses <- 4, NumPages <- 0, MaxCowPages <- 0, Values <- {}, MaxPid <- 12, MaxPageId <- 0,
  MaxHeld <- 2, MaxTyped <- 5, Lines <- TypedLines, Images <- {<<7, 7>>}, LinuxDirs <- {<<9>>},
  FirstFiles <- ShellFiles

LinesSound == Shell!LinesSound
FailuresCleanedUp == Shell!FailuresCleanedUp

-----------------------------------------------------------------------------

Units == {"files", "directory", "shell"}

CourseInit ==
  /\ unit \in Units
  /\ IF unit = "directory" THEN Directory!FilesInit ELSE FilesInit
  /\ Shell!ShellInit

CourseNext ==
  /\ unit' = unit
  /\ \/ unit = "files" /\ FilesNext /\ shell' = shell
     \/ unit = "directory" /\ Directory!FilesNext /\ shell' = shell
     \/ unit = "shell" /\ Shell!ShellNext /\ UNCHANGED <<files, seen>>

CourseSpec == CourseInit /\ [][CourseNext]_<<unit, files, seen, shell>>
=============================================================================
