---------------------------- MODULE MCLinuxFiles ----------------------------
(* LinuxFiles with a directory and a file in it, for TLC. *)
EXTENDS LinuxFiles

\* The directory of each name.
Parents == [p \in Names |-> IF p = "/d/a" THEN "/d" ELSE "/"]
=============================================================================
