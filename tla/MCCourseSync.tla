---------------------------- MODULE MCCourseSync ----------------------------
(* CourseSync on a small table without user pages, for TLC. *)
EXTENDS CourseSync
=============================================================================
