-------------------------- MODULE MCCourseScheduler --------------------------
(* CourseScheduler on a small table without user pages, for TLC. *)
EXTENDS CourseScheduler
=============================================================================
