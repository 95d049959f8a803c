-------------------------- MODULE MCCourseElements --------------------------
(* Small instance of CourseElements: the times in the order of the code's. *)
EXTENDS CourseElements
=============================================================================
