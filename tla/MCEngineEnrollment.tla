------------------------- MODULE MCEngineEnrollment -------------------------
(* Three images and up to three tips, two enrollments sharing the backup     *)
(* image: a row of two tips is followed by a second one.                     *)
EXTENDS EngineEnrollment
=============================================================================
