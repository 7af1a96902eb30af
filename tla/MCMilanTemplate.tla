------------------------- MODULE MCMilanTemplate -------------------------
(* Three sub-templates and a cache of two. *)
EXTENDS MilanTemplate
=============================================================================
