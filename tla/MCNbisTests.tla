---------------------------- MODULE MCNbisTests ----------------------------
(* A table of three rows and images of up to four minutiae: too few for a     *)
(* match, enough, and more than the table takes.                              *)
EXTENDS NbisTests
=============================================================================
