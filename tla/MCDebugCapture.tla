--------------------------- MODULE MCDebugCapture ---------------------------
(* The capture script with a FIFO smaller than the output.                 *)
EXTENDS DebugCapture
=============================================================================
