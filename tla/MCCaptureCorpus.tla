-------------------------- MODULE MCCaptureCorpus --------------------------
(* Two fingers, two frames each, one more file number than frames.         *)
EXTENDS CaptureCorpus
=============================================================================
