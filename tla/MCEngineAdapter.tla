-------------------------- MODULE MCEngineAdapter --------------------------
(* Two fingers, one backup file, any step may fail or be the last.          *)
EXTENDS EngineAdapter, TLC

CONSTANTS f1, f2

Fingers == {f1, f2}
FingerSymmetry == Permutations(Fingers)
=============================================================================
