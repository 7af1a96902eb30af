----------------------------- MODULE SigfmBatch -----------------------------
(***************************************************************************)
(* tools/benchmark/sigfm-batch.c from its parsed options to its exit       *)
(* status: the enrollment half, then the verification half, over one       *)
(* template and one heap.                                                  *)
(***************************************************************************)
EXTENDS Options

CONSTANTS
    STUDY_MIN_KP, STUDY_MAX_FAILED, STUDY_MIN_OBSERVATIONS, SCORE_MIN_START

VARIABLES
    phase, opts, heap, entries, scores, exitCode,
    i, deferred, stats, okLines, lost, cursor, strayStdout,
    v, tally, study, rows

E == INSTANCE Enrollment
V == INSTANCE Verification

enrollOnly == <<i, deferred, stats, okLines, lost, cursor, strayStdout>>
verifyOnly == <<v, tally, study, rows>>

vars == <<phase, opts, heap, entries, scores, exitCode,
          i, deferred, stats, okLines, lost, cursor, strayStdout,
          v, tally, study, rows>>

Init == E!Init /\ V!LocalInit

EnrollStep == E!Next /\ UNCHANGED verifyOnly
VerifyStep == V!Next /\ UNCHANGED enrollOnly

Next == EnrollStep \/ VerifyStep

Spec == Init /\ [][Next]_vars

-----------------------------------------------------------------------------
(* The promise the program keeps: AdaptiveTemplate.                        *)

Images == [k \in DOMAIN entries |-> heap[entries[k]]]

Stage ==
    CASE phase = "done"   -> "gone"
      [] phase = "verify" -> "serving"
      [] OTHER            -> "building"

LearnThreshold ==
    IF opts.studyThreshold > opts.scoreThreshold
      THEN opts.studyThreshold ELSE opts.scoreThreshold

A == INSTANCE AdaptiveTemplate WITH
        stage     <- Stage,
        store     <- Images,
        frozen    <- ~opts.templateStudy \/ study.locked,
        threshold <- LearnThreshold

\* Every step of the program builds, serves, teaches or discards the template
\* the way AdaptiveTemplate allows, or leaves it alone.
Implements == A!Spec

-----------------------------------------------------------------------------
(* Properties of the two halves together                                   *)

\* The program frees everything before it returns from main, on every path.
NothingLeaked ==
    phase = "done" /\ opts.nEnroll <= MAX_TEMPLATE_ENTRIES => Allocated(heap) = {}

\* Which of main()'s loops is running, counted from the first.
Place ==
    CASE phase = "enroll"   -> 0
      [] phase = "lenient"  -> 1
      [] phase = "sort"     -> 2
      [] phase = "exchange" -> 3
      [] phase = "prune"    -> 4
      [] phase = "enrolled" -> 5
      [] phase = "verify"   -> 6
      [] OTHER              -> 7

\* The work left in that loop, its outer part first.
Left ==
    CASE phase = "enroll"   -> <<opts.nEnroll - i, 0>>
      [] phase = "lenient"  -> <<Len(deferred), 0>>
      [] phase = "exchange" -> <<Len(entries) - cursor[1], Len(entries) + 1 - cursor[2]>>
      [] phase = "prune"    -> <<Len(entries), 0>>
      [] phase = "verify"   -> <<opts.nVerify - v, 0>>
      [] OTHER              -> <<0, 0>>

\* A pair of natural numbers gets smaller in its first part, or in its second.
LeftShrinks ==
    /\ Left' \in Nat \X Nat
    /\ \/ Left'[1] < Left[1]
       \/ Left'[1] = Left[1] /\ Left'[2] < Left[2]

\* The program comes to its end whatever the files are: every step either goes
\* on to a later loop, never back, or leaves less of the present one to do.
\* Both the exchange sort and the prune loop could fail to.
BatchAdvances == [][Place' > Place \/ (Place' = Place /\ LeftShrinks)]_vars
=============================================================================
