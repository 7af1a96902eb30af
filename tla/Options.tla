------------------------------- MODULE Options -------------------------------
(***************************************************************************)
(* What main() of sigfm-batch.c knows after its argument loop: the record  *)
(* of options every later phase reads, and the kinds of image file the     *)
(* two loops over files can meet.                                          *)
(***************************************************************************)
EXTENDS Template

CONSTANTS
    OptionSets,             \* the command lines considered, already parsed
    Frame,                  \* the kinds of image file considered
    MAX_TEMPLATE_ENTRIES,   \* capacity of Template (128)
    KP_MIN_START            \* enroll_kp_min starts here (999)

(***************************************************************************)
(* Options as the argument loop leaves them.  maxSubtemplates comes from   *)
(* atoi and could be anything; the model takes it to be at least one, the  *)
(* only values for which the sort and prune loops are meaningful.          *)
(***************************************************************************)
WellFormedOptions(o) ==
    /\ o.nEnroll \in Nat \ {0}
    /\ o.nVerify \in Nat
    /\ \A n \in {o.qualityGate, o.stddevGate, o.scoreThreshold,
                 o.studyThreshold, o.progressiveStrict} : n \in Int
    /\ o.studyThreshold >= 0 \/ o.studyThreshold = o.scoreThreshold
    /\ \A b \in {o.templateStudy, o.studyV2, o.csv, o.sort, o.qualityEnroll,
                 o.diversityPrune, o.progressive} : b \in BOOLEAN
    /\ o.studyV2 => o.templateStudy
    /\ o.maxSubtemplates \in Nat \ {0}

\* progressive_core, and min_fill of template_add_quality.
HalfOf(o) == o.maxSubtemplates \div 2

(***************************************************************************)
(* A file: whether read_pgm accepts it, the pixel_stddev of its pixels,    *)
(* whether sigfm_extract finds features, and which ones.                   *)
(***************************************************************************)
WellFormedFrame(f) ==
    /\ f.readable \in BOOLEAN
    /\ f.stddev \in Nat
    /\ f.extracts \in BOOLEAN
    /\ f.image \in Image

ASSUME OptionsAssumption ==
    /\ \A o \in OptionSets : WellFormedOptions(o)
    /\ \A f \in Frame : WellFormedFrame(f)
    /\ MAX_TEMPLATE_ENTRIES \in Nat \ {0}
    /\ KP_MIN_START \in Nat

-----------------------------------------------------------------------------
(* The gates both loops apply, in this order, before they use a frame.     *)

Unreadable(f)       == ~f.readable
Flat(o, f)          == f.readable /\ f.stddev < o.stddevGate
Extractable(o, f)   == f.readable /\ f.stddev >= o.stddevGate /\ f.extracts
NoFeatures(o, f)    == f.readable /\ f.stddev >= o.stddevGate /\ ~f.extracts
TooFewKeypoints(o, f) == Extractable(o, f) /\ Keypoints(f.image) < o.qualityGate
Usable(o, f)        == Extractable(o, f) /\ Keypoints(f.image) >= o.qualityGate
=============================================================================
