---------------------------- MODULE CaptureCorpus ----------------------------
(***************************************************************************)
(* tools/benchmark/capture-corpus.sh: captures N_FRAMES frames of one      *)
(* finger, or of five in turn, into a directory per finger, which may hold *)
(* files of an earlier session.  What img-capture leaves behind is an      *)
(* input.  The script runs under "set -euo pipefail".                      *)
(***************************************************************************)
EXTENDS Integers, FiniteSets

CONSTANTS
    TOTAL_FINGERS,  \* fingers of the multi-finger mode
    N_FRAMES,       \* frames asked for, per finger
    MAX_FILES       \* bound: numbers of capture files on disk

ASSUME CaptureCorpusAssumption ==
    /\ TOTAL_FINGERS \in Nat \ {0}
    /\ N_FRAMES \in Nat
    /\ MAX_FILES \in Nat /\ N_FRAMES <= MAX_FILES

VARIABLES
    stage,          \* where the script is
    exitStatus,     \* its exit status, -1 while running
    multi,          \* --multi was given
    finger,         \* the finger at hand
    frame,          \* the next frame of it
    file,           \* the capture files: none, empty, or with content
    success, fail,  \* the counts of this finger
    grandSuccess, grandFail,
    clean,          \* history: the directories held no capture files
    left,           \* history: the images an earlier session has left there
    captured        \* history: the frames captured in this session

corpusVars == <<stage, exitStatus, multi, finger, frame, file, success, fail,
                grandSuccess, grandFail, clean, left, captured>>

totals == <<grandSuccess, grandFail>>

Fingers == 1 .. TOTAL_FINGERS

Outfile == Fingers \X (1 .. MAX_FILES)

Content == {"absent", "empty", "image"}

CorpusInit ==
    /\ multi \in BOOLEAN
    /\ stage = IF multi THEN "prompt" ELSE "capture"
    /\ exitStatus = -1
    /\ finger = 1
    /\ frame = 1
    /\ file \in [Outfile -> Content]
    /\ success = 0 /\ fail = 0
    /\ grandSuccess = 0 /\ grandFail = 0
    /\ clean = (\A o \in Outfile : file[o] = "absent")
    /\ left = {o \in Outfile : file[o] = "image"}
    /\ captured = {}

-----------------------------------------------------------------------------
(* Multi-finger mode asks before each finger.                              *)

Ready ==
    /\ stage = "prompt"
    /\ stage' = "capture"
    /\ frame' = 1
    /\ success' = 0
    /\ fail' = 0
    /\ UNCHANGED <<exitStatus, multi, finger, file, totals, clean, left, captured>>

\* 'q' leaves the loop for the summary; at the end of the input read fails.
Stop(status) ==
    /\ stage = "prompt"
    /\ stage' = "done"
    /\ exitStatus' = status
    /\ UNCHANGED <<multi, finger, frame, file, success, fail, totals, clean, left, captured>>

-----------------------------------------------------------------------------
(* One run of img-capture: it writes the file of the frame, leaves an      *)
(* empty one, or does not touch it.                                        *)

Written(outcome) ==
    IF outcome = "untouched" THEN file
    ELSE [file EXCEPT ![<<finger, frame>>] = outcome]

\* Mutant: an empty file will do.
BugJudged(outcome) == Written(outcome)[<<finger, frame>>] # "absent"

\* [[ -s "$outfile" ]]
Judged(outcome) == Written(outcome)[<<finger, frame>>] = "image"

Capture(outcome) ==
    /\ stage = "capture"
    /\ frame <= N_FRAMES
    /\ file' = Written(outcome)
    /\ captured' = IF outcome = "image" THEN captured \cup {<<finger, frame>>} ELSE captured
    /\ UNCHANGED <<multi, finger, totals, clean, left>>

\* The log of the run has a line with the keypoints.
Captured(outcome) ==
    /\ Capture(outcome)
    /\ Judged(outcome)
    /\ success' = success + 1
    /\ frame' = frame + 1
    /\ UNCHANGED <<stage, exitStatus, fail>>

\* It has none: grep fails, so does the pipeline, and "set -e" ends the script.
CapturedWithoutKeypoints(outcome) ==
    /\ Capture(outcome)
    /\ Judged(outcome)
    /\ stage' = "done"
    /\ exitStatus' = 1
    /\ UNCHANGED <<frame, success, fail>>

Failed(outcome) ==
    /\ Capture(outcome)
    /\ ~Judged(outcome)
    /\ fail' = fail + 1
    /\ frame' = frame + 1
    /\ UNCHANGED <<stage, exitStatus, success>>

-----------------------------------------------------------------------------
(* All frames of a finger are done.                                        *)

\* Mutant: find looks in the corpus directory.
BugFilesOf(f) == Cardinality({o \in Outfile : file[o] # "absent"})

\* find "$finger_dir" -name 'capture_*.pgm' | wc -l
FilesOf(f) == Cardinality({k \in 1 .. MAX_FILES : file[<<f, k>>] # "absent"})

SingleEnd ==
    /\ stage = "capture"
    /\ frame > N_FRAMES
    /\ ~multi
    /\ stage' = "done"
    /\ exitStatus' = 0
    /\ UNCHANGED <<multi, finger, frame, file, success, fail, totals, clean, left, captured>>

EndFinger ==
    /\ stage = "capture"
    /\ frame > N_FRAMES
    /\ multi
    /\ grandSuccess' = grandSuccess + FilesOf(finger)
    /\ grandFail' = grandFail + (N_FRAMES - FilesOf(finger))
    /\ \/ finger < TOTAL_FINGERS /\ finger' = finger + 1 /\ stage' = "prompt" /\ UNCHANGED exitStatus
       \/ finger = TOTAL_FINGERS /\ stage' = "done" /\ exitStatus' = 0 /\ UNCHANGED finger
    /\ UNCHANGED <<multi, frame, file, success, fail, clean, left, captured>>

-----------------------------------------------------------------------------
CorpusNext ==
    \/ Ready
    \/ \E status \in {0, 1} : Stop(status)
    \/ \E outcome \in {"untouched", "empty", "image"} :
          Captured(outcome) \/ CapturedWithoutKeypoints(outcome) \/ Failed(outcome)
    \/ SingleEnd
    \/ EndFinger

CorpusSpec == CorpusInit /\ [][CorpusNext]_corpusVars

-----------------------------------------------------------------------------
(* Properties                                                              *)

\* The counts stay within the frames asked for.
CorpusTypeOK ==
    /\ stage \in {"prompt", "capture", "done"}
    /\ exitStatus \in {-1, 0, 1}
    /\ multi \in BOOLEAN /\ clean \in BOOLEAN
    /\ finger \in Fingers /\ frame \in 1 .. N_FRAMES + 1
    /\ file \in [Outfile -> Content]
    /\ success \in 0 .. N_FRAMES /\ fail \in 0 .. N_FRAMES
    /\ grandSuccess \in Nat /\ grandFail \in Int
    /\ left \subseteq Outfile /\ captured \subseteq Outfile

\* The frames of this finger that were captured now, and those that were not but
\* have an image of an earlier session, which the run of img-capture left alone.
Produced == {k \in 1 .. frame - 1 : <<finger, k>> \in captured}
Mistaken == {k \in 1 .. frame - 1 :
                <<finger, k>> \in left \ captured /\ file[<<finger, k>>] = "image"}

\* While capture_finger runs, every frame is counted once, no frame that was
\* captured as a failure, and too many successes by exactly the images of an
\* earlier session that a failed run has not touched.
CapturesAccounted ==
    stage = "capture" =>
        /\ success + fail = frame - 1
        /\ success = Cardinality(Produced) + Cardinality(Mistaken)

\* capture-corpus.sh:59 judges success "by whether a valid PGM was produced":
\* the successes are the frames captured.
SuccessMeansProduced == stage = "capture" => success = Cardinality(Produced)

\* From clean directories, and with no empty file left behind, the grand total
\* is what was captured in this session, whether all fingers are done or the
\* user has stopped before; the failures are the rest of the frames asked for.
CleanTotalsExact ==
    multi /\ clean /\ (\A o \in Outfile : file[o] # "empty") =>
        /\ stage = "prompt" \/ exitStatus = 0 => grandSuccess = Cardinality(captured)
        /\ stage = "prompt" => grandSuccess + grandFail = N_FRAMES * (finger - 1)
=============================================================================
