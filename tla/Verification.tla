---------------------------- MODULE Verification ----------------------------
(***************************************************************************)
(* The verification half of main() in tools/benchmark/sigfm-batch.c: every *)
(* verification file is matched against the enrolled template, and a       *)
(* confident match may teach the template (template_study, or              *)
(* template_study_v2 with its StudyState).  One action per outcome of a    *)
(* loop iteration.                                                         *)
(*                                                                         *)
(* phase, opts, heap, entries, scores and exitCode are shared with the     *)
(* enrollment half; verification starts at phase "enrolled".               *)
(***************************************************************************)
EXTENDS Options

CONSTANTS
    STUDY_MIN_KP,               \* 15
    STUDY_MAX_FAILED,           \* 20
    STUDY_MIN_OBSERVATIONS,     \* 5
    SCORE_MIN_START             \* score_min starts here (999999)

ASSUME StudyAssumption ==
    /\ STUDY_MIN_KP \in Nat
    /\ STUDY_MAX_FAILED \in Nat
    /\ STUDY_MIN_OBSERVATIONS \in Nat
    /\ SCORE_MIN_START \in Nat

VARIABLES
    phase, opts, heap, entries, scores, exitCode,   \* as in Enrollment
    v,              \* verification files read so far
    tally,          \* match_ok ... template_updates
    study,          \* StudyState
    rows            \* CSV rows printed so far, by result

vars == <<phase, opts, heap, entries, scores, exitCode, v, tally, study, rows>>

Images == [k \in DOMAIN entries |-> heap[entries[k]]]

EmptyTally == [ok |-> 0, fail |-> 0, error |-> 0, gated |-> 0, updates |-> 0,
               scoreTotal |-> 0, scoreMin |-> SCORE_MIN_START, scoreMax |-> -1]

EmptyRows == [MATCH |-> 0, FAIL |-> 0, SKIP |-> 0, ERROR |-> 0]

\* study_state_init.
FreshStudy ==
    [hits |-> [k \in DOMAIN entries |-> 0],
     kps  |-> [k \in DOMAIN entries |-> Keypoints(heap[entries[k]])],
     totalMatches |-> 0, failed |-> 0, locked |-> FALSE]

\* Before BeginVerify the struct is not initialised, and not read.
UnusedStudy == [hits |-> <<>>, kps |-> <<>>,
                totalMatches |-> 0, failed |-> 0, locked |-> FALSE]

\* What enrollment hands over: live, distinct entries and nothing else live.
Handover ==
    /\ phase = "enrolled"
    /\ entries # <<>>
    /\ IsInjective(entries)
    /\ Range(entries) = Allocated(heap)

LocalInit ==
    /\ v = 0
    /\ tally = EmptyTally
    /\ study = UnusedStudy
    /\ rows = EmptyRows

\* On its own, verification starts from any template enrollment could leave.
Init ==
    /\ phase = "enrolled"
    /\ opts \in OptionSets
    /\ heap \in Heap
    /\ entries \in UNION {[1 .. n -> Addr] : n \in 1 .. MAX_TEMPLATE_ENTRIES}
    /\ Handover
    /\ scores = [k \in DOMAIN entries |-> 0]
    /\ exitCode = -1
    /\ LocalInit

-----------------------------------------------------------------------------
\* template_free at the end of main().
FreeTemplate ==
    /\ heap' = [a \in Addr |-> IF a \in Range(entries) THEN Free ELSE heap[a]]
    /\ entries' = <<>>
    /\ scores' = <<>>

\* Mutant: the early return skips template_free.
BugBeginNothing ==
    /\ phase = "enrolled"
    /\ opts.nVerify = 0
    /\ phase' = "done"
    /\ exitCode' = 0
    /\ entries' = <<>>
    /\ scores' = <<>>
    /\ UNCHANGED <<opts, heap, v, tally, study, rows>>

BeginNothing ==
    /\ phase = "enrolled"
    /\ opts.nVerify = 0
    /\ phase' = "done"
    /\ exitCode' = 0
    /\ FreeTemplate
    /\ UNCHANGED <<opts, v, tally, study, rows>>

BeginVerify ==
    /\ phase = "enrolled"
    /\ opts.nVerify > 0
    /\ phase' = "verify"
    /\ study' = IF opts.studyV2 THEN FreshStudy ELSE UnusedStudy
    /\ UNCHANGED <<opts, heap, entries, scores, exitCode, v, tally, rows>>

NextFile ==
    /\ phase = "verify"
    /\ v < opts.nVerify
    /\ v' = v + 1
    /\ UNCHANGED <<phase, opts, exitCode>>

KeepTemplate == UNCHANGED <<heap, entries>>

CsvRow(kind) == rows' = IF opts.csv THEN [rows EXCEPT ![kind] = @ + 1] ELSE rows

\* An unreadable file is an error, and has no CSV row.
ReadError(f) ==
    /\ NextFile
    /\ Unreadable(f)
    /\ tally' = [tally EXCEPT !.error = @ + 1]
    /\ KeepTemplate
    /\ UNCHANGED <<scores, study, rows>>

\* Mutant: gated frames get no CSV row.
BugGate ==
    /\ NextFile
    /\ tally' = [tally EXCEPT !.gated = @ + 1]
    /\ KeepTemplate
    /\ UNCHANGED <<scores, study, rows>>

Gate ==
    /\ NextFile
    /\ tally' = [tally EXCEPT !.gated = @ + 1]
    /\ CsvRow("SKIP")
    /\ KeepTemplate
    /\ UNCHANGED <<scores, study>>

GateFlat(f) == Gate /\ Flat(opts, f)

GateUnextracted(f) ==
    /\ Gate
    /\ \/ NoFeatures(opts, f)
       \/ Extractable(opts, f) /\ Allocated(heap) = Addr

\* The probe lives only within the iteration: extracted, matched, freed.
ProbeFits == Allocated(heap) # Addr

GateFewKeypoints(f) == Gate /\ TooFewKeypoints(opts, f) /\ ProbeFits

-----------------------------------------------------------------------------
(* Matching.                                                               *)

Probe(f) ==
    /\ NextFile
    /\ Usable(opts, f)
    /\ ProbeFits

Best(f) == BestScore(Images, f.image)

MatchError(f) ==
    /\ Probe(f)
    /\ Best(f) < 0
    /\ tally' = [tally EXCEPT !.error = @ + 1]
    /\ CsvRow("ERROR")
    /\ KeepTemplate
    /\ UNCHANGED <<scores, study>>

\* The running score statistics of a scored frame.
Scored(t, score) ==
    [t EXCEPT !.scoreTotal = @ + score,
              !.scoreMin = IF score < @ THEN score ELSE @,
              !.scoreMax = IF score > @ THEN score ELSE @]

Reject(f) ==
    /\ Probe(f)
    /\ Best(f) >= 0
    /\ Best(f) < opts.scoreThreshold
    /\ tally' = [Scored(tally, Best(f)) EXCEPT !.fail = @ + 1]
    /\ CsvRow("FAIL")
    /\ KeepTemplate
    /\ UNCHANGED <<scores, study>>

Accept(f) ==
    /\ Probe(f)
    /\ Best(f) >= 0
    /\ Best(f) >= opts.scoreThreshold
    /\ CsvRow("MATCH")

Matched(t, f) == [Scored(t, Best(f)) EXCEPT !.ok = @ + 1]

Updated(t, f) == [Matched(t, f) EXCEPT !.updates = @ + 1]

\* Mutant: hits on the first entry are not recorded (best_idx > 0).
BugRecorded(f) ==
    IF opts.studyV2
      THEN [study EXCEPT !.hits = IF BestIndex(Images, f.image) > 1
                                    THEN [@ EXCEPT ![BestIndex(Images, f.image)] = @ + 1]
                                    ELSE @,
                         !.totalMatches = @ + 1]
      ELSE study

\* study_record_hit, when v2 is on.
Recorded(f) ==
    IF opts.studyV2
      THEN [study EXCEPT !.hits[BestIndex(Images, f.image)] = @ + 1,
                         !.totalMatches = @ + 1]
      ELSE study

\* Mutant: the study threshold is ignored.
BugStudyDue(f) == opts.templateStudy

StudyDue(f) == opts.templateStudy /\ Best(f) >= opts.studyThreshold

AcceptOnly(f) ==
    /\ Accept(f)
    /\ ~StudyDue(f)
    /\ tally' = Matched(tally, f)
    /\ study' = Recorded(f)
    /\ KeepTemplate
    /\ UNCHANGED scores

\* Mutant: the replaced entry is not freed.
BugReplace(k, b, image) ==
    /\ heap[b] = Free
    /\ \E a \in Addr \ {b} : heap[a] = Free
    /\ heap' = AllocInfo(heap, b, image)
    /\ entries' = [entries EXCEPT ![k] = b]

\* Entry k is freed and a copy of the probe, at address b, takes its place;
\* b can be the address just freed, and is not the one the probe occupies.
Replace(k, b, image) ==
    /\ heap[b] = Free \/ b = entries[k]
    /\ \E a \in Addr \ {b} : heap[a] = Free
    /\ heap' = AllocInfo(FreeInfo(heap, entries[k]), b, image)
    /\ entries' = [entries EXCEPT ![k] = b]

-----------------------------------------------------------------------------
(* template_study: the naive algorithm.                                    *)

StudyV1(f) ==
    /\ Accept(f)
    /\ StudyDue(f)
    /\ ~opts.studyV2
    /\ UNCHANGED study

V1Idle(f) ==
    /\ StudyV1(f)
    /\ Len(entries) < 2
    /\ tally' = Matched(tally, f)
    /\ KeepTemplate
    /\ UNCHANGED scores

V1Refuse(f) ==
    /\ StudyV1(f)
    /\ Len(entries) >= 2
    /\ ~StudyAccepts(Images, f.image)
    /\ tally' = Matched(tally, f)
    /\ scores' = CrossAverages(Images)
    /\ KeepTemplate

V1Replace(f, b) ==
    /\ StudyV1(f)
    /\ Len(entries) >= 2
    /\ StudyAccepts(Images, f.image)
    /\ tally' = Updated(tally, f)
    /\ \E k \in DOMAIN entries :
          /\ k = StudyVictim(Images)
          /\ Replace(k, b, f.image)
          /\ scores' = [CrossAverages(Images) EXCEPT ![k] = ProbeAverage(Images, f.image)]

-----------------------------------------------------------------------------
(* template_study_v2: six layers of protection.                            *)

StudyV2(f) ==
    /\ Accept(f)
    /\ StudyDue(f)
    /\ opts.studyV2

\* Layer 6, after a failed attempt.
Failed(s) ==
    [s EXCEPT !.failed = @ + 1,
              !.locked = @ \/ s.failed + 1 > STUDY_MAX_FAILED]

V2Idle(f) ==
    /\ StudyV2(f)
    /\ Len(entries) < 2 \/ study.locked
    /\ tally' = Matched(tally, f)
    /\ study' = Recorded(f)
    /\ KeepTemplate
    /\ UNCHANGED scores

\* Mutant: the lock is not consulted.
BugV2Open(f) == StudyV2(f) /\ Len(entries) >= 2

V2Open(f) == StudyV2(f) /\ Len(entries) >= 2 /\ ~study.locked

\* Layer 5 (observations) and layer 1 (quality of the probe).
TooEarly(f) ==
    \/ Recorded(f).totalMatches < STUDY_MIN_OBSERVATIONS
    \/ Keypoints(f.image) < STUDY_MIN_KP

V2TooEarly(f) ==
    /\ V2Open(f)
    /\ TooEarly(f)
    /\ tally' = Matched(tally, f)
    /\ study' = Failed(Recorded(f))
    /\ KeepTemplate
    /\ UNCHANGED scores

\* Layers 3 and 4 pick the target, layer 2 and the final check decide.
V2Target(f) == TargetIndex(Images, Recorded(f).hits)

V2Wanted(f) ==
    /\ QualityComparable(f.image, study.kps[V2Target(f)])
    /\ BeatsTarget(Images, V2Target(f), f.image)

V2Refuse(f) ==
    /\ V2Open(f)
    /\ ~TooEarly(f)
    /\ ~V2Wanted(f)
    /\ tally' = Matched(tally, f)
    /\ study' = Failed(Recorded(f))
    /\ scores' = CrossAverages(Images)
    /\ KeepTemplate

\* Mutant: the keypoint count of the new entry is not recorded.
BugRelearnt(s, k, image) == [s EXCEPT !.hits[k] = 0, !.failed = 0]

\* The slot's statistics start over for its new entry.
Relearnt(s, k, image) ==
    [s EXCEPT !.hits[k] = 0, !.kps[k] = Keypoints(image), !.failed = 0]

V2Replace(f, b) ==
    /\ V2Open(f)
    /\ ~TooEarly(f)
    /\ V2Wanted(f)
    /\ tally' = Updated(tally, f)
    /\ \E k \in DOMAIN entries :
          /\ k = V2Target(f)
          /\ Replace(k, b, f.image)
          /\ scores' = [CrossAverages(Images) EXCEPT ![k] =
                           TotalScore(Images, DOMAIN entries \ {k}, f.image)
                               \div (Len(entries) - 1)]
          /\ study' = Relearnt(Recorded(f), k, f.image)

-----------------------------------------------------------------------------
\* The summary, template_free and the exit status.
Finish ==
    /\ phase = "verify"
    /\ v = opts.nVerify
    /\ phase' = "done"
    /\ exitCode' = IF tally.fail > 0 THEN 1 ELSE 0
    /\ FreeTemplate
    /\ UNCHANGED <<opts, v, tally, study, rows>>

Begin == BeginNothing \/ BeginVerify

FileStep ==
    \E f \in Frame :
       \/ ReadError(f)
       \/ GateFlat(f)
       \/ GateUnextracted(f)
       \/ GateFewKeypoints(f)
       \/ MatchError(f)
       \/ Reject(f)
       \/ AcceptOnly(f)
       \/ V1Idle(f)
       \/ V1Refuse(f)
       \/ V2Idle(f)
       \/ V2TooEarly(f)
       \/ V2Refuse(f)
       \/ \E b \in Addr : V1Replace(f, b) \/ V2Replace(f, b)

Next == Begin \/ FileStep \/ Finish

Spec == Init /\ [][Next]_vars

-----------------------------------------------------------------------------
(* Properties                                                              *)

Phase == {"enrolled", "verify", "done"}

Tally == [ok : Nat, fail : Nat, error : Nat, gated : Nat, updates : Nat,
          scoreTotal : Int, scoreMin : Int, scoreMax : Int]

StudyState == [hits : Seq(Nat), kps : Seq(Nat),
               totalMatches : Nat, failed : Nat, locked : BOOLEAN]

Rows == [MATCH : Nat, FAIL : Nat, SKIP : Nat, ERROR : Nat]

\* The type invariant; under v2 the per-entry arrays of StudyState are as
\* long as the template.
TypeOK ==
    /\ phase \in Phase
    /\ opts \in OptionSets
    /\ heap \in Heap
    /\ entries \in Seq(Addr)
    /\ DOMAIN scores = DOMAIN entries
    /\ exitCode \in {-1, 0, 1}
    /\ v \in Nat
    /\ tally \in Tally
    /\ study \in StudyState
    /\ rows \in Rows
    /\ phase = "verify" /\ opts.studyV2 =>
          Len(study.hits) = Len(entries) /\ Len(study.kps) = Len(entries)

\* The template owns exactly the live SigfmImgInfo blocks, each once: study
\* neither leaks the entry it replaces nor keeps a pointer to it, probes are
\* freed on every path, and nothing is left when the program stops.
TemplateOwnsHeap ==
    /\ \A j, k \in DOMAIN entries : j # k => entries[j] # entries[k]
    /\ \A k \in DOMAIN entries : heap[entries[k]] # Free
    /\ \A a \in Addr : heap[a] # Free => \E k \in DOMAIN entries : entries[k] = a

\* v2 keeps keypoint counts beside the entries; they stay those of the entries.
StudyAligned ==
    phase = "verify" /\ opts.studyV2 =>
        \A k \in DOMAIN entries : study.kps[k] = Keypoints(heap[entries[k]])

\* Hits are recorded once per accepted match and lost only by replacement, so
\* the entries never hold more hits than matches, and with no update exactly.
HitsAccounted ==
    phase = "verify" /\ opts.studyV2 =>
        /\ study.totalMatches = tally.ok
        /\ SumFunction(study.hits) <= tally.ok
        /\ tally.updates = 0 => SumFunction(study.hits) = tally.ok

\* The degradation lock is set exactly when the failure count has passed the
\* limit, which it then never leaves: nothing resets it any more.
LockExact ==
    /\ study.failed <= STUDY_MAX_FAILED + 1
    /\ study.locked <=> study.failed > STUDY_MAX_FAILED

\* Every file ends up in exactly one class of the summary, so that the FRR is
\* taken over the attempts only (gated files and errors are not attempts).
FilesAccounted == tally.ok + tally.fail + tally.error + tally.gated = v

\* The printed minimum, mean and maximum are those of one set of scores: the
\* attempts.
ScoreSummarySound ==
    LET attempts == tally.ok + tally.fail
    IN  attempts > 0 => /\ 0 <= tally.scoreMin
                        /\ tally.scoreMin * attempts <= tally.scoreTotal
                        /\ tally.scoreTotal <= tally.scoreMax * attempts

\* In CSV mode the rows tell the same story as the summary.
RowsMatchTally ==
    opts.csv => /\ rows.MATCH = tally.ok
                /\ rows.FAIL = tally.fail
                /\ rows.SKIP = tally.gated
                /\ rows.ERROR <= tally.error

\* Slot k was replaced by study.
Replaced(k) == Images'[k] # Images[k] \/ entries'[k] # entries[k]

Studied == phase = "verify" /\ phase' = "verify"

\* v2: a replaced entry is never the anchor: an entry at least as well
\* connected survives, and with it the template's best connection.
AnchorSurvives ==
    [][Studied /\ opts.studyV2 =>
         \A k \in DOMAIN entries : Replaced(k) =>
            \E j \in DOMAIN entries \ {k} :
                ~Replaced(j) /\ CrossAverage(Images, j) >= CrossAverage(Images, k)]_vars

\* Once locked, v2 never touches the template again, whatever matches come.
LockIsForever ==
    [][Studied /\ study.locked => study'.locked /\ Images' = Images /\ entries' = entries]_vars

\* Sum of the scores of all pairs of entries.
Cohesion(t) == SumFunction([pair \in Pairs(Len(t)) |-> Similarity(t[pair[1]], t[pair[2]])])

\* v2: with a symmetric matcher every update makes the template as a whole
\* better connected, so the updates of a run cannot cycle.
UpdateImprovesCohesion ==
    [][Studied /\ opts.studyV2 /\ tally'.updates > tally.updates =>
         Cohesion(Images') > Cohesion(Images)]_vars
=============================================================================
