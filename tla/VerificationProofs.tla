------------------------- MODULE VerificationProofs -------------------------
(***************************************************************************)
(* Theorems about module Verification, for every template enrollment could *)
(* hand over, every matcher, every list of files and every choice of the   *)
(* study thresholds.                                                       *)
(***************************************************************************)
EXTENDS Verification, TemplateProofs, SequenceTheorems

LEMMA FrameFacts ==
    ASSUME NEW f \in Frame
    PROVE  f.image \in Image /\ Keypoints(f.image) \in Nat /\ f.image # Free
BY OptionsAssumption, SigfmAssumption DEF WellFormedFrame

LEMMA OptionFacts ==
    ASSUME NEW o \in OptionSets
    PROVE  /\ o.nVerify \in Nat
           /\ o.studyV2 \in BOOLEAN /\ o.templateStudy \in BOOLEAN /\ o.csv \in BOOLEAN
BY OptionsAssumption DEF WellFormedOptions

-----------------------------------------------------------------------------
(* The inductive invariant: types, ownership of the heap, and the state of *)
(* study v2, which the other modes leave alone.  The parts need each other:*)
(* a match names an entry only because the entries lead to images, and     *)
(* they do only because a replaced entry is never another one's block.     *)

StudyUnused == ~opts.studyV2 \/ phase = "enrolled" => study = UnusedStudy

Sound == TypeOK /\ TemplateOwnsHeap /\ StudyUnused /\ v <= opts.nVerify

LEMMA ImagesType ==
    ASSUME TypeOK, TemplateOwnsHeap
    PROVE  Images \in Seq(Image) /\ Len(Images) = Len(entries)
<1>1. \A k \in DOMAIN entries : heap[entries[k]] \in Image
  BY DEF TypeOK, TemplateOwnsHeap, Heap
<1> QED
  BY <1>1 DEF TypeOK, Images

LEMMA UnusedType == UnusedStudy \in StudyState
BY DEF UnusedStudy, StudyState

LEMMA InitSound == Init => Sound
<1> SUFFICES ASSUME Init
             PROVE  Sound
  OBVIOUS
<1>1. PICK n \in 1 .. MAX_TEMPLATE_ENTRIES : entries \in [1 .. n -> Addr]
  BY DEF Init
<1>2. n \in Nat /\ entries \in Seq(Addr) /\ DOMAIN entries = 1 .. n
  BY <1>1, OptionsAssumption
<1>3. EmptyTally \in Tally /\ EmptyRows \in Rows
  BY StudyAssumption DEF EmptyTally, Tally, EmptyRows, Rows
<1>4. DOMAIN scores = DOMAIN entries
  BY DEF Init
<1>5. TypeOK
  BY <1>2, <1>3, <1>4, UnusedType DEF Init, LocalInit, TypeOK, Phase
<1>6. TemplateOwnsHeap
  <2>1. \A a, b \in DOMAIN entries : entries[a] = entries[b] => a = b
    BY DEF Init, Handover, IsInjective
  <2>2. \A k \in DOMAIN entries : entries[k] \in Allocated(heap)
    BY DEF Init, Handover, Range
  <2>3. \A a \in Allocated(heap) : \E k \in DOMAIN entries : entries[k] = a
    BY DEF Init, Handover, Range
  <2> QED
    BY <2>1, <2>2, <2>3 DEF TemplateOwnsHeap, Allocated
<1> QED
  BY <1>5, <1>6, OptionFacts DEF Init, LocalInit, Sound, StudyUnused

-----------------------------------------------------------------------------
(* The records: what the helpers that change them return.                  *)

LEMMA ScoredType ==
    ASSUME NEW t \in Tally, NEW score \in Int
    PROVE  /\ Scored(t, score) \in Tally
           /\ Scored(t, score).ok = t.ok /\ Scored(t, score).fail = t.fail
           /\ Scored(t, score).error = t.error /\ Scored(t, score).gated = t.gated
           /\ Scored(t, score).updates = t.updates
           /\ Scored(t, score).scoreTotal = t.scoreTotal + score
           /\ Scored(t, score).scoreMin = IF score < t.scoreMin THEN score ELSE t.scoreMin
           /\ Scored(t, score).scoreMax = IF score > t.scoreMax THEN score ELSE t.scoreMax
<1> DEFINE low  == IF score < t.scoreMin THEN score ELSE t.scoreMin
           high == IF score > t.scoreMax THEN score ELSE t.scoreMax
<1>1. t.scoreTotal + score \in Int /\ low \in Int /\ high \in Int
  BY DEF Tally
<1> HIDE DEF low, high
<1>2. PICK x \in Int, y \in Int, z \in Int : x = t.scoreTotal + score /\ y = low /\ z = high
  BY <1>1
<1>3. Scored(t, score) = [t EXCEPT !.scoreTotal = x, !.scoreMin = y, !.scoreMax = z]
  BY <1>2 DEF Scored, low, high
<1>4. /\ Scored(t, score) \in Tally
      /\ Scored(t, score).ok = t.ok /\ Scored(t, score).fail = t.fail
      /\ Scored(t, score).error = t.error /\ Scored(t, score).gated = t.gated
      /\ Scored(t, score).updates = t.updates
      /\ Scored(t, score).scoreTotal = x
      /\ Scored(t, score).scoreMin = y /\ Scored(t, score).scoreMax = z
  BY <1>3 DEF Tally
<1> QED
  BY <1>2, <1>4 DEF low, high

-----------------------------------------------------------------------------
(* A match names an entry.                                                 *)

LEMMA BestFacts ==
    ASSUME Sound, NEW f \in Frame, Best(f) >= 0
    PROVE  /\ Best(f) \in Int
           /\ BestIndex(Images, f.image) \in DOMAIN entries
<1>1. Images \in Seq(Image) /\ Len(Images) = Len(entries)
  BY ImagesType DEF Sound
<1>2. f.image \in Image
  BY FrameFacts
<1>3. DOMAIN Images = DOMAIN entries
  BY DEF Images
<1> QED
  BY <1>1, <1>2, <1>3, BestScoreProperty, BestIndexProperty DEF Best

\* One entry has been matched once more.
OneMoreHit(s, r) ==
    /\ r.totalMatches = s.totalMatches + 1
    /\ \E i \in DOMAIN s.hits : r.hits = [s.hits EXCEPT ![i] = @ + 1]

LEMMA RecordedFacts ==
    ASSUME Sound, phase = "verify", NEW f \in Frame, Best(f) >= 0
    PROVE  /\ Recorded(f) \in StudyState
           /\ ~opts.studyV2 => Recorded(f) = study
           /\ opts.studyV2 => /\ Len(Recorded(f).hits) = Len(entries)
                              /\ Len(Recorded(f).kps) = Len(entries)
                              /\ OneMoreHit(study, Recorded(f))
           /\ Recorded(f).kps = study.kps
           /\ Recorded(f).failed = study.failed
           /\ Recorded(f).locked = study.locked
<1>1. study \in StudyState
  BY DEF Sound, TypeOK
<1>2. CASE ~opts.studyV2
  BY <1>1, <1>2 DEF Recorded
<1>3. CASE opts.studyV2
  <2> DEFINE b == BestIndex(Images, f.image)
  <2>1. /\ Len(study.hits) = Len(entries) /\ Len(study.kps) = Len(entries)
        /\ study.hits \in Seq(Nat) /\ study.kps \in Seq(Nat)
        /\ entries \in Seq(Addr)
    BY <1>1, <1>3 DEF Sound, TypeOK, StudyState
  <2>2. b \in 1 .. Len(study.hits)
    BY <2>1, BestFacts
  <2> HIDE DEF b
  <2>3. study.hits[b] + 1 \in Nat /\ study.totalMatches + 1 \in Nat
    BY <1>1, <2>1, <2>2 DEF StudyState
  <2>h. PICK h : h = [study.hits EXCEPT ![b] = @ + 1]
    OBVIOUS
  <2>n. PICK n \in Nat : n = study.totalMatches + 1
    BY <2>3
  <2>4. h \in Seq(Nat) /\ Len(h) = Len(study.hits)
    BY <2>1, <2>2, <2>3, <2>h
  <2>5. Recorded(f) = [study EXCEPT !.hits = h, !.totalMatches = n]
    BY <1>3, <2>h, <2>n DEF Recorded, b
  <2>6. /\ Recorded(f) \in StudyState
        /\ Recorded(f).hits = h /\ Recorded(f).totalMatches = n
        /\ Recorded(f).kps = study.kps /\ Recorded(f).failed = study.failed
        /\ Recorded(f).locked = study.locked
    BY <1>1, <2>4, <2>5 DEF StudyState
  <2>7. OneMoreHit(study, Recorded(f))
    <3>1. b \in DOMAIN study.hits
      BY <2>1, <2>2
    <3>2. Recorded(f).hits = [study.hits EXCEPT ![b] = @ + 1]
      BY <2>6, <2>h
    <3>3. Recorded(f).totalMatches = study.totalMatches + 1
      BY <2>6, <2>n
    <3> QED
      BY <3>1, <3>2, <3>3 DEF OneMoreHit
  <2> QED
    BY <1>3, <2>1, <2>4, <2>6, <2>7
<1> QED
  BY <1>2, <1>3

LEMMA FailedFacts ==
    ASSUME NEW s \in StudyState
    PROVE  /\ Failed(s) \in StudyState
           /\ Failed(s).hits = s.hits /\ Failed(s).kps = s.kps
           /\ Failed(s).totalMatches = s.totalMatches
           /\ Failed(s).failed = s.failed + 1
           /\ Failed(s).locked = (s.locked \/ s.failed + 1 > STUDY_MAX_FAILED)
<1> DEFINE b == s.locked \/ s.failed + 1 > STUDY_MAX_FAILED
<1>1. PICK n \in Nat : n = s.failed + 1
  BY DEF StudyState
<1>2. b \in BOOLEAN
  BY DEF StudyState
<1>3. Failed(s) = [s EXCEPT !.failed = n, !.locked = b]
  BY <1>1 DEF Failed
<1> HIDE DEF b
<1>4. /\ Failed(s) \in StudyState /\ Failed(s).hits = s.hits /\ Failed(s).kps = s.kps
      /\ Failed(s).failed = n /\ Failed(s).locked = b
      /\ Failed(s).totalMatches = s.totalMatches
  BY <1>2, <1>3 DEF StudyState
<1> QED
  BY <1>1, <1>4 DEF b

LEMMA RelearntFacts ==
    ASSUME NEW s \in StudyState, NEW k \in Nat, NEW image \in Image,
           k \in DOMAIN s.hits, k \in DOMAIN s.kps
    PROVE  /\ Relearnt(s, k, image) \in StudyState
           /\ Len(Relearnt(s, k, image).hits) = Len(s.hits)
           /\ Len(Relearnt(s, k, image).kps) = Len(s.kps)
           /\ Relearnt(s, k, image).hits = [s.hits EXCEPT ![k] = 0]
           /\ Relearnt(s, k, image).totalMatches = s.totalMatches
           /\ Relearnt(s, k, image).kps = [s.kps EXCEPT ![k] = Keypoints(image)]
           /\ Relearnt(s, k, image).failed = 0
           /\ Relearnt(s, k, image).locked = s.locked
<1>1. s.hits \in Seq(Nat) /\ s.kps \in Seq(Nat) /\ Keypoints(image) \in Nat
  BY SigfmAssumption DEF StudyState
<1>h. PICK h : h = [s.hits EXCEPT ![k] = 0]
  OBVIOUS
<1>q. PICK q : q = [s.kps EXCEPT ![k] = Keypoints(image)]
  OBVIOUS
<1>2. h \in Seq(Nat) /\ Len(h) = Len(s.hits) /\ q \in Seq(Nat) /\ Len(q) = Len(s.kps)
  BY <1>1, <1>h, <1>q
<1>3. Relearnt(s, k, image) = [s EXCEPT !.hits = h, !.kps = q, !.failed = 0]
  BY <1>h, <1>q DEF Relearnt
<1>r. PICK r : r = [s EXCEPT !.hits = h, !.kps = q, !.failed = 0]
  OBVIOUS
<1>s. r \in StudyState
  BY <1>2, <1>r DEF StudyState
<1>t. /\ r.hits = h /\ r.kps = q /\ r.failed = 0 /\ r.locked = s.locked
      /\ r.totalMatches = s.totalMatches
  BY <1>r DEF StudyState
<1>4. /\ Relearnt(s, k, image) \in StudyState
      /\ Relearnt(s, k, image).hits = h /\ Relearnt(s, k, image).kps = q
      /\ Relearnt(s, k, image).failed = 0 /\ Relearnt(s, k, image).locked = s.locked
      /\ Relearnt(s, k, image).totalMatches = s.totalMatches
  BY <1>3, <1>r, <1>s, <1>t
<1> QED
  BY <1>2, <1>4, <1>h, <1>q

LEMMA RelearntHits ==
    ASSUME NEW s \in StudyState, NEW k \in Nat, NEW image \in Image, NEW r,
           r = Relearnt(s, k, image), k \in DOMAIN s.hits, k \in DOMAIN s.kps
    PROVE  r.hits = [s.hits EXCEPT ![k] = 0] /\ r.totalMatches = s.totalMatches
BY RelearntFacts

-----------------------------------------------------------------------------
(* Steps of the loop over the verification files: the counters.            *)

AcceptStep(f) ==
    /\ Accept(f)
    /\ tally' = Matched(tally, f) \/ tally' = Updated(tally, f)

\* Every step on a file is one of five kinds, as far as the counters go.
LEMMA FileStepKinds ==
    FileStep =>
        /\ NextFile
        /\ \E f \in Frame :
              \/ ReadError(f)
              \/ Gate
              \/ MatchError(f)
              \/ Reject(f)
              \/ AcceptStep(f)
BY DEF FileStep, AcceptStep, ReadError, GateFlat, GateUnextracted, GateFewKeypoints,
       Gate, MatchError, Reject, Accept, Probe, AcceptOnly, StudyV1, V1Idle, V1Refuse,
       V1Replace, StudyV2, V2Open, V2Idle, V2TooEarly, V2Refuse, V2Replace

Files(t) == t.ok + t.fail + t.error + t.gated

Attempts(t) == t.ok + t.fail

RowsMatch(t, r) == /\ r.MATCH = t.ok
                   /\ r.FAIL = t.fail
                   /\ r.SKIP = t.gated
                   /\ r.ERROR <= t.error

SameScores(t, u) ==
    /\ Attempts(u) = Attempts(t) /\ u.scoreTotal = t.scoreTotal
    /\ u.scoreMin = t.scoreMin /\ u.scoreMax = t.scoreMax

OneMoreScore(t, u, score) ==
    /\ Attempts(u) = Attempts(t) + 1 /\ u.scoreTotal = t.scoreTotal + score
    /\ u.scoreMin = (IF score < t.scoreMin THEN score ELSE t.scoreMin)
    /\ u.scoreMax = (IF score > t.scoreMax THEN score ELSE t.scoreMax)

LEMMA FileStepTally ==
    ASSUME Sound, FileStep
    PROVE  /\ tally' \in Tally /\ rows' \in Rows
           /\ Files(tally') = Files(tally) + 1
           /\ opts.csv /\ RowsMatch(tally, rows) => RowsMatch(tally', rows')
           /\ \/ SameScores(tally, tally')
              \/ \E score \in Nat : OneMoreScore(tally, tally', score)
<1>t. tally \in Tally /\ rows \in Rows
  BY DEF Sound, TypeOK
<1>n. /\ tally.ok \in Nat /\ tally.fail \in Nat /\ tally.error \in Nat /\ tally.gated \in Nat
      /\ rows.MATCH \in Nat /\ rows.FAIL \in Nat /\ rows.SKIP \in Nat /\ rows.ERROR \in Nat
  BY <1>t DEF Tally, Rows
<1>1. PICK f \in Frame :
         \/ ReadError(f)
         \/ Gate
         \/ MatchError(f)
         \/ Reject(f)
         \/ AcceptStep(f)
  BY FileStepKinds
<1>2. CASE ReadError(f)
  <2>1. /\ tally' \in Tally /\ rows' = rows
        /\ tally'.ok = tally.ok /\ tally'.fail = tally.fail
        /\ tally'.error = tally.error + 1 /\ tally'.gated = tally.gated
        /\ tally'.scoreTotal = tally.scoreTotal
        /\ tally'.scoreMin = tally.scoreMin /\ tally'.scoreMax = tally.scoreMax
    BY <1>t, <1>2 DEF ReadError, Tally
  <2> QED
    BY <1>t, <1>n, <2>1 DEF Files, RowsMatch, SameScores, Attempts
<1>3. CASE Gate
  <2>1. /\ tally' \in Tally
        /\ tally'.ok = tally.ok /\ tally'.fail = tally.fail
        /\ tally'.error = tally.error /\ tally'.gated = tally.gated + 1
        /\ tally'.scoreTotal = tally.scoreTotal
        /\ tally'.scoreMin = tally.scoreMin /\ tally'.scoreMax = tally.scoreMax
    BY <1>t, <1>3 DEF Gate, Tally
  <2>2. /\ rows' \in Rows
        /\ opts.csv => /\ rows'.MATCH = rows.MATCH /\ rows'.FAIL = rows.FAIL
                       /\ rows'.SKIP = rows.SKIP + 1 /\ rows'.ERROR = rows.ERROR
    BY <1>t, <1>3 DEF Gate, CsvRow, Rows
  <2> QED
    BY <1>n, <2>1, <2>2 DEF Files, RowsMatch, SameScores, Attempts
<1>4. CASE MatchError(f)
  <2>1. /\ tally' \in Tally
        /\ tally'.ok = tally.ok /\ tally'.fail = tally.fail
        /\ tally'.error = tally.error + 1 /\ tally'.gated = tally.gated
        /\ tally'.scoreTotal = tally.scoreTotal
        /\ tally'.scoreMin = tally.scoreMin /\ tally'.scoreMax = tally.scoreMax
    BY <1>t, <1>4 DEF MatchError, Tally
  <2>2. /\ rows' \in Rows
        /\ opts.csv => /\ rows'.MATCH = rows.MATCH /\ rows'.FAIL = rows.FAIL
                       /\ rows'.SKIP = rows.SKIP /\ rows'.ERROR = rows.ERROR + 1
    BY <1>t, <1>4 DEF MatchError, CsvRow, Rows
  <2> QED
    BY <1>n, <2>1, <2>2 DEF Files, RowsMatch, SameScores, Attempts
<1>5. CASE Reject(f)
  <2>1. Best(f) \in Nat
    BY <1>5, BestFacts DEF Reject
  <2>2. PICK s \in Tally : /\ s = Scored(tally, Best(f))
                           /\ s.ok = tally.ok /\ s.fail = tally.fail
                           /\ s.error = tally.error /\ s.gated = tally.gated
                           /\ s.scoreTotal = tally.scoreTotal + Best(f)
                           /\ s.scoreMin = (IF Best(f) < tally.scoreMin THEN Best(f)
                                            ELSE tally.scoreMin)
                           /\ s.scoreMax = (IF Best(f) > tally.scoreMax THEN Best(f)
                                            ELSE tally.scoreMax)
    BY <1>t, <2>1, ScoredType
  <2>3. tally' = [s EXCEPT !.fail = @ + 1]
    BY <1>5, <2>2 DEF Reject
  <2>4. /\ tally' \in Tally
        /\ tally'.ok = s.ok /\ tally'.fail = s.fail + 1
        /\ tally'.error = s.error /\ tally'.gated = s.gated
        /\ tally'.scoreTotal = s.scoreTotal
        /\ tally'.scoreMin = s.scoreMin /\ tally'.scoreMax = s.scoreMax
    BY <2>3 DEF Tally
  <2>5. /\ rows' \in Rows
        /\ opts.csv => /\ rows'.MATCH = rows.MATCH /\ rows'.FAIL = rows.FAIL + 1
                       /\ rows'.SKIP = rows.SKIP /\ rows'.ERROR = rows.ERROR
    BY <1>t, <1>5 DEF Reject, CsvRow, Rows
  <2>6. OneMoreScore(tally, tally', Best(f))
    BY <1>n, <2>2, <2>4 DEF OneMoreScore, Attempts
  <2> QED
    BY <1>n, <2>1, <2>2, <2>4, <2>5, <2>6 DEF Files, RowsMatch
<1>6. CASE AcceptStep(f)
  <2>1. Best(f) \in Nat
    BY <1>6, BestFacts DEF AcceptStep, Accept
  <2>2. PICK s \in Tally : /\ s = Scored(tally, Best(f))
                           /\ s.ok = tally.ok /\ s.fail = tally.fail
                           /\ s.error = tally.error /\ s.gated = tally.gated
                           /\ s.scoreTotal = tally.scoreTotal + Best(f)
                           /\ s.scoreMin = (IF Best(f) < tally.scoreMin THEN Best(f)
                                            ELSE tally.scoreMin)
                           /\ s.scoreMax = (IF Best(f) > tally.scoreMax THEN Best(f)
                                            ELSE tally.scoreMax)
    BY <1>t, <2>1, ScoredType
  <2>m. PICK m : m = [s EXCEPT !.ok = @ + 1]
    OBVIOUS
  <2>3. /\ m \in Tally
        /\ m.ok = s.ok + 1 /\ m.fail = s.fail /\ m.error = s.error /\ m.gated = s.gated
        /\ m.scoreTotal = s.scoreTotal
        /\ m.scoreMin = s.scoreMin /\ m.scoreMax = s.scoreMax
    BY <2>m DEF Tally
  <2>4. tally' = m \/ tally' = [m EXCEPT !.updates = @ + 1]
    BY <1>6, <2>2, <2>m DEF AcceptStep, Matched, Updated
  <2>5. /\ tally' \in Tally
        /\ tally'.ok = m.ok /\ tally'.fail = m.fail
        /\ tally'.error = m.error /\ tally'.gated = m.gated
        /\ tally'.scoreTotal = m.scoreTotal
        /\ tally'.scoreMin = m.scoreMin /\ tally'.scoreMax = m.scoreMax
    BY <2>3, <2>4 DEF Tally
  <2>6. /\ rows' \in Rows
        /\ opts.csv => /\ rows'.MATCH = rows.MATCH + 1 /\ rows'.FAIL = rows.FAIL
                       /\ rows'.SKIP = rows.SKIP /\ rows'.ERROR = rows.ERROR
    BY <1>t, <1>6 DEF AcceptStep, Accept, CsvRow, Rows
  <2>7. OneMoreScore(tally, tally', Best(f))
    BY <1>n, <2>2, <2>3, <2>5 DEF OneMoreScore, Attempts
  <2> QED
    BY <1>n, <2>1, <2>2, <2>3, <2>5, <2>6, <2>7 DEF Files, RowsMatch
<1> QED
  BY <1>1, <1>2, <1>3, <1>4, <1>5, <1>6

-----------------------------------------------------------------------------
(* Steps of the loop: the template and the study state.                    *)

\* An accepted probe takes over the slot and, possibly, the address of an
\* entry; everything else stays where it is.
LEMMA ReplaceFacts ==
    ASSUME Sound, NEW k \in DOMAIN entries, NEW b \in Addr, NEW image \in Image,
           Replace(k, b, image)
    PROVE  /\ heap' \in Heap /\ entries' \in Seq(Addr)
           /\ Len(entries') = Len(entries) /\ DOMAIN entries' = DOMAIN entries
           /\ heap'[entries'[k]] = image
           /\ \A j \in DOMAIN entries :
                 j # k => entries'[j] = entries[j] /\ heap'[entries'[j]] = heap[entries[j]]
           /\ TemplateOwnsHeap'
<1>1. /\ heap \in Heap /\ entries \in Seq(Addr) /\ DOMAIN entries = 1 .. Len(entries)
      /\ \A j \in DOMAIN entries : entries[j] \in Addr /\ heap[entries[j]] # Free
      /\ \A i, j \in DOMAIN entries : i # j => entries[i] # entries[j]
      /\ \A a \in Addr : heap[a] # Free => \E j \in DOMAIN entries : entries[j] = a
  BY DEF Sound, TypeOK, TemplateOwnsHeap
<1>2. image # Free
  BY SigfmAssumption
<1>3. /\ entries' \in Seq(Addr) /\ Len(entries') = Len(entries)
      /\ DOMAIN entries' = DOMAIN entries
      /\ \A j \in DOMAIN entries : entries'[j] = IF j = k THEN b ELSE entries[j]
  BY <1>1 DEF Replace
<1>4. /\ heap' \in Heap
      /\ \A a \in Addr : heap'[a] = IF a = b THEN image
                                    ELSE IF a = entries[k] THEN Free ELSE heap[a]
  BY <1>1 DEF Replace, AllocInfo, FreeInfo, Heap
<1>5. \A j \in DOMAIN entries : j # k => entries[j] # b
  BY <1>1 DEF Replace
<1>6. TemplateOwnsHeap'
  <2>1. \A i, j \in DOMAIN entries' : i # j => entries'[i] # entries'[j]
    BY <1>1, <1>3, <1>5
  <2>2. \A j \in DOMAIN entries' : heap'[entries'[j]] # Free
    BY <1>1, <1>2, <1>3, <1>4, <1>5
  <2>3. ASSUME NEW a \in Addr, heap'[a] # Free
        PROVE  \E j \in DOMAIN entries' : entries'[j] = a
    <3>1. CASE a = b
      BY <1>3, <3>1
    <3>2. CASE a # b
      <4>1. heap[a] # Free /\ a # entries[k]
        BY <1>4, <2>3, <3>2
      <4> QED
        BY <1>1, <1>3, <4>1
    <3> QED
      BY <3>1, <3>2
  <2> QED
    BY <2>1, <2>2, <2>3 DEF TemplateOwnsHeap
<1> QED
  BY <1>1, <1>3, <1>4, <1>5, <1>6

\* The entries stay, and so do the images.
Steady == UNCHANGED <<phase, opts, heap, entries, exitCode>> /\ DOMAIN scores' = DOMAIN scores

\* What a step may do to the study state when the template stays as it is.
StudyStep ==
    \/ study' = study
    \/ \E f \in Frame : Best(f) >= 0 /\ study' = Recorded(f)
    \/ /\ opts.studyV2 /\ ~study.locked
       /\ \E f \in Frame : Best(f) >= 0 /\ study' = Failed(Recorded(f))


\* Every step on a file keeps the template or replaces one entry.
LEMMA FileStepShapes ==
    ASSUME Sound, FileStep
    PROVE  \/ Steady /\ StudyStep
           \/ \E f \in Frame, b \in Addr : V1Replace(f, b) \/ V2Replace(f, b)
<1>s. DOMAIN scores = DOMAIN entries
  BY DEF Sound, TypeOK
<1>i. DOMAIN CrossAverages(Images) = DOMAIN entries
  BY DEF CrossAverages, Images
<1> PICK f \in Frame :
       \/ ReadError(f)
       \/ GateFlat(f)
       \/ GateUnextracted(f)
       \/ GateFewKeypoints(f)
       \/ MatchError(f)
       \/ Reject(f)
       \/ AcceptOnly(f)
       \/ V1Idle(f)
       \/ V1Refuse(f)
       \/ V2Idle(f)
       \/ V2TooEarly(f)
       \/ V2Refuse(f)
       \/ \E b \in Addr : V1Replace(f, b) \/ V2Replace(f, b)
  BY DEF FileStep
<1>1. CASE ReadError(f) \/ GateFlat(f) \/ GateUnextracted(f) \/ GateFewKeypoints(f)
           \/ MatchError(f) \/ Reject(f)
  BY <1>1 DEF ReadError, GateFlat, GateUnextracted, GateFewKeypoints, Gate, MatchError,
              Reject, Probe, NextFile, KeepTemplate, Steady, StudyStep
<1>2. CASE AcceptOnly(f) \/ V2Idle(f)
  BY <1>2 DEF AcceptOnly, V2Idle, StudyV2, Accept, Probe, NextFile, KeepTemplate,
              Steady, StudyStep
<1>3. CASE V1Idle(f) \/ V1Refuse(f)
  BY <1>s, <1>i, <1>3 DEF V1Idle, V1Refuse, StudyV1, Accept, Probe, NextFile,
              KeepTemplate, Steady, StudyStep
<1>4. CASE V2TooEarly(f) \/ V2Refuse(f)
  BY <1>s, <1>i, <1>4 DEF V2TooEarly, V2Refuse, V2Open, StudyV2, Accept, Probe, NextFile,
              KeepTemplate, Steady, StudyStep
<1> QED
  BY <1>1, <1>2, <1>3, <1>4

-----------------------------------------------------------------------------
(* The invariant is inductive.                                             *)

LEMMA V1ReplaceSound ==
    ASSUME Sound, NEW f \in Frame, NEW b \in Addr, V1Replace(f, b)
    PROVE  /\ UNCHANGED <<phase, opts, exitCode, study>> /\ ~opts.studyV2
           /\ heap' \in Heap /\ entries' \in Seq(Addr) /\ DOMAIN scores' = DOMAIN entries'
           /\ TemplateOwnsHeap'
<1>1. PICK k \in DOMAIN entries :
         /\ Replace(k, b, f.image)
         /\ scores' = [CrossAverages(Images) EXCEPT ![k] = ProbeAverage(Images, f.image)]
  BY DEF V1Replace
<1>2. DOMAIN scores' = DOMAIN entries
  BY <1>1 DEF CrossAverages, Images
<1>3. UNCHANGED <<phase, opts, exitCode, study>> /\ ~opts.studyV2
  BY DEF V1Replace, StudyV1, Accept, Probe, NextFile
<1> QED
  BY <1>1, <1>2, <1>3, ReplaceFacts, FrameFacts

\* The slot that v2 replaces, and what becomes of its statistics.
LEMMA V2ReplaceSound ==
    ASSUME Sound, NEW f \in Frame, NEW b \in Addr, V2Replace(f, b)
    PROVE  /\ UNCHANGED <<phase, opts, exitCode>> /\ phase = "verify"
           /\ opts.studyV2 /\ ~study.locked
           /\ heap' \in Heap /\ entries' \in Seq(Addr) /\ DOMAIN scores' = DOMAIN entries'
           /\ Len(entries') = Len(entries)
           /\ TemplateOwnsHeap'
           /\ study' \in StudyState
           /\ Len(study'.hits) = Len(entries') /\ Len(study'.kps) = Len(entries')
           /\ study'.failed = 0 /\ study'.locked = study.locked
           /\ \E k \in DOMAIN entries :
                 /\ study'.kps = [study.kps EXCEPT ![k] = Keypoints(f.image)]
                 /\ heap'[entries'[k]] = f.image
                 /\ \A j \in DOMAIN entries :
                       j # k => heap'[entries'[j]] = heap[entries[j]]
<1>1. PICK k \in DOMAIN entries :
         /\ Replace(k, b, f.image)
         /\ scores' = [CrossAverages(Images) EXCEPT ![k] =
                          TotalScore(Images, DOMAIN entries \ {k}, f.image)
                              \div (Len(entries) - 1)]
         /\ study' = Relearnt(Recorded(f), k, f.image)
  BY DEF V2Replace
<1>2. DOMAIN scores' = DOMAIN entries
  BY <1>1 DEF CrossAverages, Images
<1>3. /\ UNCHANGED <<phase, opts, exitCode>> /\ phase = "verify"
      /\ opts.studyV2 /\ ~study.locked /\ Best(f) >= 0
  BY DEF V2Replace, V2Open, StudyV2, Accept, Probe, NextFile
<1>4. f.image \in Image
  BY FrameFacts
<1>5. /\ heap' \in Heap /\ entries' \in Seq(Addr)
      /\ Len(entries') = Len(entries) /\ DOMAIN entries' = DOMAIN entries
      /\ heap'[entries'[k]] = f.image
      /\ \A j \in DOMAIN entries : j # k => heap'[entries'[j]] = heap[entries[j]]
      /\ TemplateOwnsHeap'
  BY <1>1, <1>4, ReplaceFacts
<1>6. PICK s \in StudyState :
         /\ s = Recorded(f) /\ Len(s.hits) = Len(entries) /\ Len(s.kps) = Len(entries)
         /\ s.kps = study.kps /\ s.locked = study.locked
  BY <1>3, RecordedFacts
<1>7. k \in Nat /\ k \in DOMAIN s.hits /\ k \in DOMAIN s.kps
  BY <1>6 DEF StudyState, Sound, TypeOK
<1>8. /\ study' \in StudyState
      /\ Len(study'.hits) = Len(s.hits) /\ Len(study'.kps) = Len(s.kps)
      /\ study'.kps = [s.kps EXCEPT ![k] = Keypoints(f.image)]
      /\ study'.failed = 0 /\ study'.locked = s.locked
  BY <1>1, <1>4, <1>6, <1>7, RelearntFacts
<1> QED
  BY <1>2, <1>3, <1>5, <1>6, <1>8

LEMMA SteadySound ==
    ASSUME Sound, phase = "verify", Steady, StudyStep
    PROVE  /\ heap' \in Heap /\ entries' \in Seq(Addr) /\ DOMAIN scores' = DOMAIN entries'
           /\ TemplateOwnsHeap'
           /\ study' \in StudyState
           /\ ~opts.studyV2 => study' = study
           /\ study'.kps = study.kps
           /\ opts.studyV2 => /\ Len(study'.hits) = Len(entries')
                              /\ Len(study'.kps) = Len(entries')
           /\ \/ study'.failed = study.failed /\ study'.locked = study.locked
              \/ /\ ~study.locked /\ study'.failed = study.failed + 1
                 /\ study'.locked = (study.failed + 1 > STUDY_MAX_FAILED)
<1>1. /\ study \in StudyState
      /\ opts.studyV2 => Len(study.hits) = Len(entries) /\ Len(study.kps) = Len(entries)
  BY DEF Sound, TypeOK
<1>2. /\ heap' \in Heap /\ entries' \in Seq(Addr) /\ DOMAIN scores' = DOMAIN entries'
      /\ entries' = entries /\ TemplateOwnsHeap'
  BY DEF Sound, TypeOK, Steady, TemplateOwnsHeap
<1>3. CASE study' = study
  BY <1>1, <1>2, <1>3
<1>4. ASSUME NEW f \in Frame, Best(f) >= 0, study' = Recorded(f)
      PROVE  /\ study' \in StudyState
             /\ ~opts.studyV2 => study' = study
             /\ study'.kps = study.kps
             /\ opts.studyV2 => /\ Len(study'.hits) = Len(entries)
                                /\ Len(study'.kps) = Len(entries)
             /\ study'.failed = study.failed /\ study'.locked = study.locked
  BY <1>4, RecordedFacts
<1>5. ASSUME opts.studyV2, ~study.locked,
             NEW f \in Frame, Best(f) >= 0, study' = Failed(Recorded(f))
      PROVE  /\ study' \in StudyState
             /\ study'.kps = study.kps
             /\ Len(study'.hits) = Len(entries) /\ Len(study'.kps) = Len(entries)
             /\ study'.failed = study.failed + 1
             /\ study'.locked = (study.failed + 1 > STUDY_MAX_FAILED)
  <2>1. PICK s \in StudyState :
           /\ s = Recorded(f) /\ Len(s.hits) = Len(entries) /\ Len(s.kps) = Len(entries)
           /\ s.kps = study.kps /\ s.failed = study.failed /\ s.locked = study.locked
    BY <1>5, RecordedFacts
  <2>2. /\ study' \in StudyState /\ study'.hits = s.hits /\ study'.kps = s.kps
        /\ study'.failed = s.failed + 1
        /\ study'.locked = (s.locked \/ s.failed + 1 > STUDY_MAX_FAILED)
    BY <1>5, <2>1, FailedFacts
  <2>3. ~s.locked
    BY <1>5, <2>1
  <2> QED
    BY <2>1, <2>2, <2>3
<1> QED
  BY <1>2, <1>3, <1>4, <1>5 DEF StudyStep

LEMMA FreeTemplateSound ==
    ASSUME Sound, FreeTemplate
    PROVE  /\ heap' \in Heap /\ entries' \in Seq(Addr) /\ DOMAIN scores' = DOMAIN entries'
           /\ TemplateOwnsHeap'
<1>1. heap' \in Heap /\ entries' = <<>> /\ scores' = <<>>
  BY DEF FreeTemplate, Sound, TypeOK, Heap
<1>2. \A a \in Addr : heap'[a] = Free
  <2> TAKE a \in Addr
  <2>1. heap[a] # Free => a \in Range(entries)
    BY DEF Sound, TemplateOwnsHeap, Range
  <2> QED
    BY <2>1 DEF FreeTemplate, Sound, TypeOK, Heap
<1> QED
  BY <1>1, <1>2 DEF TemplateOwnsHeap

LEMMA FileStepSound == Sound /\ FileStep => Sound'
<1> SUFFICES ASSUME Sound, FileStep
             PROVE  Sound'
  OBVIOUS
<1>1. /\ phase = "verify" /\ phase' = phase /\ opts' = opts /\ exitCode' = exitCode
      /\ v' = v + 1 /\ v' <= opts.nVerify /\ v' \in Nat
  BY FileStepKinds, OptionFacts DEF NextFile, Sound, TypeOK
<1>2. tally' \in Tally /\ rows' \in Rows
  BY FileStepTally
<1>3. CASE Steady /\ StudyStep
  <2>1. /\ heap' \in Heap /\ entries' \in Seq(Addr) /\ DOMAIN scores' = DOMAIN entries'
        /\ TemplateOwnsHeap' /\ study' \in StudyState
        /\ ~opts.studyV2 => study' = study
        /\ opts.studyV2 => /\ Len(study'.hits) = Len(entries')
                           /\ Len(study'.kps) = Len(entries')
    BY <1>1, <1>3, SteadySound
  <2> QED
    BY <1>1, <1>2, <2>1 DEF Sound, TypeOK, StudyUnused, UnusedStudy
<1>4. ASSUME NEW f \in Frame, NEW b \in Addr, V1Replace(f, b)
      PROVE  Sound'
  <2>1. /\ study' = study /\ ~opts.studyV2
        /\ heap' \in Heap /\ entries' \in Seq(Addr) /\ DOMAIN scores' = DOMAIN entries'
        /\ TemplateOwnsHeap'
    BY <1>4, V1ReplaceSound
  <2> QED
    BY <1>1, <1>2, <2>1 DEF Sound, TypeOK, StudyUnused, UnusedStudy
<1>5. ASSUME NEW f \in Frame, NEW b \in Addr, V2Replace(f, b)
      PROVE  Sound'
  <2>1. /\ opts.studyV2
        /\ heap' \in Heap /\ entries' \in Seq(Addr) /\ DOMAIN scores' = DOMAIN entries'
        /\ TemplateOwnsHeap' /\ study' \in StudyState
        /\ Len(study'.hits) = Len(entries') /\ Len(study'.kps) = Len(entries')
    BY <1>5, V2ReplaceSound
  <2> QED
    BY <1>1, <1>2, <2>1 DEF Sound, TypeOK, StudyUnused, UnusedStudy
<1> QED
  BY <1>3, <1>4, <1>5, FileStepShapes

LEMMA FreshStudyFacts ==
    ASSUME Sound
    PROVE  /\ FreshStudy \in StudyState
           /\ Len(FreshStudy.hits) = Len(entries) /\ Len(FreshStudy.kps) = Len(entries)
           /\ FreshStudy.kps = [k \in DOMAIN entries |-> Keypoints(heap[entries[k]])]
           /\ FreshStudy.failed = 0 /\ FreshStudy.locked = FALSE
           /\ FreshStudy.hits = [k \in DOMAIN entries |-> 0]
           /\ FreshStudy.totalMatches = 0
<1>1. \A k \in DOMAIN entries : Keypoints(heap[entries[k]]) \in Nat
  BY SigfmAssumption DEF Sound, TypeOK, TemplateOwnsHeap, Heap
<1>h. PICK h : h = [k \in DOMAIN entries |-> 0]
  OBVIOUS
<1>q. PICK q : q = [k \in DOMAIN entries |-> Keypoints(heap[entries[k]])]
  OBVIOUS
<1>n. Len(entries) \in Nat /\ DOMAIN entries = 1 .. Len(entries)
  BY DEF Sound, TypeOK
<1>g. h \in Seq(Nat) /\ Len(h) = Len(entries)
  BY <1>h, <1>n
<1>r. q \in Seq(Nat) /\ Len(q) = Len(entries)
  BY <1>1, <1>q, <1>n
<1>2. /\ h \in Seq(Nat) /\ Len(h) = Len(entries)
      /\ q \in Seq(Nat) /\ Len(q) = Len(entries)
  BY <1>g, <1>r
<1>3. FreshStudy = [hits |-> h, kps |-> q, totalMatches |-> 0, failed |-> 0, locked |-> FALSE]
  BY <1>h, <1>q DEF FreshStudy
<1> QED
  BY <1>2, <1>3, <1>h, <1>q DEF StudyState

LEMMA NextSound == Sound /\ [Next]_vars => Sound'
<1> SUFFICES ASSUME Sound, [Next]_vars
             PROVE  Sound'
  OBVIOUS
<1>1. CASE FileStep
  BY <1>1, FileStepSound
<1>2. CASE BeginNothing
  <2>1. /\ heap' \in Heap /\ entries' \in Seq(Addr) /\ DOMAIN scores' = DOMAIN entries'
        /\ TemplateOwnsHeap'
    BY <1>2, FreeTemplateSound DEF BeginNothing
  <2> QED
    BY <1>2, <2>1 DEF BeginNothing, Sound, TypeOK, Phase, StudyUnused, UnusedStudy
<1>3. CASE BeginVerify
  <2>1. study' \in StudyState
    BY <1>3, FreshStudyFacts, UnusedType DEF BeginVerify
  <2>2. opts.studyV2 => Len(study'.hits) = Len(entries) /\ Len(study'.kps) = Len(entries)
    BY <1>3, FreshStudyFacts DEF BeginVerify
  <2>3. TemplateOwnsHeap'
    BY <1>3 DEF BeginVerify, Sound, TemplateOwnsHeap
  <2>4. ~opts.studyV2 => study' = UnusedStudy
    BY <1>3 DEF BeginVerify
  <2> QED
    BY <1>3, <2>1, <2>2, <2>3, <2>4
       DEF BeginVerify, Sound, TypeOK, Phase, StudyUnused, UnusedStudy
<1>4. CASE Finish
  <2>1. /\ heap' \in Heap /\ entries' \in Seq(Addr) /\ DOMAIN scores' = DOMAIN entries'
        /\ TemplateOwnsHeap'
    BY <1>4, FreeTemplateSound DEF Finish
  <2> QED
    BY <1>4, <2>1 DEF Finish, Sound, TypeOK, Phase, StudyUnused, UnusedStudy
<1>5. CASE UNCHANGED vars
  BY <1>5 DEF vars, Sound, TypeOK, TemplateOwnsHeap, StudyUnused, UnusedStudy
<1> QED
  BY <1>1, <1>2, <1>3, <1>4, <1>5 DEF Next, Begin

LEMMA AlwaysSound == Spec => []Sound
BY InitSound, NextSound, PTL DEF Spec

-----------------------------------------------------------------------------
(* The theorems.                                                           *)

\* The variables keep their types; the statistics of study v2 stay as long as
\* the template they describe.
THEOREM VerificationTypeCorrect == Spec => []TypeOK
<1>1. Sound => TypeOK
  BY DEF Sound
<1> QED
  BY AlwaysSound, <1>1, PTL

\* Whatever study does, the template owns exactly the live blocks, each once,
\* and when the program has stopped none is left.
THEOREM VerificationOwnsHeap == Spec => []TemplateOwnsHeap
<1>1. Sound => TemplateOwnsHeap
  BY DEF Sound
<1> QED
  BY AlwaysSound, <1>1, PTL

\* The keypoint counts study v2 compares probes with are those of the entries.
THEOREM VerificationStudyAligned == Spec => []StudyAligned
<1>1. Init => StudyAligned
  BY DEF Init, StudyAligned
<1>2. Sound /\ StudyAligned /\ [Next]_vars => StudyAligned'
  <2> SUFFICES ASSUME Sound, StudyAligned, [Next]_vars
               PROVE  StudyAligned'
    OBVIOUS
  <2>1. CASE FileStep
    <3>1. phase = "verify" /\ phase' = phase /\ opts' = opts
      BY <2>1, FileStepKinds DEF NextFile
    <3>2. CASE Steady /\ StudyStep
      BY <3>1, <3>2, SteadySound DEF Steady, StudyAligned
    <3>3. ASSUME NEW f \in Frame, NEW b \in Addr, V1Replace(f, b)
          PROVE  StudyAligned'
      BY <3>1, <3>3, V1ReplaceSound DEF StudyAligned
    <3>4. ASSUME NEW f \in Frame, NEW b \in Addr, V2Replace(f, b)
          PROVE  StudyAligned'
      <4>1. PICK k \in DOMAIN entries :
               /\ study'.kps = [study.kps EXCEPT ![k] = Keypoints(f.image)]
               /\ heap'[entries'[k]] = f.image
               /\ \A j \in DOMAIN entries :
                     j # k => heap'[entries'[j]] = heap[entries[j]]
        BY <3>4, V2ReplaceSound
      <4>2. /\ opts.studyV2 /\ DOMAIN entries' = DOMAIN entries
            /\ study.kps \in Seq(Nat) /\ DOMAIN study.kps = DOMAIN entries
        BY <3>1, <3>4, V2ReplaceSound DEF Sound, TypeOK, StudyState
      <4>3. \A j \in DOMAIN entries : study.kps[j] = Keypoints(heap[entries[j]])
        BY <3>1, <4>2 DEF StudyAligned
      <4> QED
        BY <4>1, <4>2, <4>3 DEF StudyAligned
    <3> QED
      BY <2>1, <3>2, <3>3, <3>4, FileStepShapes
  <2>2. CASE BeginVerify
    BY <2>2, FreshStudyFacts DEF BeginVerify, StudyAligned
  <2>3. CASE BeginNothing \/ Finish
    BY <2>3 DEF BeginNothing, Finish, StudyAligned
  <2>4. CASE UNCHANGED vars
    BY <2>4 DEF vars, StudyAligned
  <2> QED
    BY <2>1, <2>2, <2>3, <2>4 DEF Next, Begin
<1> QED
  BY <1>1, <1>2, AlwaysSound, PTL DEF Spec

\* The lock of study v2 is set exactly when the failures have passed the limit.
THEOREM VerificationLockExact == Spec => []LockExact
<1>1. Init => LockExact
  BY StudyAssumption DEF Init, LocalInit, UnusedStudy, LockExact
<1>2. Sound /\ LockExact /\ [Next]_vars => LockExact'
  <2> SUFFICES ASSUME Sound, LockExact, [Next]_vars
               PROVE  LockExact'
    OBVIOUS
  <2>n. study.failed \in Nat /\ study.locked \in BOOLEAN /\ STUDY_MAX_FAILED \in Nat
    BY StudyAssumption DEF Sound, TypeOK, StudyState
  <2>1. CASE FileStep
    <3>1. phase = "verify"
      BY <2>1, FileStepKinds DEF NextFile
    <3>2. CASE Steady /\ StudyStep
      <4>1. \/ study'.failed = study.failed /\ study'.locked = study.locked
            \/ /\ ~study.locked /\ study'.failed = study.failed + 1
               /\ study'.locked = (study.failed + 1 > STUDY_MAX_FAILED)
        BY <3>1, <3>2, SteadySound
      <4>2. CASE study'.failed = study.failed /\ study'.locked = study.locked
        BY <4>2 DEF LockExact
      <4>3. CASE /\ ~study.locked /\ study'.failed = study.failed + 1
                 /\ study'.locked = (study.failed + 1 > STUDY_MAX_FAILED)
        <5>1. study.failed <= STUDY_MAX_FAILED
          BY <2>n, <4>3 DEF LockExact
        <5>2. study'.failed <= STUDY_MAX_FAILED + 1
          BY <2>n, <4>3, <5>1
        <5>3. study'.locked <=> study'.failed > STUDY_MAX_FAILED
          BY <4>3
        <5> QED
          BY <5>2, <5>3 DEF LockExact
      <4> QED
        BY <4>1, <4>2, <4>3
    <3>3. ASSUME NEW f \in Frame, NEW b \in Addr, V1Replace(f, b)
          PROVE  LockExact'
      BY <3>3, V1ReplaceSound DEF LockExact
    <3>4. ASSUME NEW f \in Frame, NEW b \in Addr, V2Replace(f, b)
          PROVE  LockExact'
      <4>1. study'.failed = 0 /\ study'.locked = study.locked /\ ~study.locked
        BY <3>4, V2ReplaceSound
      <4> QED
        BY <2>n, <4>1 DEF LockExact
    <3> QED
      BY <2>1, <3>2, <3>3, <3>4, FileStepShapes
  <2>2. CASE BeginVerify
    <3>1. study'.failed = 0 /\ study'.locked = FALSE
      BY <2>2, FreshStudyFacts DEF BeginVerify, UnusedStudy
    <3> QED
      BY <2>n, <3>1 DEF LockExact
  <2>3. CASE BeginNothing \/ Finish \/ UNCHANGED vars
    BY <2>3 DEF BeginNothing, Finish, vars, LockExact
  <2> QED
    BY <2>1, <2>2, <2>3 DEF Next, Begin
<1> QED
  BY <1>1, <1>2, AlwaysSound, PTL DEF Spec

\* Once study v2 has locked itself it never touches the template again.
THEOREM VerificationLockIsForever == Spec => LockIsForever
<1>1. Sound /\ [Next]_vars =>
         (Studied /\ study.locked => study'.locked /\ Images' = Images /\ entries' = entries)
  <2> SUFFICES ASSUME Sound, [Next]_vars, Studied, study.locked
               PROVE  study'.locked /\ Images' = Images /\ entries' = entries
    OBVIOUS
  <2>1. phase = "verify" /\ phase' = "verify"
    BY DEF Studied
  <2>2. opts.studyV2
    BY DEF Sound, StudyUnused, UnusedStudy
  <2>3. CASE FileStep
    <3>1. CASE Steady /\ StudyStep
      BY <2>1, <3>1, SteadySound DEF Steady, Images
    <3>2. ASSUME NEW f \in Frame, NEW b \in Addr, V1Replace(f, b) \/ V2Replace(f, b)
          PROVE  FALSE
      BY <2>2, <3>2, V1ReplaceSound, V2ReplaceSound
    <3> QED
      BY <2>3, <3>1, <3>2, FileStepShapes
  <2>4. CASE Begin \/ Finish
    BY <2>1, <2>4 DEF Begin, BeginNothing, BeginVerify, Finish
  <2>5. CASE UNCHANGED vars
    BY <2>5 DEF vars, Images
  <2> QED
    BY <2>3, <2>4, <2>5 DEF Next
<1> QED
  BY <1>1, AlwaysSound, PTL DEF Spec, LockIsForever

-----------------------------------------------------------------------------
(* The counters.  Before the first attempt the running statistics have     *)
(* their start values; afterwards they bracket the scores seen.            *)

Unscored(t) == t.scoreTotal = 0 /\ t.scoreMin >= 0 /\ t.scoreMax <= 0

Bracketed(t) == /\ 0 <= t.scoreMin
                /\ t.scoreMin * Attempts(t) <= t.scoreTotal
                /\ t.scoreTotal <= t.scoreMax * Attempts(t)

Summed == /\ Attempts(tally) = 0 => Unscored(tally)
          /\ Attempts(tally) > 0 => Bracketed(tally)

LEMMA SummaryStep ==
    ASSUME NEW t \in Tally, NEW u \in Tally, NEW score \in Nat, OneMoreScore(t, u, score),
           Attempts(t) > 0 => Bracketed(t),
           Attempts(t) = 0 => Unscored(t)
    PROVE  Attempts(u) > 0 /\ Bracketed(u)
<1>1. /\ Attempts(t) \in Nat /\ t.scoreMin \in Int /\ t.scoreMax \in Int
      /\ u.scoreMin \in Int /\ u.scoreMax \in Int /\ t.scoreTotal \in Int
  BY DEF Attempts, Tally
<1>2. /\ u.scoreMin <= score /\ u.scoreMin <= t.scoreMin
      /\ score <= u.scoreMax /\ t.scoreMax <= u.scoreMax
  BY <1>1 DEF OneMoreScore
<1>3. \A a, b, n \in Int : n >= 0 /\ a <= b => a * n <= b * n
  OBVIOUS
<1>4. \A a, n \in Int : a * (n + 1) = a * n + a
  OBVIOUS
<1>n. PICK n \in Nat : n = Attempts(t)
  BY <1>1
<1>5. /\ Attempts(u) = n + 1 /\ u.scoreTotal = t.scoreTotal + score
      /\ u.scoreTotal \in Int
  BY <1>1, <1>n DEF OneMoreScore
<1>6. /\ u.scoreMin * (n + 1) = u.scoreMin * n + u.scoreMin
      /\ u.scoreMax * (n + 1) = u.scoreMax * n + u.scoreMax
      /\ u.scoreMin * n \in Int /\ u.scoreMax * n \in Int
  <2>1. u.scoreMin \in Int /\ u.scoreMax \in Int /\ n \in Int
    BY <1>1
  <2>2. \A a, b \in Int : a * b \in Int
    OBVIOUS
  <2>3. u.scoreMin * n \in Int /\ u.scoreMax * n \in Int
    BY <2>1, <2>2
  <2>4. u.scoreMin * (n + 1) = u.scoreMin * n + u.scoreMin
    BY <2>1, <1>4
  <2>5. u.scoreMax * (n + 1) = u.scoreMax * n + u.scoreMax
    BY <2>1, <1>4
  <2> QED
    BY <2>3, <2>4, <2>5
<1>7. CASE n = 0
  <2>2. t.scoreTotal = 0 /\ t.scoreMin >= 0 /\ u.scoreMin >= 0
    BY <1>1, <1>7, <1>n DEF Unscored, OneMoreScore
  <2>3. /\ u.scoreMin * (n + 1) = u.scoreMin /\ u.scoreMax * (n + 1) = u.scoreMax
        /\ u.scoreTotal = score
    <3>1. u.scoreMin * (n + 1) = u.scoreMin /\ u.scoreMax * (n + 1) = u.scoreMax
      <4>1. \A a \in Int : a * (0 + 1) = a
        OBVIOUS
      <4> QED
        BY <1>1, <1>7, <4>1
    <3> QED
      BY <1>5, <2>2, <3>1
  <2>4. 0 <= u.scoreMin /\ u.scoreMin <= u.scoreTotal /\ u.scoreTotal <= u.scoreMax
    BY <1>1, <1>2, <2>2, <2>3
  <2>5. Attempts(u) = n + 1 /\ n + 1 > 0
    BY <1>5
  <2> QED
    BY <2>3, <2>4, <2>5 DEF Bracketed
<1>8. CASE n > 0
  <2>1. /\ 0 <= t.scoreMin /\ t.scoreMin * n <= t.scoreTotal
        /\ t.scoreTotal <= t.scoreMax * n
    BY <1>8, <1>n DEF Bracketed
  <2>2. /\ u.scoreMin * n <= t.scoreMin * n
        /\ t.scoreMax * n <= u.scoreMax * n
        /\ t.scoreMin * n \in Int /\ t.scoreMax * n \in Int
    BY <1>1, <1>2, <1>3
  <2>3. u.scoreMin >= 0
    BY <1>1, <2>1 DEF OneMoreScore
  <2>4. /\ u.scoreMin * n + u.scoreMin <= u.scoreTotal
        /\ u.scoreTotal <= u.scoreMax * n + u.scoreMax
    <3>1. u.scoreMin * n <= t.scoreTotal /\ t.scoreTotal <= u.scoreMax * n
      BY <1>1, <1>6, <2>1, <2>2
    <3> QED
      BY <1>1, <1>2, <1>5, <1>6, <3>1
  <2> QED
    BY <1>5, <1>6, <1>8, <2>3, <2>4 DEF Bracketed
<1> QED
  BY <1>n, <1>7, <1>8

\* Outside the loop over the files nothing is counted.
LEMMA OtherStepTally ==
    ASSUME [Next]_vars, ~FileStep
    PROVE  opts' = opts /\ v' = v /\ tally' = tally /\ rows' = rows
BY DEF Next, Begin, BeginNothing, BeginVerify, Finish, vars

\* Every verification file ends up in exactly one class of the summary.
THEOREM VerificationFilesAccounted == Spec => []FilesAccounted
<1>1. Init => FilesAccounted
  BY DEF Init, LocalInit, EmptyTally, FilesAccounted
<1>2. Sound /\ FilesAccounted /\ [Next]_vars => FilesAccounted'
  <2> SUFFICES ASSUME Sound, FilesAccounted, [Next]_vars
               PROVE  FilesAccounted'
    OBVIOUS
  <2>1. CASE FileStep
    <3>1. v' = v + 1 /\ Files(tally') = Files(tally) + 1
      BY <2>1, FileStepTally, FileStepKinds DEF NextFile
    <3> QED
      BY <3>1 DEF Files, FilesAccounted
  <2>2. CASE ~FileStep
    BY <2>2, OtherStepTally DEF FilesAccounted
  <2> QED
    BY <2>1, <2>2
<1> QED
  BY <1>1, <1>2, AlwaysSound, PTL DEF Spec

\* In CSV mode the rows printed agree with the summary; only read errors have
\* no row.
THEOREM VerificationRowsMatchTally == Spec => []RowsMatchTally
<1>1. Init => RowsMatchTally
  BY DEF Init, LocalInit, EmptyTally, EmptyRows, RowsMatchTally
<1>2. Sound /\ RowsMatchTally /\ [Next]_vars => RowsMatchTally'
  <2> SUFFICES ASSUME Sound, RowsMatchTally, [Next]_vars
               PROVE  RowsMatchTally'
    OBVIOUS
  <2>1. CASE FileStep
    <3>1. opts' = opts
      BY <2>1, FileStepKinds DEF NextFile
    <3> QED
      BY <2>1, <3>1, FileStepTally DEF RowsMatch, RowsMatchTally
  <2>2. CASE ~FileStep
    BY <2>2, OtherStepTally DEF RowsMatchTally
  <2> QED
    BY <2>1, <2>2
<1> QED
  BY <1>1, <1>2, AlwaysSound, PTL DEF Spec

\* The minimum, the mean and the maximum of the summary are those of one set
\* of scores, that of the attempts.
THEOREM VerificationScoreSummary == Spec => []ScoreSummarySound
<1>1. Init => Summed
  BY StudyAssumption
     DEF Init, LocalInit, EmptyTally, Summed, Attempts, Unscored, Bracketed
<1>2. Sound /\ Summed /\ [Next]_vars => Summed'
  <2> SUFFICES ASSUME Sound, Summed, [Next]_vars
               PROVE  Summed'
    OBVIOUS
  <2>1. CASE FileStep
    <3>1. tally \in Tally /\ tally' \in Tally
      BY <2>1, FileStepTally DEF Sound, TypeOK
    <3>2. CASE SameScores(tally, tally')
      BY <3>1, <3>2 DEF SameScores, Summed, Unscored, Bracketed
    <3>3. ASSUME NEW score \in Nat, OneMoreScore(tally, tally', score)
          PROVE  Summed'
      <4>1. Attempts(tally') > 0 /\ Bracketed(tally')
        BY <3>1, <3>3, SummaryStep DEF Summed
      <4>2. Attempts(tally') # 0
        BY <4>1
      <4> QED
        BY <4>1, <4>2 DEF Summed
    <3> QED
      BY <2>1, <3>2, <3>3, FileStepTally
  <2>2. CASE ~FileStep
    BY <2>2, OtherStepTally DEF Summed
  <2> QED
    BY <2>1, <2>2
<1>3. Summed => ScoreSummarySound
  BY DEF Summed, Attempts, Bracketed, ScoreSummarySound
<1> QED
  BY <1>1, <1>2, <1>3, AlwaysSound, PTL DEF Spec

-----------------------------------------------------------------------------
(* What an update of study v2 replaces.                                    *)

\* The replaced entry is the target, another one is the anchor, and the probe
\* does better than the target against the rest.
LEMMA V2TargetFacts ==
    ASSUME Sound, NEW f \in Frame, NEW b \in Addr, V2Replace(f, b)
    PROVE  \E k \in DOMAIN entries :
              /\ k # AnchorIndex(Images) /\ BeatsTarget(Images, k, f.image)
              /\ Images' = [Images EXCEPT ![k] = f.image]
              /\ \A j \in DOMAIN entries : j # k => entries'[j] = entries[j]
<1>1. PICK k \in DOMAIN entries : k = V2Target(f) /\ Replace(k, b, f.image)
  BY DEF V2Replace
<1>2. /\ phase = "verify" /\ opts.studyV2 /\ Best(f) >= 0 /\ Len(entries) >= 2
      /\ BeatsTarget(Images, k, f.image)
  BY <1>1 DEF V2Replace, V2Wanted, V2Open, StudyV2, Accept, Probe, NextFile
<1>3. Images \in Seq(Image) /\ Len(Images) = Len(entries) /\ DOMAIN Images = DOMAIN entries
  BY ImagesType DEF Sound, Images
<1>4. k # AnchorIndex(Images)
  <2>1. Recorded(f) \in StudyState /\ Len(Recorded(f).hits) = Len(entries)
    BY <1>2, RecordedFacts
  <2>2. \A j \in DOMAIN Images : Recorded(f).hits[j] \in Nat
    BY <1>3, <2>1 DEF StudyState
  <2>3. TargetIndex(Images, Recorded(f).hits) \in DOMAIN Images \ {AnchorIndex(Images)}
    BY <1>2, <1>3, <2>2, TargetIndexProperty
  <2> QED
    BY <1>1, <2>3 DEF V2Target
<1>5. /\ DOMAIN entries' = DOMAIN entries /\ heap'[entries'[k]] = f.image
      /\ \A j \in DOMAIN entries :
            j # k => entries'[j] = entries[j] /\ heap'[entries'[j]] = heap[entries[j]]
  BY <1>1, FrameFacts, ReplaceFacts
<1>6. Images' = [Images EXCEPT ![k] = f.image]
  BY <1>5 DEF Images
<1> QED
  BY <1>2, <1>4, <1>5, <1>6

\* Any other step within the loop leaves the template alone, or is of v1.
LEMMA TemplateChanges ==
    ASSUME Sound, [Next]_vars, Studied, opts.studyV2
    PROVE  \/ Images' = Images /\ entries' = entries
           \/ \E f \in Frame, b \in Addr : V2Replace(f, b)
<1>1. phase = "verify" /\ phase' = "verify"
  BY DEF Studied
<1>2. CASE FileStep
  <2>1. CASE Steady /\ StudyStep
    BY <2>1 DEF Steady, Images
  <2>2. ASSUME NEW f \in Frame, NEW b \in Addr, V1Replace(f, b)
        PROVE  FALSE
    BY <2>2, V1ReplaceSound
  <2> QED
    BY <1>2, <2>1, <2>2, FileStepShapes
<1>3. CASE Begin \/ Finish
  BY <1>1, <1>3 DEF Begin, BeginNothing, BeginVerify, Finish
<1>4. CASE UNCHANGED vars
  BY <1>4 DEF vars, Images
<1> QED
  BY <1>2, <1>3, <1>4 DEF Next

\* Study v2 never replaces the best-connected entry.
THEOREM VerificationAnchorSurvives == Spec => AnchorSurvives
<1>1. Sound /\ [Next]_vars =>
         (Studied /\ opts.studyV2 =>
            \A k \in DOMAIN entries : Replaced(k) =>
               \E j \in DOMAIN entries \ {k} :
                  ~Replaced(j) /\ CrossAverage(Images, j) >= CrossAverage(Images, k))
  <2> SUFFICES ASSUME Sound, [Next]_vars, Studied, opts.studyV2,
                      NEW k \in DOMAIN entries, Replaced(k)
               PROVE  \E j \in DOMAIN entries \ {k} :
                         ~Replaced(j) /\ CrossAverage(Images, j) >= CrossAverage(Images, k)
    OBVIOUS
  <2>1. PICK f \in Frame, b \in Addr : V2Replace(f, b)
    BY TemplateChanges DEF Replaced
  <2>2. PICK i \in DOMAIN entries :
           /\ i # AnchorIndex(Images)
           /\ Images' = [Images EXCEPT ![i] = f.image]
           /\ \A j \in DOMAIN entries : j # i => entries'[j] = entries[j]
    BY <2>1, V2TargetFacts
  <2>3. Images \in Seq(Image) /\ Len(Images) >= 2 /\ DOMAIN Images = DOMAIN entries
    BY <2>1, ImagesType DEF Sound, Images, V2Replace, V2Open
  <2>4. \A j \in DOMAIN entries : j # i => ~Replaced(j)
    BY <2>2, <2>3 DEF Replaced
  <2>5. /\ AnchorIndex(Images) \in DOMAIN entries
        /\ CrossAverage(Images, k) <= CrossAverage(Images, AnchorIndex(Images))
        /\ CrossAverage(Images, k) \in Nat
        /\ CrossAverage(Images, AnchorIndex(Images)) \in Nat
    BY <2>3, AnchorIndexProperty, CrossAverageType
  <2>6. k = i
    BY <2>4
  <2> QED
    BY <2>2, <2>4, <2>5, <2>6
<1> QED
  BY <1>1, AlwaysSound, PTL DEF Spec, AnchorSurvives

-----------------------------------------------------------------------------
(* The hits of study v2.                                                   *)

SameHits(s, r) == r.hits = s.hits /\ r.totalMatches = s.totalMatches

\* As OneMoreHit, but one entry starts over.
OneMoreHitReset(s, r) ==
    /\ r.totalMatches = s.totalMatches + 1
    /\ \E i, k \in DOMAIN s.hits : r.hits = [[s.hits EXCEPT ![i] = @ + 1] EXCEPT ![k] = 0]

\* Under v2 every match is recorded once, and every update resets one entry.
LEMMA HitSteps ==
    ASSUME Sound, FileStep, opts.studyV2
    PROVE  \/ /\ SameHits(study, study')
              /\ tally'.ok = tally.ok /\ tally'.updates = tally.updates
           \/ /\ OneMoreHit(study, study')
              /\ tally'.ok = tally.ok + 1 /\ tally'.updates = tally.updates
           \/ /\ \E f \in Frame, b \in Addr : V2Replace(f, b)
              /\ OneMoreHitReset(study, study')
              /\ tally'.ok = tally.ok + 1 /\ tally'.updates = tally.updates + 1
<1>t. /\ tally \in Tally /\ study \in StudyState /\ phase = "verify"
      /\ Len(study.hits) = Len(entries)
  BY FileStepKinds DEF Sound, TypeOK, NextFile
<1>m. ASSUME NEW f \in Frame, Best(f) >= 0
      PROVE  /\ Matched(tally, f).ok = tally.ok + 1
             /\ Matched(tally, f).updates = tally.updates
             /\ Updated(tally, f).ok = tally.ok + 1
             /\ Updated(tally, f).updates = tally.updates + 1
  <2>1. Best(f) \in Int
    BY <1>m, BestFacts
  <2>2. PICK s \in Tally : /\ s = Scored(tally, Best(f))
                           /\ s.ok = tally.ok /\ s.updates = tally.updates
    BY <1>t, <2>1, ScoredType
  <2>3. PICK m : m = [s EXCEPT !.ok = @ + 1]
    OBVIOUS
  <2>4. m = Matched(tally, f) /\ [m EXCEPT !.updates = @ + 1] = Updated(tally, f)
    BY <2>2, <2>3 DEF Matched, Updated
  <2>5. m \in Tally /\ m.ok = s.ok + 1 /\ m.updates = s.updates
    BY <2>3 DEF Tally
  <2> QED
    BY <2>2, <2>4, <2>5 DEF Tally
<1> PICK f \in Frame :
       \/ ReadError(f)
       \/ GateFlat(f)
       \/ GateUnextracted(f)
       \/ GateFewKeypoints(f)
       \/ MatchError(f)
       \/ Reject(f)
       \/ AcceptOnly(f)
       \/ V1Idle(f)
       \/ V1Refuse(f)
       \/ V2Idle(f)
       \/ V2TooEarly(f)
       \/ V2Refuse(f)
       \/ \E b \in Addr : V1Replace(f, b) \/ V2Replace(f, b)
  BY DEF FileStep
<1>1. CASE ReadError(f) \/ GateFlat(f) \/ GateUnextracted(f) \/ GateFewKeypoints(f)
           \/ MatchError(f)
  <2>1. /\ study' = study
        /\ \/ tally' = [tally EXCEPT !.error = @ + 1]
           \/ tally' = [tally EXCEPT !.gated = @ + 1]
    BY <1>1 DEF ReadError, GateFlat, GateUnextracted, GateFewKeypoints, Gate, MatchError
  <2> QED
    BY <1>t, <2>1 DEF SameHits, Tally
<1>2. CASE Reject(f)
  <2>1. Best(f) \in Int
    BY <1>2, BestFacts DEF Reject
  <2>2. PICK s \in Tally : /\ s = Scored(tally, Best(f))
                           /\ s.ok = tally.ok /\ s.updates = tally.updates
    BY <1>t, <2>1, ScoredType
  <2>3. study' = study /\ tally' = [s EXCEPT !.fail = @ + 1]
    BY <1>2, <2>2 DEF Reject
  <2> QED
    BY <2>2, <2>3 DEF SameHits, Tally
<1>3. CASE AcceptOnly(f) \/ V2Idle(f)
  <2>1. study' = Recorded(f) /\ tally' = Matched(tally, f) /\ Best(f) >= 0
    BY <1>3 DEF AcceptOnly, V2Idle, StudyV2, Accept
  <2>2. OneMoreHit(study, study')
    BY <1>t, <2>1, RecordedFacts
  <2> QED
    BY <1>m, <2>1, <2>2
<1>4. CASE V2TooEarly(f) \/ V2Refuse(f)
  <2>1. study' = Failed(Recorded(f)) /\ tally' = Matched(tally, f) /\ Best(f) >= 0
    BY <1>4 DEF V2TooEarly, V2Refuse, V2Open, StudyV2, Accept
  <2>2. Recorded(f) \in StudyState /\ OneMoreHit(study, Recorded(f))
    BY <1>t, <2>1, RecordedFacts
  <2>3. SameHits(Recorded(f), study')
    BY <2>1, <2>2, FailedFacts DEF SameHits
  <2>4. OneMoreHit(study, study')
    BY <2>2, <2>3 DEF OneMoreHit, SameHits
  <2> QED
    BY <1>m, <2>1, <2>4
<1>5. CASE V1Idle(f) \/ V1Refuse(f) \/ \E b \in Addr : V1Replace(f, b)
  BY <1>5 DEF V1Idle, V1Refuse, V1Replace, StudyV1
<1>6. ASSUME NEW b \in Addr, V2Replace(f, b)
      PROVE  /\ OneMoreHitReset(study, study')
             /\ tally'.ok = tally.ok + 1 /\ tally'.updates = tally.updates + 1
  <2>1. PICK k \in DOMAIN entries : study' = Relearnt(Recorded(f), k, f.image)
    BY <1>6 DEF V2Replace
  <2>2. tally' = Updated(tally, f) /\ Best(f) >= 0
    BY <1>6 DEF V2Replace, V2Open, StudyV2, Accept
  <2>3. PICK s \in StudyState :
           /\ s = Recorded(f) /\ OneMoreHit(study, s)
           /\ Len(s.hits) = Len(entries) /\ Len(s.kps) = Len(entries)
    BY <1>t, <2>2, RecordedFacts
  <2>4. /\ k \in Nat /\ k \in DOMAIN study.hits
        /\ k \in DOMAIN s.hits /\ k \in DOMAIN s.kps
    BY <1>t, <2>3 DEF StudyState, Sound, TypeOK
  <2>i. PICK i \in DOMAIN study.hits : s.hits = [study.hits EXCEPT ![i] = @ + 1]
    BY <2>3 DEF OneMoreHit
  <2>p. PICK p \in Image : p = f.image
    BY FrameFacts
  <2>5. /\ study'.hits = [s.hits EXCEPT ![k] = 0]
        /\ study'.totalMatches = s.totalMatches
    <3>1. study' = Relearnt(s, k, p)
      BY <2>1, <2>3, <2>p
    <3>2. k \in DOMAIN s.hits /\ k \in DOMAIN s.kps /\ k \in Nat
      BY <2>4
    <3> QED
      BY <3>1, <3>2, RelearntHits
  <2>6. OneMoreHitReset(study, study')
    <3>1. study'.totalMatches = study.totalMatches + 1
      BY <2>3, <2>5 DEF OneMoreHit
    <3>2. study'.hits = [[study.hits EXCEPT ![i] = @ + 1] EXCEPT ![k] = 0]
      BY <2>i, <2>5
    <3> QED
      BY <2>4, <3>1, <3>2 DEF OneMoreHitReset
  <2> QED
    BY <1>m, <2>2, <2>6
<1> QED
  BY <1>1, <1>2, <1>3, <1>4, <1>5, <1>6

HitsSum == SumFunction(study.hits)

\* Study v2 never holds more hits than there were matches, and while it has
\* replaced nothing it holds exactly one per match.
THEOREM VerificationHitsAccounted == Spec => []HitsAccounted
<1> DEFINE Start == phase = "enrolled" => tally = EmptyTally
           HInv  == Start /\ HitsAccounted
<1>1. Init => HInv
  BY DEF Init, LocalInit, HitsAccounted
<1>2. Sound /\ HInv /\ [Next]_vars => HInv'
  <2> SUFFICES ASSUME Sound, HInv, [Next]_vars
               PROVE  HInv'
    OBVIOUS
  <2>s. Start'
    BY FileStepKinds
       DEF Next, Begin, BeginNothing, BeginVerify, Finish, NextFile, vars
  <2>1. ASSUME FileStep, opts.studyV2
        PROVE  HitsAccounted'
    <3>1. phase = "verify" /\ opts' = opts /\ phase' = phase
      BY <2>1, FileStepKinds DEF NextFile
    <3>2. /\ study.hits \in Seq(Nat) /\ study.totalMatches \in Nat
          /\ tally.ok \in Nat /\ tally.updates \in Nat
      BY DEF Sound, TypeOK, StudyState, Tally
    <3>3. /\ study.totalMatches = tally.ok /\ HitsSum <= tally.ok
          /\ tally.updates = 0 => HitsSum = tally.ok
      BY <2>1, <3>1 DEF HitsAccounted, HitsSum
    <3>4. ASSUME NEW i \in DOMAIN study.hits
          PROVE  /\ HitsSum \in Nat /\ study.hits[i] + 1 \in Nat
                 /\ SumFunction([study.hits EXCEPT ![i] = @ + 1]) = HitsSum + 1
      <4>1. study.hits[i] \in Nat /\ study.hits[i] + 1 \in Nat
        BY <3>2
      <4>2. /\ HitsSum \in Nat
            /\ SumFunction([study.hits EXCEPT ![i] = study.hits[i] + 1])
                 = HitsSum - study.hits[i] + (study.hits[i] + 1)
        BY <3>2, <4>1, SumWithSlot DEF HitsSum
      <4> QED
        BY <4>1, <4>2
    <3>5. CASE /\ SameHits(study, study')
               /\ tally'.ok = tally.ok /\ tally'.updates = tally.updates
      BY <3>3, <3>5 DEF SameHits, HitsAccounted, HitsSum
    <3>6. CASE /\ OneMoreHit(study, study')
               /\ tally'.ok = tally.ok + 1 /\ tally'.updates = tally.updates
      <4>1. HitsSum \in Nat /\ SumFunction(study'.hits) = HitsSum + 1
        BY <3>4, <3>6 DEF OneMoreHit
      <4>2. study'.totalMatches = study.totalMatches + 1
        BY <3>6 DEF OneMoreHit
      <4> QED
        BY <3>2, <3>3, <3>6, <4>1, <4>2 DEF HitsAccounted
    <3>7. CASE /\ OneMoreHitReset(study, study')
               /\ tally'.ok = tally.ok + 1 /\ tally'.updates = tally.updates + 1
      <4>1. PICK i \in DOMAIN study.hits, k \in DOMAIN study.hits :
               study'.hits = [[study.hits EXCEPT ![i] = @ + 1] EXCEPT ![k] = 0]
        BY <3>7 DEF OneMoreHitReset
      <4>2. PICK h : h = [study.hits EXCEPT ![i] = @ + 1]
        OBVIOUS
      <4>3. h \in Seq(Nat) /\ k \in DOMAIN h /\ h[k] \in Nat
        BY <3>2, <3>4, <4>2
      <4>4. HitsSum \in Nat /\ SumFunction(h) = HitsSum + 1
        BY <3>4, <4>2
      <4>5. SumFunction([h EXCEPT ![k] = 0]) = SumFunction(h) - h[k] + 0
        BY <4>3, SumWithSlot
      <4>6. study'.hits = [h EXCEPT ![k] = 0]
        BY <4>1, <4>2
      <4>7. SumFunction(study'.hits) <= HitsSum + 1
        BY <4>3, <4>4, <4>5, <4>6
      <4>8. SumFunction(study'.hits) \in Int
        BY <4>3, <4>4, <4>5, <4>6
      <4>9. study'.totalMatches = study.totalMatches + 1
        BY <3>7 DEF OneMoreHitReset
      <4> QED
        BY <3>2, <3>3, <3>7, <4>4, <4>7, <4>8, <4>9 DEF HitsAccounted
    <3> QED
      BY <2>1, <3>5, <3>6, <3>7, HitSteps
  <2>2. ASSUME FileStep, ~opts.studyV2
        PROVE  HitsAccounted'
    BY <2>2, FileStepKinds DEF NextFile, HitsAccounted
  <2>3. CASE BeginVerify
    <3>1. /\ study'.hits = [k \in DOMAIN entries |-> 0] /\ study'.totalMatches = 0
          \/ ~opts.studyV2
      BY <2>3, FreshStudyFacts DEF BeginVerify
    <3>2. tally' = EmptyTally /\ opts' = opts
      BY <2>3 DEF BeginVerify
    <3>3. SumFunction([k \in DOMAIN entries |-> 0]) = 0
      <4>1. IsFiniteSet(DOMAIN entries)
        BY FiniteDomain DEF Sound, TypeOK
      <4> DEFINE z == [k \in DOMAIN entries |-> 0]
      <4>2. DOMAIN z = DOMAIN entries /\ \A k \in DOMAIN entries : z[k] = 0
        OBVIOUS
      <4> HIDE DEF z
      <4>3. SumFunction(z) = 0
        BY <4>1, <4>2, SumZero DEF SumFunction
      <4> QED
        BY <4>3 DEF z
    <3> QED
      BY <3>1, <3>2, <3>3 DEF HitsAccounted, EmptyTally
  <2>4. CASE BeginNothing \/ Finish
    BY <2>4 DEF BeginNothing, Finish, HitsAccounted
  <2>5. CASE UNCHANGED vars
    BY <2>5 DEF vars, HitsAccounted
  <2> QED
    BY <2>s, <2>1, <2>2, <2>3, <2>4, <2>5 DEF Next, Begin
<1>3. HInv => HitsAccounted
  OBVIOUS
<1> QED
  BY <1>1, <1>2, <1>3, AlwaysSound, PTL DEF Spec

-----------------------------------------------------------------------------
(* The cohesion of the template.                                           *)

LEMMA SimilarityType ==
    ASSUME NEW p \in Image, NEW q \in Image
    PROVE  Similarity(p, q) \in Nat
BY SigfmAssumption DEF Similarity

LEMMA DivMonotone ==
    ASSUME NEW a \in Nat, NEW b \in Nat, NEW c \in Nat \ {0}, a \div c > b \div c
    PROVE  a > b
OBVIOUS

Symmetric == \A p, q \in Image : MatchScore(p, q) = MatchScore(q, p)

PairSimilarity(t) == [pair \in Pairs(Len(t)) |-> Similarity(t[pair[1]], t[pair[2]])]

\* The pairs that entry k is not part of.
PairsWithout(n, k) == {pair \in Pairs(n) : pair[1] # k /\ pair[2] # k}

\* The pairs split into those without entry k and those with it, whose scores
\* are the scores CrossAverage sums.
LEMMA CohesionSplit ==
    ASSUME NEW t \in Seq(Image), NEW k \in DOMAIN t, Symmetric
    PROVE  LET rest == SumFunctionOnSet(PairSimilarity(t), PairsWithout(Len(t), k))
               own  == SumFunctionOnSet([j \in DOMAIN t |-> Similarity(t[k], t[j])],
                                        DOMAIN t \ {k})
           IN  /\ rest \in Int /\ own \in Int
               /\ Cohesion(t) = rest + own
<1> DEFINE n == Len(t)
           P == Pairs(n)
           F == PairSimilarity(t)
           O == DOMAIN t \ {k}
           W == PairsWithout(n, k)
           h == [j \in O |-> IF j < k THEN <<j, k>> ELSE <<k, j>>]
           T == {h[j] : j \in O}
           G == [j \in DOMAIN t |-> Similarity(t[k], t[j])]
<1>1. n \in Nat /\ DOMAIN t = 1 .. n /\ k \in 1 .. n /\ \A j \in 1 .. n : t[j] \in Image
  OBVIOUS
<1>2. IsFiniteSet(1 .. n)
  BY <1>1, FS_Interval
<1>3. IsFiniteSet((1 .. n) \X (1 .. n))
  BY <1>2, FS_Product
<1>4. P \in SUBSET ((1 .. n) \X (1 .. n)) /\ W \in SUBSET P
  BY DEF Pairs, PairsWithout
<1>5. IsFiniteSet(P) /\ IsFiniteSet(W)
  <2>1. IsFiniteSet(P)
    BY <1>3, <1>4, FS_Subset
  <2> QED
    BY <1>4, <2>1, FS_Subset
<1>6. IsFiniteSet(O)
  BY <1>1, <1>2, FS_Subset
<1>7. \A j \in O : /\ j \in 1 .. n /\ j # k
                   /\ h[j] = IF j < k THEN <<j, k>> ELSE <<k, j>>
  BY <1>1
<1>8. T \in SUBSET P
  <2>1. ASSUME NEW j \in O
        PROVE  h[j] \in P
    BY <1>1, <1>7 DEF Pairs
  <2> QED
    BY <2>1
<1>9. P = W \cup T /\ W \cap T = {}
  <2>1. ASSUME NEW pair \in P, pair \notin W
        PROVE  pair \in T
    <3>1. /\ pair[1] \in 1 .. n /\ pair[2] \in 1 .. n /\ pair[1] < pair[2]
          /\ pair = <<pair[1], pair[2]>> /\ (pair[1] = k \/ pair[2] = k)
      BY <2>1 DEF PairsWithout, Pairs
    <3>2. CASE pair[1] = k
      <4>1. pair[2] \in O /\ ~(pair[2] < k)
        BY <1>1, <3>1, <3>2
      <4>2. h[pair[2]] = pair
        BY <1>7, <3>1, <3>2, <4>1
      <4> QED
        BY <4>1, <4>2
    <3>3. CASE pair[2] = k
      <4>1. pair[1] \in O /\ pair[1] < k
        BY <1>1, <3>1, <3>3
      <4>2. h[pair[1]] = pair
        BY <1>7, <3>1, <3>3, <4>1
      <4> QED
        BY <4>1, <4>2
    <3> QED
      BY <3>1, <3>2, <3>3
  <2>2. ASSUME NEW j \in O
        PROVE  h[j] \notin W
    BY <1>7 DEF PairsWithout
  <2> QED
    BY <1>4, <1>8, <2>1, <2>2
<1>t. IsFiniteSet(T)
  BY <1>5, <1>8, FS_Subset
<1>10. \A pair \in P : F[pair] = Similarity(t[pair[1]], t[pair[2]]) /\ F[pair] \in Int
  <2> SUFFICES ASSUME NEW pair \in P
               PROVE  /\ F[pair] = Similarity(t[pair[1]], t[pair[2]])
                      /\ F[pair] \in Int
    OBVIOUS
  <2>1. t[pair[1]] \in Image /\ t[pair[2]] \in Image
    BY <1>1, <1>4
  <2>2. F[pair] = Similarity(t[pair[1]], t[pair[2]])
    BY DEF PairSimilarity
  <2>3. Similarity(t[pair[1]], t[pair[2]]) \in Nat
    BY <2>1, SimilarityType
  <2> QED
    BY <2>2, <2>3
<1>11. \A j \in O : F[h[j]] = G[j] /\ F[h[j]] \in Int
  <2> SUFFICES ASSUME NEW j \in O
               PROVE  F[h[j]] = G[j] /\ F[h[j]] \in Int
    OBVIOUS
  <2>1. h[j] \in P
    BY <1>8
  <2>2. t[j] \in Image /\ t[k] \in Image /\ G[j] = Similarity(t[k], t[j])
    BY <1>1, <1>7
  <2>3. Similarity(t[j], t[k]) = Similarity(t[k], t[j])
    BY <2>2 DEF Symmetric, Similarity
  <2>4. F[h[j]] = Similarity(t[h[j][1]], t[h[j][2]]) /\ F[h[j]] \in Int
    BY <1>10, <2>1
  <2>5. \/ h[j][1] = j /\ h[j][2] = k
        \/ h[j][1] = k /\ h[j][2] = j
    BY <1>7
  <2> QED
    BY <2>2, <2>3, <2>4, <2>5
<1>12. \A i, j \in O : h[i] = h[j] => i = j
  BY <1>1, <1>7
<1>c. Cohesion(t) = SumFunctionOnSet(F, P)
  BY DEF Cohesion, SumFunction, PairSimilarity
<1> HIDE DEF n, P, F, O, W, h, T, G
<1>13. SumFunctionOnSet(F, P) = SumFunctionOnSet(F, W) + SumFunctionOnSet(F, T)
  BY <1>5, <1>t, <1>9, <1>10, SumDisjoint
<1>14. SumFunctionOnSet(F, T) = SumFunctionOnSet([j \in O |-> F[h[j]]], O)
  BY <1>6, <1>11, <1>12, SumRenamed DEF T
<1>15. SumFunctionOnSet([j \in O |-> F[h[j]]], O) = SumFunctionOnSet(G, O)
  <2> DEFINE H == [j \in O |-> F[h[j]]]
  <2>1. \A j \in O : H[j] \in Int /\ H[j] = G[j]
    BY <1>11
  <2> HIDE DEF H
  <2>2. SumFunctionOnSet(H, O) = SumFunctionOnSet(G, O)
    BY <1>6, <2>1, SumEqual
  <2> QED
    BY <2>2 DEF H
<1>16. SumFunctionOnSet(F, W) \in Int
  BY <1>4, <1>5, <1>10, SumType
<1>17. SumFunctionOnSet(G, O) \in Int
  BY <1>6, <1>11, SumType
<1>18. Cohesion(t) = SumFunctionOnSet(F, W) + SumFunctionOnSet(G, O)
  BY <1>c, <1>13, <1>14, <1>15
<1> QED
  BY <1>16, <1>17, <1>18 DEF n, F, W, G, O

\* A probe that beats entry k improves the cohesion in its place.
LEMMA BetterEntry ==
    ASSUME NEW t \in Seq(Image), Len(t) >= 2, NEW k \in DOMAIN t, NEW p \in Image,
           Symmetric, BeatsTarget(t, k, p)
    PROVE  Cohesion([t EXCEPT ![k] = p]) > Cohesion(t)
<1> DEFINE u == [t EXCEPT ![k] = p]
           O == DOMAIN t \ {k}
           W == PairsWithout(Len(t), k)
           X == [j \in DOMAIN t |-> Similarity(t[j], p)]
           Y == [j \in DOMAIN t |-> Similarity(t[k], t[j])]
           Z == [j \in DOMAIN u |-> Similarity(u[k], u[j])]
<1>1. /\ u \in Seq(Image) /\ Len(u) = Len(t) /\ DOMAIN u = DOMAIN t /\ u[k] = p
      /\ \A j \in O : u[j] = t[j] /\ u[j] \in Image
      /\ \A j \in DOMAIN t : t[j] \in Image
      /\ DOMAIN t = 1 .. Len(t) /\ Len(t) - 1 \in Nat \ {0}
  <2>1. u \in Seq(Image) /\ Len(u) = Len(t) /\ DOMAIN u = DOMAIN t /\ u[k] = p
    OBVIOUS
  <2>2. \A j \in DOMAIN t : t[j] \in Image
    OBVIOUS
  <2>3. \A j \in O : u[j] = t[j] /\ u[j] \in Image
    BY <2>2
  <2>4. DOMAIN t = 1 .. Len(t) /\ Len(t) - 1 \in Nat \ {0}
    OBVIOUS
  <2> QED
    BY <2>1, <2>2, <2>3, <2>4
<1>2. IsFiniteSet(O) /\ IsFiniteSet(W)
  <2>1. IsFiniteSet(O) /\ IsFiniteSet(1 .. Len(t))
    BY <1>1, FiniteDomain
  <2>2. IsFiniteSet((1 .. Len(t)) \X (1 .. Len(t)))
    BY <2>1, FS_Product
  <2>3. W \in SUBSET ((1 .. Len(t)) \X (1 .. Len(t)))
    BY DEF PairsWithout, Pairs
  <2>4. IsFiniteSet(W)
    BY <2>2, <2>3, FS_Subset
  <2> QED
    BY <2>1, <2>4
<1>3. SumFunctionOnSet(Z, O) = SumFunctionOnSet(X, O)
  <2>1. ASSUME NEW j \in O
        PROVE  Z[j] \in Int /\ Z[j] = X[j]
    <3>1. Z[j] = Similarity(p, t[j]) /\ X[j] = Similarity(t[j], p)
      BY <1>1
    <3>2. Similarity(p, t[j]) = Similarity(t[j], p)
      BY <1>1 DEF Symmetric, Similarity
    <3>3. Similarity(p, t[j]) \in Nat
      BY <1>1, SimilarityType
    <3> QED
      BY <3>1, <3>2, <3>3
  <2> HIDE DEF X, Z, O
  <2> QED
    BY <1>2, <2>1, SumEqual
<1>4. SumFunctionOnSet(PairSimilarity(u), W) = SumFunctionOnSet(PairSimilarity(t), W)
  <2>1. ASSUME NEW pair \in W
        PROVE  /\ PairSimilarity(u)[pair] \in Int
               /\ PairSimilarity(u)[pair] = PairSimilarity(t)[pair]
    <3>1. pair \in Pairs(Len(t)) /\ pair[1] \in O /\ pair[2] \in O
      BY <1>1 DEF PairsWithout, Pairs
    <3>2. /\ PairSimilarity(u)[pair] = Similarity(u[pair[1]], u[pair[2]])
          /\ PairSimilarity(t)[pair] = Similarity(t[pair[1]], t[pair[2]])
      BY <1>1, <3>1 DEF PairSimilarity
    <3>3. u[pair[1]] = t[pair[1]] /\ u[pair[2]] = t[pair[2]]
      BY <1>1, <3>1
    <3>4. Similarity(t[pair[1]], t[pair[2]]) \in Nat
      BY <1>1, <3>1, SimilarityType
    <3> QED
      BY <3>2, <3>3, <3>4
  <2> HIDE DEF W, u
  <2> QED
    BY <1>2, <2>1, SumEqual
<1>5. SumFunctionOnSet(X, O) > SumFunctionOnSet(Y, O)
  <2>1. SumFunctionOnSet(X, O) \in Nat
    <3>1. \A j \in O : X[j] = Similarity(t[j], p)
      OBVIOUS
    <3>2. \A j \in O : Similarity(t[j], p) \in Nat
      BY <1>1, SimilarityType
    <3>3. \A j \in O : X[j] \in Nat
      BY <3>1, <3>2
    <3> HIDE DEF X, O
    <3> QED
      BY <1>2, <3>3, SumNatural
  <2>2. SumFunctionOnSet(Y, O) \in Nat
    BY CrossAverageType
  <2>3. SumFunctionOnSet(X, O) \div (Len(t) - 1) > SumFunctionOnSet(Y, O) \div (Len(t) - 1)
    BY DEF BeatsTarget, TotalScore, CrossAverage
  <2> HIDE DEF X, Y, O
  <2> QED
    BY <1>1, <2>1, <2>2, <2>3, DivMonotone
<1>6. /\ Cohesion(t) = SumFunctionOnSet(PairSimilarity(t), W) + SumFunctionOnSet(Y, O)
      /\ SumFunctionOnSet(PairSimilarity(t), W) \in Int /\ SumFunctionOnSet(Y, O) \in Int
  BY CohesionSplit
<1>7. /\ Cohesion(u) = SumFunctionOnSet(PairSimilarity(u), W) + SumFunctionOnSet(Z, O)
      /\ SumFunctionOnSet(Z, O) \in Int
  <2>1. k \in DOMAIN u
    BY <1>1
  <2>2. LET rest == SumFunctionOnSet(PairSimilarity(u), PairsWithout(Len(u), k))
            own  == SumFunctionOnSet(Z, DOMAIN u \ {k})
        IN  /\ rest \in Int /\ own \in Int
            /\ Cohesion(u) = rest + own
    <3> HIDE DEF u
    <3> QED
      BY <1>1, <2>1, CohesionSplit
  <2>3. PairsWithout(Len(u), k) = W /\ DOMAIN u \ {k} = O
    BY <1>1
  <2> HIDE DEF u, W, O, Z
  <2> QED
    BY <2>2, <2>3
<1> HIDE DEF u, W, O, X, Y, Z
<1>8. Cohesion(u) > Cohesion(t)
  BY <1>3, <1>4, <1>5, <1>6, <1>7
<1> QED
  BY <1>8 DEF u

\* When the matcher is symmetric every update of study v2 improves the
\* cohesion of the template, so that no sequence of updates can cycle.
THEOREM VerificationUpdateImproves ==
    ASSUME \A p, q \in Image : MatchScore(p, q) = MatchScore(q, p)
    PROVE  Spec => UpdateImprovesCohesion
<1>1. Sound /\ [Next]_vars =>
         (Studied /\ opts.studyV2 /\ tally'.updates > tally.updates =>
             Cohesion(Images') > Cohesion(Images))
  <2> SUFFICES ASSUME Sound, [Next]_vars, Studied, opts.studyV2,
                      tally'.updates > tally.updates
               PROVE  Cohesion(Images') > Cohesion(Images)
    OBVIOUS
  <2>1. CASE \E f \in Frame, b \in Addr : V2Replace(f, b)
    <3>1. PICK f \in Frame, b \in Addr : V2Replace(f, b)
      BY <2>1
    <3>2. PICK k \in DOMAIN entries :
             /\ BeatsTarget(Images, k, f.image)
             /\ Images' = [Images EXCEPT ![k] = f.image]
      BY <3>1, V2TargetFacts
    <3>3. Images \in Seq(Image) /\ Len(Images) >= 2 /\ DOMAIN Images = DOMAIN entries
      BY <3>1, ImagesType DEF Sound, Images, V2Replace, V2Open
    <3>4. f.image \in Image /\ Symmetric
      BY FrameFacts DEF Symmetric
    <3>5. Cohesion([Images EXCEPT ![k] = f.image]) > Cohesion(Images)
      BY <3>2, <3>3, <3>4, BetterEntry
    <3> QED
      BY <3>2, <3>5
  <2>2. CASE ~\E f \in Frame, b \in Addr : V2Replace(f, b)
    <3>1. tally.updates \in Nat
      BY DEF Sound, TypeOK, Tally
    <3>2. CASE FileStep
      <4>1. tally'.updates = tally.updates
        BY <2>2, <3>2, HitSteps
      <4> QED
        BY <3>1, <4>1
    <3>3. CASE ~FileStep
      BY <3>1, <3>3, OtherStepTally
    <3> QED
      BY <3>2, <3>3
  <2> QED
    BY <2>1, <2>2
<1> QED
  BY <1>1, AlwaysSound, PTL DEF Spec, UpdateImprovesCohesion
=============================================================================
