-------------------------- MODULE SigfmBatchProofs --------------------------
(***************************************************************************)
(* Theorems about the whole program: it implements AdaptiveTemplate, and   *)
(* it frees everything before it returns from main, for every number of    *)
(* files, every mix of options, every matcher and every capacity.          *)
(*                                                                         *)
(* The enrollment half is taken over from EnrollmentProofs.  Its           *)
(* invariants hold until the template is served; then it is enough that    *)
(* the template's pointers stay live and distinct.                         *)
(***************************************************************************)
EXTENDS SigfmBatch, SequenceTheorems, TLAPS

EP == INSTANCE EnrollmentProofs

-----------------------------------------------------------------------------
(* E and EP are the same state machine.  Every definition of it is a       *)
(* symbol of its own in each of the two instances, so all are unfolded.    *)

LEMMA EnrollmentAssumptions == EP!OptionsAssumption /\ EP!SigfmAssumption
  BY OptionsAssumption, SigfmAssumption
  DEF EP!OptionsAssumption, EP!SigfmAssumption, EP!WellFormedFrame, WellFormedFrame,
      EP!WellFormedOptions, WellFormedOptions

LEMMA SameInit == E!Init => EP!Init
  BY DEF E!Init, EP!Init, E!EmptyStats, EP!EmptyStats

LEMMA SameFrameStep == E!FrameStep => EP!FrameStep
  BY DEF E!FrameStep, EP!FrameStep, E!RejectUnread, EP!RejectUnread,
      E!RejectFlat, EP!RejectFlat, E!RejectUnextracted, EP!RejectUnextracted,
      E!RejectFewKeypoints, EP!RejectFewKeypoints, E!Defer, EP!Defer,
      E!AddPlain, EP!AddPlain, E!AddIgnored, EP!AddIgnored, E!RankFill,
      EP!RankFill, E!RankSkip, EP!RankSkip, E!RankAppend, EP!RankAppend,
      E!RankReplace, EP!RankReplace, E!NextFrame, EP!NextFrame, E!KeepAll,
      EP!KeepAll, E!Admit, EP!Admit, E!BelowStrict, EP!BelowStrict,
      E!StrictPhase, EP!StrictPhase, E!Store, EP!Store, E!Ranked, EP!Ranked,
      E!WeakestScore, EP!WeakestScore, E!WeakestIndex, EP!WeakestIndex,
      E!CountKeypoints, EP!CountKeypoints, E!Larger, EP!Larger, E!Smaller,
      EP!Smaller, E!HalfOf, EP!HalfOf, E!AllocInfo, EP!AllocInfo, E!FreeInfo,
      EP!FreeInfo, E!Allocated, EP!Allocated, E!Unreadable, EP!Unreadable,
      E!Flat, EP!Flat, E!Extractable, EP!Extractable, E!NoFeatures,
      EP!NoFeatures, E!TooFewKeypoints, EP!TooFewKeypoints, E!Usable,
      EP!Usable, E!Min, EP!Min

LEMMA SameLenientStep ==
    E!EnrollEnd \/ E!LenientStep \/ E!Report =>
        EP!EnrollEnd \/ EP!LenientStep \/ EP!Report
  BY DEF E!EnrollEnd, EP!EnrollEnd, E!LenientStep, EP!LenientStep, E!LenientAdd,
      EP!LenientAdd, E!LenientIgnored, EP!LenientIgnored, E!LenientSkip,
      EP!LenientSkip, E!NextDeferred, EP!NextDeferred, E!Store, EP!Store,
      E!FreeInfo, EP!FreeInfo, E!Report, EP!Report

LEMMA SameSortStep == E!SortStep => EP!SortStep
  BY DEF E!SortStep, EP!SortStep, E!SortSkip, EP!SortSkip, E!SortScore,
      EP!SortScore, E!SortExchange, EP!SortExchange, E!SortTruncate,
      EP!SortTruncate, E!SortNeeded, EP!SortNeeded, E!CrossAverages,
      EP!CrossAverages, E!CrossAverage, EP!CrossAverage, E!Images, EP!Images,
      E!Swap, EP!Swap, E!NextCursor, EP!NextCursor, E!Excess, EP!Excess,
      E!Keep, EP!Keep, E!Similarity, EP!Similarity, E!SumFunctionOnSet,
      EP!SumFunctionOnSet, E!FoldFunctionOnSet, EP!FoldFunctionOnSet,
      E!MapThenFoldSet, EP!MapThenFoldSet

LEMMA SamePruneStep == E!PruneStep => EP!PruneStep
  BY DEF E!PruneStep, EP!PruneStep, E!PruneOne, EP!PruneOne, E!PruneEnd,
      EP!PruneEnd, E!PruneNeeded, EP!PruneNeeded, E!FreeInfo, EP!FreeInfo,
      E!Without, EP!Without, E!RedundantIndex, EP!RedundantIndex,
      E!MostSimilarPair, EP!MostSimilarPair, E!PairScore, EP!PairScore,
      E!Pairs, EP!Pairs, E!Min, EP!Min, E!Max, EP!Max, E!Images, EP!Images

LEMMA SameNext == E!Next => EP!Next
  BY SameFrameStep, SameLenientStep, SameSortStep, SamePruneStep DEF E!Next, EP!Next

-----------------------------------------------------------------------------
(* The invariant.                                                          *)

Building == {"enroll", "lenient", "sort", "exchange", "prune", "enrolled"}

EnrollInv == phase \in Building => EP!Sound /\ EP!LeakInv /\ EP!CoreInv

\* The template's pointers are live and distinct.
EntriesLive ==
    /\ heap \in Heap /\ entries \in Seq(Addr)
    /\ \A j, k \in DOMAIN entries : j # k => entries[j] # entries[k]
    /\ \A k \in DOMAIN entries : heap[entries[k]] # Free

\* There are no other live blocks.
NothingElseLive ==
    \A a \in Addr : heap[a] # Free => \E k \in DOMAIN entries : entries[k] = a

FewFiles == opts.nEnroll <= MAX_TEMPLATE_ENTRIES

Served == entries # <<>> /\ EntriesLive /\ (FewFiles => NothingElseLive)

\* StudyState keeps its fields; only study v2 ever sets the lock.
Shaped(s) ==
    s = [hits |-> s.hits, kps |-> s.kps, totalMatches |-> s.totalMatches,
         failed |-> s.failed, locked |-> s.locked]

StudyInv ==
    /\ Shaped(study)
    /\ study.locked \in BOOLEAN
    /\ phase \in Building \/ ~opts.studyV2 => ~study.locked

BatchInv ==
    /\ opts \in OptionSets
    /\ EnrollInv
    /\ phase = "verify" => Served
    /\ phase = "done" /\ FewFiles => Allocated(heap) = {}
    /\ StudyInv

-----------------------------------------------------------------------------
(* What a template looks like after a change to its pointers.              *)

LEMMA SameImages ==
    ASSUME entries' = entries,
           \A k \in DOMAIN entries : heap'[entries[k]] = heap[entries[k]]
    PROVE  Images' = Images
  BY DEF Images

LEMMA GrownImages ==
    ASSUME entries \in Seq(Addr), NEW a \in Addr, entries' = Append(entries, a),
           \A k \in DOMAIN entries : heap'[entries[k]] = heap[entries[k]]
    PROVE  Images' = Append(Images, heap'[a])
<1>1. /\ Len(entries) \in Nat
      /\ DOMAIN entries = 1 .. Len(entries)
      /\ DOMAIN entries' = 1 .. Len(entries) + 1
      /\ \A k \in 1 .. Len(entries) : entries'[k] = entries[k]
      /\ entries'[Len(entries) + 1] = a
  OBVIOUS
<1>2. Images' = [k \in 1 .. Len(entries) + 1 |->
                    IF k = Len(entries) + 1 THEN heap'[a] ELSE heap[entries[k]]]
  BY <1>1 DEF Images
<1>3. Images = [k \in 1 .. Len(entries) |-> heap[entries[k]]]
  BY <1>1 DEF Images
<1>4. Len(Images) = Len(entries)
  BY <1>1, <1>3
<1>5. Append(Images, heap'[a]) = [k \in 1 .. Len(entries) + 1 |->
                    IF k = Len(entries) + 1 THEN heap'[a] ELSE Images[k]]
  BY <1>4
<1> QED BY <1>1, <1>2, <1>3, <1>5

LEMMA ChangedImages ==
    ASSUME entries \in Seq(Addr), NEW k \in DOMAIN entries, NEW b,
           entries' = [entries EXCEPT ![k] = b],
           \A j \in DOMAIN entries : j # k => heap'[entries[j]] = heap[entries[j]]
    PROVE  Images' = [Images EXCEPT ![k] = heap'[b]]
  BY DEF Images

\* Every entry of a live template holds an image.
LEMMA LiveImages ==
    ASSUME EntriesLive
    PROVE  /\ Images \in Seq(Image)
           /\ DOMAIN Images = DOMAIN entries
           /\ Images = <<>> <=> entries = <<>>
<1>1. \A k \in DOMAIN entries : heap[entries[k]] \in Image
  BY DEF EntriesLive, Heap
<1>2. DOMAIN entries = 1 .. Len(entries) /\ Len(entries) \in Nat
  BY DEF EntriesLive
<1>3. Images = [k \in 1 .. Len(entries) |-> heap[entries[k]]]
  BY <1>2 DEF Images
<1>4. Images \in Seq(Image) /\ Len(Images) = Len(entries)
  BY <1>1, <1>2, <1>3
<1>5. Images = <<>> <=> entries = <<>>
  BY <1>2, <1>4, EmptySeq DEF EntriesLive
<1> QED BY <1>2, <1>3, <1>4, <1>5

\* While it is built, the template's pointers are live and distinct as well.
LEMMA BuildingLive ==
    ASSUME EnrollInv, phase \in Building
    PROVE  EntriesLive
  BY DEF EnrollInv, EP!Sound, EP!TypeInv, EP!TypeOK, EP!PointersSound, EP!Heap,
         EntriesLive, Heap

\* Enrollment hands over a template that is not empty and owns the heap.
LEMMA Handed ==
    ASSUME EnrollInv, phase = "enrolled"
    PROVE  Served
<1>1. EP!Sound /\ EP!LeakInv /\ phase \in Building
  BY DEF EnrollInv, Building
<1>2. EntriesLive
  BY <1>1, BuildingLive
<1>3. entries # <<>> /\ deferred = <<>>
  BY <1>1 DEF EP!Sound, EP!TypeInv, EP!Control
<1>4. FewFiles => NothingElseLive
  BY <1>1, <1>3 DEF EP!LeakInv, EP!NoLeak, EP!Reachable, FewFiles, NothingElseLive
<1> QED BY <1>2, <1>3, <1>4 DEF Served

LEMMA BatchInit == Init => BatchInv /\ A!Init
<1> SUFFICES ASSUME Init PROVE BatchInv /\ A!Init
  OBVIOUS
<1>1. EP!Init
  BY SameInit DEF Init
<1>2. EP!Sound
  BY <1>1, EP!InitSound, EnrollmentAssumptions
<1>3. EP!LeakInv /\ EP!CoreInv
  BY <1>1 DEF EP!Init, EP!LeakInv, EP!Counted, EP!NoLeak, EP!Reachable,
              EP!CoreInv, EP!RankInv, EP!StrictCore
<1>4. phase = "enroll" /\ opts \in OptionSets /\ entries = <<>>
  BY <1>1 DEF EP!Init
<1>5. StudyInv
  BY DEF Init, V!LocalInit, V!UnusedStudy, StudyInv, Shaped
<1>6. BatchInv
  BY <1>2, <1>3, <1>4, <1>5 DEF BatchInv, EnrollInv
<1>7. A!Init
  <2>1. Stage = "building"
    BY <1>4 DEF Stage
  <2>2. Images = <<>>
    BY <1>4 DEF Images
  <2>3. (~opts.templateStudy \/ study.locked) \in BOOLEAN
    BY <1>4
  <2>4. LearnThreshold \in Int
    BY <1>4, OptionsAssumption DEF WellFormedOptions, LearnThreshold
  <2> QED BY <2>1, <2>2, <2>3, <2>4 DEF A!Init
<1> QED BY <1>6, <1>7

-----------------------------------------------------------------------------
(* The enrollment half.                                                    *)

\* Where control goes: from one building phase to another, or, with an empty
\* template, to the end.
LEMMA EnrollControl ==
    ASSUME EP!Next
    PROVE  /\ phase \in Building /\ opts' = opts
           /\ \/ phase' \in Building
              \/ /\ phase' = "done" /\ entries = <<>> /\ deferred = <<>>
                 /\ UNCHANGED <<heap, entries, deferred>>
<1>1. CASE EP!FrameStep
  BY <1>1 DEF EP!FrameStep, EP!RejectUnread, EP!RejectFlat, EP!RejectUnextracted,
      EP!RejectFewKeypoints, EP!Defer, EP!AddPlain, EP!AddIgnored, EP!RankFill,
      EP!RankSkip, EP!RankAppend, EP!RankReplace, EP!Ranked, EP!Admit, EP!NextFrame,
      Building
<1>2. CASE EP!EnrollEnd
  BY <1>2 DEF EP!EnrollEnd, Building
<1>3. CASE EP!LenientStep
  BY <1>3 DEF EP!LenientStep, EP!LenientAdd, EP!LenientIgnored, EP!LenientSkip,
      EP!NextDeferred, Building
<1>4. CASE EP!Report
  BY <1>4 DEF EP!Report, Building
<1>5. CASE EP!SortStep
  BY <1>5 DEF EP!SortStep, EP!SortSkip, EP!SortScore, EP!SortExchange,
      EP!SortTruncate, Building
<1>6. CASE EP!PruneStep
  BY <1>6 DEF EP!PruneStep, EP!PruneOne, EP!PruneEnd, Building
<1> QED BY <1>1, <1>2, <1>3, <1>4, <1>5, <1>6 DEF EP!Next

LEMMA EnrollStepInv == BatchInv /\ EnrollStep => BatchInv'
<1> SUFFICES ASSUME BatchInv, EnrollStep PROVE BatchInv'
  OBVIOUS
<1>1. EP!Next /\ UNCHANGED verifyOnly
  BY SameNext DEF EnrollStep
<1>2. /\ phase \in Building /\ opts' = opts
      /\ \/ phase' \in Building
         \/ /\ phase' = "done" /\ entries = <<>> /\ deferred = <<>>
            /\ UNCHANGED <<heap, entries, deferred>>
  BY <1>1, EnrollControl
<1>3. EP!Sound /\ EP!LeakInv /\ EP!CoreInv
  BY <1>2 DEF BatchInv, EnrollInv
<1>4. EP!Sound'
  BY <1>1, <1>3, EP!NextSound, EnrollmentAssumptions
<1>5. EP!LeakInv'
  BY <1>1, <1>3, EP!NextLeak, EnrollmentAssumptions
<1>6. EP!CoreInv'
  BY <1>1, <1>3, <1>4, EP!NextCore, EnrollmentAssumptions
<1>7. EnrollInv'
  BY <1>4, <1>5, <1>6 DEF EnrollInv
<1>8. ASSUME phase' = "done", FewFiles' PROVE Allocated(heap)' = {}
  <2>1. /\ entries = <<>> /\ deferred = <<>> /\ heap' = heap
        /\ opts.nEnroll <= MAX_TEMPLATE_ENTRIES
    BY <1>2, <1>8 DEF Building, FewFiles
  <2>2. \A a \in Addr : heap[a] = Free
    BY <1>3, <2>1 DEF EP!LeakInv, EP!NoLeak, EP!Reachable
  <2> QED BY <2>1, <2>2 DEF Allocated
<1>9. StudyInv' /\ opts' \in OptionSets /\ phase' # "verify"
  BY <1>1, <1>2 DEF BatchInv, verifyOnly, StudyInv, Shaped, Building
<1> QED BY <1>7, <1>8, <1>9 DEF BatchInv

-----------------------------------------------------------------------------
(* Enrollment against AdaptiveTemplate.                                    *)

\* While enrollment runs, the abstract template is being built, and neither
\* its study nor its threshold changes.
LEMMA BuildingFrame ==
    ASSUME EP!Next, UNCHANGED verifyOnly
    PROVE  /\ Stage = "building"
           /\ Stage' = IF phase' = "done" THEN "gone" ELSE "building"
           /\ (~opts.templateStudy \/ study.locked)' = (~opts.templateStudy \/ study.locked)
           /\ LearnThreshold' = LearnThreshold
<1>1. phase \in Building /\ phase' \in Building \cup {"done"} /\ opts' = opts
  BY EnrollControl
<1>2. study' = study
  BY DEF verifyOnly
<1> QED BY <1>1, <1>2 DEF Stage, LearnThreshold, Building

LEMMA FrameStepRefines ==
    ASSUME BatchInv, EP!FrameStep, UNCHANGED verifyOnly
    PROVE  [A!Next]_(A!vars)
<1>1. EP!Next /\ phase' = "enroll" /\ phase = "enroll"
  BY DEF EP!Next, EP!FrameStep, EP!RejectUnread, EP!RejectFlat, EP!RejectUnextracted,
      EP!RejectFewKeypoints, EP!Defer, EP!AddPlain, EP!AddIgnored, EP!RankFill,
      EP!RankSkip, EP!RankAppend, EP!RankReplace, EP!Ranked, EP!Admit, EP!NextFrame
<1>2. /\ Stage = "building" /\ Stage' = "building"
      /\ (~opts.templateStudy \/ study.locked)' = (~opts.templateStudy \/ study.locked)
      /\ LearnThreshold' = LearnThreshold
  BY <1>1, BuildingFrame
<1>3. EP!Sound /\ EP!CoreInv /\ EntriesLive
  BY <1>1, BuildingLive DEF BatchInv, EnrollInv, Building
<1>4. ASSUME Images' = Images PROVE [A!Next]_(A!vars)
  BY <1>2, <1>4 DEF A!vars
<1>5. PICK f \in Frame :
        \/ EP!RejectUnread(f) \/ EP!RejectFlat(f)
        \/ EP!RejectUnextracted(f) \/ EP!RejectFewKeypoints(f)
        \/ \E a \in Addr :
              \/ EP!Defer(f, a) \/ EP!AddPlain(f, a) \/ EP!AddIgnored(f, a)
              \/ EP!RankFill(f, a) \/ EP!RankSkip(f, a) \/ EP!RankAppend(f, a)
              \/ EP!RankReplace(f, a)
  BY DEF EP!FrameStep
<1>6. f.image \in Image
  BY OptionsAssumption DEF WellFormedFrame
<1>7. CASE EP!RejectUnread(f) \/ EP!RejectFlat(f)
             \/ EP!RejectUnextracted(f) \/ EP!RejectFewKeypoints(f)
  <2>1. heap' = heap /\ entries' = entries
    BY <1>7 DEF EP!RejectUnread, EP!RejectFlat, EP!RejectUnextracted,
                EP!RejectFewKeypoints, EP!KeepAll
  <2> QED BY <1>4, <2>1, SameImages
<1>8. ASSUME NEW a \in Addr,
             EP!Defer(f, a) \/ EP!AddIgnored(f, a) \/ EP!RankSkip(f, a)
      PROVE  [A!Next]_(A!vars)
  <2>1. /\ entries' = entries /\ heap[a] = Free
        /\ heap' = heap \/ heap' = [heap EXCEPT ![a] = f.image]
    BY <1>8 DEF EP!Defer, EP!AddIgnored, EP!RankSkip, EP!Ranked, EP!Admit, EP!AllocInfo
  <2>2. \A k \in DOMAIN entries : entries[k] \in Addr /\ heap[entries[k]] # Free
    BY <1>3 DEF EntriesLive
  <2>3. \A k \in DOMAIN entries : heap'[entries[k]] = heap[entries[k]]
    BY <1>3, <2>1, <2>2 DEF EntriesLive, Heap
  <2> QED BY <1>4, <2>1, <2>3, SameImages
<1>9. ASSUME NEW a \in Addr,
             EP!AddPlain(f, a) \/ EP!RankFill(f, a) \/ EP!RankAppend(f, a)
      PROVE  [A!Next]_(A!vars)
  <2>1. /\ entries' = Append(entries, a) /\ heap[a] = Free
        /\ heap' = [heap EXCEPT ![a] = f.image]
    BY <1>9 DEF EP!AddPlain, EP!RankFill, EP!RankAppend, EP!Ranked, EP!Admit, EP!Store,
                EP!AllocInfo
  <2>2. heap'[a] = f.image
    BY <1>3, <2>1 DEF EntriesLive, Heap
  <2>3. \A k \in DOMAIN entries : entries[k] \in Addr /\ heap[entries[k]] # Free
    BY <1>3 DEF EntriesLive
  <2>4. \A k \in DOMAIN entries : heap'[entries[k]] = heap[entries[k]]
    BY <1>3, <2>1, <2>3 DEF EntriesLive, Heap
  <2>5. entries \in Seq(Addr)
    BY <1>3 DEF EntriesLive
  <2>6. Images' = Append(Images, f.image)
    BY <2>1, <2>2, <2>4, <2>5, GrownImages
  <2>7. A!Enroll(f.image)
    BY <1>2, <2>6 DEF A!Enroll
  <2> QED BY <1>6, <2>7 DEF A!Next
<1>10. ASSUME NEW a \in Addr, EP!RankReplace(f, a)
       PROVE  [A!Next]_(A!vars)
  <2>1. /\ opts.qualityEnroll /\ heap[a] = Free
        /\ Keypoints(f.image) > EP!WeakestScore
        /\ Len(entries) >= MAX_TEMPLATE_ENTRIES
        /\ heap' = [[heap EXCEPT ![entries[EP!WeakestIndex(scores)]] = Free]
                       EXCEPT ![a] = f.image]
        /\ entries' = [entries EXCEPT ![EP!WeakestIndex(scores)] = a]
    BY <1>10 DEF EP!RankReplace, EP!Ranked, EP!Admit, EP!AllocInfo, EP!FreeInfo
  <2>2. /\ entries \in Seq(Addr) /\ heap \in Heap
        /\ \A k \in DOMAIN entries : entries[k] \in Addr /\ heap[entries[k]] # Free
        /\ \A j, k \in DOMAIN entries : j # k => entries[j] # entries[k]
    BY <1>3 DEF EntriesLive
  <2>3. scores \in Seq(Nat) /\ DOMAIN scores = DOMAIN entries
    BY <1>1, <1>3 DEF EP!Sound, EP!TypeInv, EP!TypeOK
  <2>4. scores # <<>>
    <3>1. Len(entries) >= 1
      BY <2>1, <2>2, OptionsAssumption
    <3> QED BY <2>2, <2>3, <3>1
  <2> PICK w : w = EP!WeakestIndex(scores)
    OBVIOUS
  <2>5. w \in DOMAIN scores
    BY <2>3, <2>4, EP!WeakestIndexProperty, EnrollmentAssumptions
  <2>6. Keypoints(f.image) > scores[w]
    BY <2>1, <2>4 DEF EP!WeakestScore
  <2>7. scores[w] = Keypoints(Images[w])
    BY <1>1, <1>3, <2>1, <2>3, <2>5 DEF EP!CoreInv, EP!RankInv, EP!Quality, Images
  <2>8. /\ heap' = [[heap EXCEPT ![entries[w]] = Free] EXCEPT ![a] = f.image]
        /\ entries' = [entries EXCEPT ![w] = a]
    BY <2>1
  <2>9. w \in DOMAIN entries /\ entries[w] \in Addr
    BY <2>2, <2>3, <2>5
  <2>a. \A b \in Addr : heap'[b] = IF b = a THEN f.image
                                  ELSE IF b = entries[w] THEN Free ELSE heap[b]
    BY <2>2, <2>8, <2>9 DEF Heap
  <2>b. heap'[a] = f.image
    BY <2>a
  <2>c. \A j \in DOMAIN entries : j # w => entries[j] # a /\ entries[j] # entries[w]
    BY <2>1, <2>2, <2>9
  <2>d. ASSUME NEW j \in DOMAIN entries, j # w
        PROVE  heap'[entries[j]] = heap[entries[j]]
    <3>1. entries[j] \in Addr /\ entries[j] # a /\ entries[j] # entries[w]
      BY <2>2, <2>c, <2>d
    <3> QED BY <2>a, <3>1
  <2>10. Images' = [Images EXCEPT ![w] = f.image]
    <3>1. entries \in Seq(Addr) /\ w \in DOMAIN entries /\ entries' = [entries EXCEPT ![w] = a]
      BY <2>2, <2>8, <2>9
    <3>2. \A j \in DOMAIN entries : j # w => heap'[entries[j]] = heap[entries[j]]
      BY <2>d
    <3>3. Images' = [Images EXCEPT ![w] = heap'[a]]
      BY <3>1, <3>2, ChangedImages
    <3> QED BY <2>b, <3>3
  <2>11. w \in DOMAIN Images
    BY <2>3, <2>5 DEF Images
  <2>12. A!Upgrade(w, f.image)
    BY <1>2, <2>6, <2>7, <2>10 DEF A!Upgrade
  <2> QED BY <1>6, <2>11, <2>12 DEF A!Next
<1> QED BY <1>5, <1>7, <1>8, <1>9, <1>10

LEMMA LenientStepRefines ==
    ASSUME BatchInv, EP!EnrollEnd \/ EP!LenientStep \/ EP!Report, UNCHANGED verifyOnly
    PROVE  [A!Next]_(A!vars)
<1>1. EP!Next /\ phase \in Building
  BY DEF EP!Next, EP!EnrollEnd, EP!LenientStep, EP!Report, EP!LenientAdd,
         EP!LenientIgnored, EP!LenientSkip, EP!NextDeferred, Building
<1>2. /\ Stage = "building"
      /\ Stage' = IF phase' = "done" THEN "gone" ELSE "building"
      /\ (~opts.templateStudy \/ study.locked)' = (~opts.templateStudy \/ study.locked)
      /\ LearnThreshold' = LearnThreshold
  BY <1>1, BuildingFrame
<1>3. EP!Sound /\ EntriesLive
  BY <1>1, BuildingLive DEF BatchInv, EnrollInv
<1>4. ASSUME Images' = Images, phase' # "done" PROVE [A!Next]_(A!vars)
  BY <1>2, <1>4 DEF A!vars
<1>5. /\ entries \in Seq(Addr) /\ heap \in Heap /\ deferred \in Seq(Addr)
      /\ \A k \in DOMAIN entries : entries[k] \in Addr /\ heap[entries[k]] # Free
      /\ \A k \in DOMAIN deferred : heap[deferred[k]] # Free
      /\ \A j \in DOMAIN entries, k \in DOMAIN deferred : entries[j] # deferred[k]
  BY <1>3 DEF EntriesLive, EP!Sound, EP!TypeInv, EP!TypeOK, EP!PointersSound
<1>6. CASE EP!EnrollEnd
  <2>1. heap' = heap /\ entries' = entries /\ phase' # "done"
    BY <1>6 DEF EP!EnrollEnd
  <2> QED BY <1>4, <2>1, SameImages
<1>7. CASE EP!LenientStep
  <2>1. deferred # <<>> /\ phase = "lenient" /\ phase' = phase
    BY <1>7 DEF EP!LenientStep, EP!LenientAdd, EP!LenientIgnored, EP!LenientSkip,
                EP!NextDeferred
  <2> PICK a : a = Head(deferred)
    OBVIOUS
  <2>2. 1 \in DOMAIN deferred /\ a = deferred[1]
    BY <1>5, <2>1
  <2>3. a \in Addr /\ heap[a] # Free /\ \A k \in DOMAIN entries : entries[k] # a
    BY <1>5, <2>2
  <2>4. CASE EP!LenientAdd
    <3>1. entries' = Append(entries, a) /\ heap' = heap
      BY <2>4 DEF EP!LenientAdd, EP!Store
    <3>2. \A k \in DOMAIN entries : heap'[entries[k]] = heap[entries[k]]
      BY <3>1
    <3>3. Images' = Append(Images, heap[a])
      BY <1>5, <2>3, <3>1, <3>2, GrownImages
    <3>4. heap[a] \in Image
      BY <1>5, <2>3 DEF Heap
    <3>5. A!Enroll(heap[a])
      BY <1>2, <2>1, <3>3 DEF A!Enroll
    <3> QED BY <3>4, <3>5 DEF A!Next
  <2>5. CASE EP!LenientIgnored
    <3>1. heap' = heap /\ entries' = entries
      BY <2>5 DEF EP!LenientIgnored
    <3> QED BY <1>4, <2>1, <3>1, SameImages
  <2>6. CASE EP!LenientSkip
    <3>1. heap' = [heap EXCEPT ![a] = Free] /\ entries' = entries
      BY <2>6 DEF EP!LenientSkip, EP!FreeInfo
    <3>2. \A k \in DOMAIN entries : heap'[entries[k]] = heap[entries[k]]
      BY <1>5, <2>3, <3>1 DEF Heap
    <3> QED BY <1>4, <2>1, <3>1, <3>2, SameImages
  <2> QED BY <1>7, <2>4, <2>5, <2>6 DEF EP!LenientStep
<1>8. CASE EP!Report
  <2>1. heap' = heap /\ entries' = entries
    BY <1>8 DEF EP!Report
  <2>2. Images' = Images
    BY <2>1, SameImages
  <2>3. CASE phase' # "done"
    BY <1>4, <2>2, <2>3
  <2>4. CASE phase' = "done"
    <3>1. entries = <<>>
      BY <1>8, <2>4 DEF EP!Report
    <3>2. Images = <<>>
      BY <1>3, <3>1, LiveImages
    <3>3. A!Discard
      BY <1>2, <2>2, <2>4, <3>2 DEF A!Discard
    <3> QED BY <3>3 DEF A!Next
  <2> QED BY <2>3, <2>4
<1> QED BY <1>6, <1>7, <1>8

\* A template whose entries are some of the old ones, each once and unharmed,
\* is a curated one.
LEMMA Curated ==
    ASSUME EntriesLive, Stage = "building", Stage' = "building",
           (~opts.templateStudy \/ study.locked)' = (~opts.templateStudy \/ study.locked),
           LearnThreshold' = LearnThreshold,
           NEW n \in 0 .. Len(entries), NEW from \in [1 .. n -> 1 .. Len(entries)],
           \A j, k \in 1 .. n : j # k => from[j] # from[k],
           entries' = [k \in 1 .. n |-> entries[from[k]]],
           \A k \in 1 .. n : heap'[entries[from[k]]] = heap[entries[from[k]]]
    PROVE  A!Next
<1>1. DOMAIN entries = 1 .. Len(entries) /\ Len(entries) \in Nat
  BY DEF EntriesLive
<1>2. Images = [k \in 1 .. Len(entries) |-> heap[entries[k]]]
  BY <1>1 DEF Images
<1>3. DOMAIN Images = 1 .. Len(entries) /\ Len(Images) = Len(entries)
  BY <1>1, <1>2
<1>4. Images' = [k \in 1 .. n |-> heap'[entries'[k]]]
  BY DEF Images
<1>5. \A k \in 1 .. n : heap'[entries'[k]] = Images[from[k]]
  BY <1>2
<1>6. Images' = [k \in 1 .. n |-> Images[from[k]]]
  BY <1>4, <1>5
<1>7. n \in 0 .. Len(Images) /\ from \in [1 .. n -> DOMAIN Images]
  BY <1>3
<1>8. A!Curate
  BY <1>6, <1>7 DEF A!Curate
<1> QED BY <1>8 DEF A!Next

LEMMA SortStepRefines ==
    ASSUME BatchInv, EP!SortStep, UNCHANGED verifyOnly
    PROVE  [A!Next]_(A!vars)
<1>1. EP!Next /\ phase \in {"sort", "exchange"} /\ phase' \in Building
  BY DEF EP!Next, EP!SortStep, EP!SortSkip, EP!SortScore, EP!SortExchange,
         EP!SortTruncate, Building
<1>2. /\ Stage = "building" /\ Stage' = "building"
      /\ (~opts.templateStudy \/ study.locked)' = (~opts.templateStudy \/ study.locked)
      /\ LearnThreshold' = LearnThreshold
  BY <1>1, BuildingFrame DEF Building
<1>3. EP!Sound /\ EntriesLive
  BY <1>1, BuildingLive DEF BatchInv, EnrollInv, Building
<1>4. ASSUME entries' = entries, heap' = heap PROVE [A!Next]_(A!vars)
  <2>1. Images' = Images
    BY <1>4, SameImages
  <2> QED BY <1>2, <2>1 DEF A!vars
<1>5. entries \in Seq(Addr) /\ DOMAIN entries = 1 .. Len(entries) /\ Len(entries) \in Nat
  BY <1>3 DEF EntriesLive
<1>6. phase = "exchange" => EP!SortCursor
  BY <1>3 DEF EP!Sound, EP!TypeInv, EP!Control
<1>c. cursor \in Nat \X Nat
  BY <1>3 DEF EP!Sound, EP!TypeInv, EP!TypeOK
<1>7. CASE EP!SortSkip \/ EP!SortScore
  BY <1>4, <1>7 DEF EP!SortSkip, EP!SortScore
<1>8. CASE EP!SortExchange
  <2> PICK j, k : j = cursor[1] /\ k = cursor[2]
    OBVIOUS
  <2>1. phase = "exchange" /\ j < Len(entries) /\ heap' = heap
    BY <1>8 DEF EP!SortExchange
  <2>2. j \in 1 .. Len(entries) /\ k \in 1 .. Len(entries) /\ j # k
    BY <1>5, <1>6, <1>c, <2>1 DEF EP!SortCursor
  <2>3. entries' = entries \/ entries' = EP!Swap(entries, j, k)
    BY <1>8 DEF EP!SortExchange
  <2>4. CASE entries' = EP!Swap(entries, j, k)
    <3> DEFINE from == [n \in 1 .. Len(entries) |-> IF n = j THEN k ELSE IF n = k THEN j ELSE n]
    <3>1. from \in [1 .. Len(entries) -> 1 .. Len(entries)]
      BY <2>2
    <3>2. \A m, n \in 1 .. Len(entries) : m # n => from[m] # from[n]
      BY <2>2
    <3>3. \A n \in 1 .. Len(entries) : from[n] = IF n = j THEN k ELSE IF n = k THEN j ELSE n
      OBVIOUS
    <3> HIDE DEF from
    <3>4. entries' = [entries EXCEPT ![j] = entries[k], ![k] = entries[j]]
      BY <2>4 DEF EP!Swap
    <3>5. entries' = [n \in 1 .. Len(entries) |-> entries[from[n]]]
      BY <1>5, <2>2, <3>3, <3>4
    <3>6. \A n \in 1 .. Len(entries) : heap'[entries[from[n]]] = heap[entries[from[n]]]
      BY <2>1
    <3>7. Len(entries) \in 0 .. Len(entries)
      BY <1>5
    <3>8. A!Next
      BY <1>2, <1>3, <3>1, <3>2, <3>5, <3>6, <3>7, Curated
    <3> QED BY <3>8
  <2> QED BY <1>4, <2>1, <2>3, <2>4
<1>9. CASE EP!SortTruncate
  <2> PICK m : m = opts.maxSubtemplates
    OBVIOUS
  <2>1. phase = "exchange"
    BY <1>9 DEF EP!SortTruncate
  <2>2. m \in Nat /\ m < Len(entries)
    BY <1>6, <2>1, OptionsAssumption DEF BatchInv, WellFormedOptions, EP!SortCursor
  <2>3. entries' = [n \in 1 .. m |-> entries[n]]
    BY <1>9 DEF EP!SortTruncate, EP!Keep
  <2>4. heap' = [a \in Addr |-> IF a \in EP!Excess THEN Free ELSE heap[a]]
    BY <1>9 DEF EP!SortTruncate
  <2>5. \A n \in 1 .. m : entries[n] \in Addr /\ entries[n] \notin EP!Excess
    BY <1>3, <1>5, <2>2 DEF EP!Excess, EntriesLive
  <2> DEFINE from == [n \in 1 .. m |-> n]
  <2>6. from \in [1 .. m -> 1 .. Len(entries)]
    BY <1>5, <2>2
  <2>7. \A n \in 1 .. m : from[n] = n
    OBVIOUS
  <2> HIDE DEF from
  <2>8. \A n, l \in 1 .. m : n # l => from[n] # from[l]
    BY <2>7
  <2>9. entries' = [n \in 1 .. m |-> entries[from[n]]]
    BY <2>3, <2>7
  <2>10. \A n \in 1 .. m : heap'[entries[from[n]]] = heap[entries[from[n]]]
    BY <2>4, <2>5, <2>7
  <2>11. m \in 0 .. Len(entries)
    BY <1>5, <2>2
  <2>12. A!Next
    BY <1>2, <1>3, <2>6, <2>8, <2>9, <2>10, <2>11, Curated
  <2> QED BY <2>12
<1> QED BY <1>7, <1>8, <1>9 DEF EP!SortStep

LEMMA PruneStepRefines ==
    ASSUME BatchInv, EP!PruneStep, UNCHANGED verifyOnly
    PROVE  [A!Next]_(A!vars)
<1>1. EP!Next /\ phase = "prune" /\ phase' \in Building
  BY DEF EP!Next, EP!PruneStep, EP!PruneOne, EP!PruneEnd, Building
<1>2. /\ Stage = "building" /\ Stage' = "building"
      /\ (~opts.templateStudy \/ study.locked)' = (~opts.templateStudy \/ study.locked)
      /\ LearnThreshold' = LearnThreshold
  BY <1>1, BuildingFrame DEF Building
<1>3. EP!Sound /\ EntriesLive
  BY <1>1, BuildingLive DEF BatchInv, EnrollInv, Building
<1>4. entries \in Seq(Addr) /\ DOMAIN entries = 1 .. Len(entries) /\ Len(entries) \in Nat
  BY <1>3 DEF EntriesLive
<1>5. CASE EP!PruneEnd
  <2>1. entries' = entries /\ heap' = heap
    BY <1>5 DEF EP!PruneEnd
  <2>2. Images' = Images
    BY <2>1, SameImages
  <2> QED BY <1>2, <2>2 DEF A!vars
<1>6. CASE EP!PruneOne
  <2> PICK r : r = EP!RedundantIndex(EP!Images)
    OBVIOUS
  <2>1. EP!PruneNeeded
    BY <1>6 DEF EP!PruneOne
  <2>2. r \in 1 .. Len(entries) /\ Len(entries) >= 2
    BY <1>3, <2>1, EP!PrunedIndex, EnrollmentAssumptions DEF EP!Sound
  <2>3. heap' = [heap EXCEPT ![entries[r]] = Free] /\ entries' = EP!Without(entries, r)
    BY <1>6 DEF EP!PruneOne, EP!FreeInfo
  <2> PICK m : m = Len(entries) - 1
    OBVIOUS
  <2>4. m \in 0 .. Len(entries)
    BY <1>4, <2>2
  <2> DEFINE from == [n \in 1 .. m |-> IF n < r THEN n ELSE n + 1]
  <2>5. from \in [1 .. m -> 1 .. Len(entries)]
    BY <1>4, <2>2
  <2>6. \A n \in 1 .. m : from[n] = (IF n < r THEN n ELSE n + 1)
    OBVIOUS
  <2> HIDE DEF from
  <2>7. \A n, l \in 1 .. m : n # l => from[n] # from[l]
    BY <2>2, <2>4, <2>6
  <2>8. entries' = [n \in 1 .. m |-> entries[from[n]]]
    BY <2>3, <2>6 DEF EP!Without
  <2>9. \A n \in 1 .. m : from[n] \in DOMAIN entries /\ from[n] # r
    BY <1>4, <2>2, <2>4, <2>5, <2>6
  <2>10. \A n \in 1 .. m : entries[from[n]] \in Addr /\ entries[from[n]] # entries[r]
    BY <1>3, <1>4, <2>2, <2>9 DEF EntriesLive
  <2>11. heap \in Heap
    BY <1>3 DEF EntriesLive
  <2>12. \A n \in 1 .. m : heap'[entries[from[n]]] = heap[entries[from[n]]]
    BY <2>3, <2>10, <2>11 DEF Heap
  <2>13. A!Next
    BY <1>2, <1>3, <2>4, <2>5, <2>7, <2>8, <2>12, Curated
  <2> QED BY <2>13
<1> QED BY <1>5, <1>6 DEF EP!PruneStep

LEMMA EnrollStepRefines == BatchInv /\ EnrollStep => [A!Next]_(A!vars)
BY SameNext, FrameStepRefines, LenientStepRefines, SortStepRefines, PruneStepRefines
   DEF EnrollStep, EP!Next

-----------------------------------------------------------------------------
(* The verification half: what a file may do to the template and to study. *)

FrozenNow == ~opts.templateStudy \/ study.locked

\* study's fields after the steps that change some of them.
LEMMA RecordedShape ==
    ASSUME Shaped(study), NEW f
    PROVE  Shaped(V!Recorded(f)) /\ V!Recorded(f).locked = study.locked
<1>1. CASE opts.studyV2
  <2> PICK h, n : /\ h = [study.hits EXCEPT ![V!BestIndex(V!Images, f.image)] = @ + 1]
                  /\ n = study.totalMatches + 1
    OBVIOUS
  <2>1. V!Recorded(f) = [study EXCEPT !.hits = h, !.totalMatches = n]
    BY <1>1 DEF V!Recorded
  <2>2. V!Recorded(f) = [hits |-> h, kps |-> study.kps, totalMatches |-> n,
                         failed |-> study.failed, locked |-> study.locked]
    BY <2>1 DEF Shaped
  <2> QED BY <2>2 DEF Shaped
<1>2. CASE ~opts.studyV2
  BY <1>2 DEF V!Recorded
<1> QED BY <1>1, <1>2

LEMMA FailedShape ==
    ASSUME NEW s, Shaped(s), s.locked \in BOOLEAN
    PROVE  /\ Shaped(V!Failed(s)) /\ V!Failed(s).locked \in BOOLEAN
           /\ s.locked => V!Failed(s).locked
<1> PICK n, b : n = s.failed + 1 /\ b = (s.locked \/ s.failed + 1 > STUDY_MAX_FAILED)
  OBVIOUS
<1>1. b \in BOOLEAN /\ (s.locked => b)
  OBVIOUS
<1>2. V!Failed(s) = [s EXCEPT !.failed = n, !.locked = b]
  BY DEF V!Failed
<1>3. V!Failed(s) = [hits |-> s.hits, kps |-> s.kps, totalMatches |-> s.totalMatches,
                     failed |-> n, locked |-> b]
  BY <1>2 DEF Shaped
<1> QED BY <1>1, <1>3 DEF Shaped

LEMMA RelearntShape ==
    ASSUME NEW s, Shaped(s), NEW k, NEW p
    PROVE  Shaped(V!Relearnt(s, k, p)) /\ V!Relearnt(s, k, p).locked = s.locked
<1> PICK h, q : h = [s.hits EXCEPT ![k] = 0] /\ q = [s.kps EXCEPT ![k] = Keypoints(p)]
  OBVIOUS
<1>1. V!Relearnt(s, k, p) = [s EXCEPT !.hits = h, !.kps = q, !.failed = 0]
  BY DEF V!Relearnt
<1>2. V!Relearnt(s, k, p) = [hits |-> h, kps |-> q, totalMatches |-> s.totalMatches,
                             failed |-> 0, locked |-> s.locked]
  BY <1>1 DEF Shaped
<1> QED BY <1>2 DEF Shaped

\* The step leaves the template alone, and unlocks nothing.
TemplateKept ==
    /\ heap' = heap /\ entries' = entries
    /\ Shaped(study') /\ study'.locked \in BOOLEAN
    /\ study.locked => study'.locked
    /\ ~opts.studyV2 => study' = study

\* The step teaches the template a probe that was recognised.
TemplateTaught(f) ==
    /\ ~FrozenNow
    /\ V!Best(f) >= opts.scoreThreshold /\ V!Best(f) >= opts.studyThreshold
    /\ V!Best(f) >= 0
    /\ \E k \in DOMAIN entries, b \in Addr : V!Replace(k, b, f.image)
    /\ Shaped(study') /\ study'.locked = study.locked

LEMMA FileStepKinds ==
    ASSUME StudyInv, V!FileStep, opts.templateStudy \in BOOLEAN
    PROVE  /\ phase = "verify" /\ phase' = "verify" /\ opts' = opts
           /\ TemplateKept \/ \E f \in Frame : TemplateTaught(f)
<1>1. phase = "verify" /\ phase' = "verify" /\ opts' = opts
  BY DEF V!FileStep, V!ReadError, V!GateFlat, V!GateUnextracted, V!GateFewKeypoints,
         V!Gate, V!MatchError, V!Reject, V!AcceptOnly, V!V1Idle, V!V1Refuse, V!V2Idle,
         V!V2TooEarly, V!V2Refuse, V!V1Replace, V!V2Replace, V!StudyV1, V!StudyV2,
         V!V2Open, V!Accept, V!Probe, V!NextFile
<1>2. Shaped(study) /\ study.locked \in BOOLEAN
  BY DEF StudyInv
<1>3. PICK f \in Frame :
        \/ V!ReadError(f) \/ V!GateFlat(f) \/ V!GateUnextracted(f)
        \/ V!GateFewKeypoints(f) \/ V!MatchError(f) \/ V!Reject(f)
        \/ V!AcceptOnly(f) \/ V!V1Idle(f) \/ V!V1Refuse(f)
        \/ V!V2Idle(f) \/ V!V2TooEarly(f) \/ V!V2Refuse(f)
        \/ \E b \in Addr : V!V1Replace(f, b) \/ V!V2Replace(f, b)
  BY DEF V!FileStep
<1>4. CASE \/ V!ReadError(f) \/ V!GateFlat(f) \/ V!GateUnextracted(f)
           \/ V!GateFewKeypoints(f) \/ V!MatchError(f) \/ V!Reject(f)
           \/ V!V1Idle(f) \/ V!V1Refuse(f)
  <2>1. heap' = heap /\ entries' = entries /\ study' = study
    BY <1>4 DEF V!ReadError, V!GateFlat, V!GateUnextracted, V!GateFewKeypoints,
                V!Gate, V!MatchError, V!Reject, V!V1Idle, V!V1Refuse, V!StudyV1,
                V!KeepTemplate
  <2> QED BY <1>1, <1>2, <2>1 DEF TemplateKept
<1>5. CASE V!AcceptOnly(f) \/ V!V2Idle(f)
  <2>1. heap' = heap /\ entries' = entries /\ study' = V!Recorded(f)
    BY <1>5 DEF V!AcceptOnly, V!V2Idle, V!KeepTemplate
  <2>2. ~opts.studyV2 => study' = study
    BY <2>1 DEF V!Recorded
  <2>3. Shaped(study') /\ study'.locked = study.locked
    BY <1>2, <2>1, RecordedShape
  <2> QED BY <1>1, <1>2, <2>1, <2>2, <2>3 DEF TemplateKept
<1>6. CASE V!V2TooEarly(f) \/ V!V2Refuse(f)
  <2>1. /\ heap' = heap /\ entries' = entries /\ study' = V!Failed(V!Recorded(f))
        /\ opts.studyV2
    BY <1>6 DEF V!V2TooEarly, V!V2Refuse, V!KeepTemplate, V!V2Open, V!StudyV2
  <2> PICK s : s = V!Recorded(f)
    OBVIOUS
  <2>2. Shaped(s) /\ s.locked = study.locked
    BY <1>2, RecordedShape
  <2>3. study' = V!Failed(s) /\ s.locked \in BOOLEAN
    BY <1>2, <2>1, <2>2
  <2>4. Shaped(study') /\ study'.locked \in BOOLEAN /\ (s.locked => study'.locked)
    BY <2>2, <2>3, FailedShape
  <2> QED BY <1>1, <2>1, <2>2, <2>4 DEF TemplateKept
<1>7. ASSUME NEW b \in Addr, V!V1Replace(f, b) PROVE TemplateTaught(f)
  <2>1. /\ study' = study /\ ~opts.studyV2 /\ opts.templateStudy
        /\ V!Best(f) >= opts.scoreThreshold /\ V!Best(f) >= opts.studyThreshold
        /\ V!Best(f) >= 0
    BY <1>7 DEF V!V1Replace, V!StudyV1, V!StudyDue, V!Accept
  <2>2. \E k \in DOMAIN entries : V!Replace(k, b, f.image)
    BY <1>7 DEF V!V1Replace
  <2>3. ~FrozenNow
    BY <2>1 DEF StudyInv, FrozenNow
  <2> QED BY <1>2, <2>1, <2>2, <2>3 DEF TemplateTaught
<1>8. ASSUME NEW b \in Addr, V!V2Replace(f, b) PROVE TemplateTaught(f)
  <2>1. /\ ~study.locked /\ opts.templateStudy
        /\ V!Best(f) >= opts.scoreThreshold /\ V!Best(f) >= opts.studyThreshold
        /\ V!Best(f) >= 0
    BY <1>8 DEF V!V2Replace, V!V2Open, V!StudyV2, V!StudyDue, V!Accept
  <2>2. PICK k \in DOMAIN entries :
          V!Replace(k, b, f.image) /\ study' = V!Relearnt(V!Recorded(f), k, f.image)
    BY <1>8 DEF V!V2Replace
  <2> PICK s : s = V!Recorded(f)
    OBVIOUS
  <2>3. Shaped(s) /\ s.locked = study.locked
    BY <1>2, RecordedShape
  <2>4. study' = V!Relearnt(s, k, f.image)
    BY <2>2
  <2>5. Shaped(study') /\ study'.locked = s.locked
    BY <2>3, <2>4, RelearntShape
  <2>6. ~FrozenNow
    BY <2>1 DEF FrozenNow
  <2> QED BY <2>1, <2>2, <2>3, <2>5, <2>6 DEF TemplateTaught
<1> QED BY <1>1, <1>3, <1>4, <1>5, <1>6, <1>7, <1>8

\* study gives the entry's slot to a copy of the probe, and its block back.
LEMMA ReplaceServed ==
    ASSUME Served, opts' = opts, NEW k \in DOMAIN entries, NEW b \in Addr, NEW p \in Image,
           V!Replace(k, b, p)
    PROVE  Served' /\ Images' = [Images EXCEPT ![k] = p]
<1>1. /\ heap \in Heap /\ entries \in Seq(Addr) /\ entries # <<>>
      /\ \A j \in DOMAIN entries : entries[j] \in Addr /\ heap[entries[j]] # Free
      /\ \A j, l \in DOMAIN entries : j # l => entries[j] # entries[l]
      /\ FewFiles => NothingElseLive
  BY DEF Served, EntriesLive
<1>2. /\ heap[b] = Free \/ b = entries[k]
      /\ heap' = [[heap EXCEPT ![entries[k]] = Free] EXCEPT ![b] = p]
      /\ entries' = [entries EXCEPT ![k] = b]
  BY DEF V!Replace, V!AllocInfo, V!FreeInfo
<1>3. p # Free /\ entries[k] \in Addr
  BY <1>1, SigfmAssumption
<1>4. \A c \in Addr : heap'[c] = IF c = b THEN p ELSE IF c = entries[k] THEN Free ELSE heap[c]
  BY <1>1, <1>2, <1>3 DEF Heap
<1>5. heap' \in Heap
  BY <1>1, <1>2 DEF Heap
<1>6. /\ entries' \in Seq(Addr) /\ DOMAIN entries' = DOMAIN entries
      /\ \A j \in DOMAIN entries : entries'[j] = IF j = k THEN b ELSE entries[j]
  BY <1>1, <1>2
<1>7. \A j \in DOMAIN entries : j # k => entries[j] # b /\ entries[j] # entries[k]
  BY <1>1, <1>2
<1>8. ASSUME NEW j \in DOMAIN entries, j # k PROVE heap'[entries[j]] = heap[entries[j]]
  <2>1. entries[j] \in Addr /\ entries[j] # b /\ entries[j] # entries[k]
    BY <1>1, <1>7, <1>8
  <2> QED BY <1>4, <2>1
<1>9. heap'[b] = p
  BY <1>4
<1>10. EntriesLive'
  <2>1. \A j, l \in DOMAIN entries' : j # l => entries'[j] # entries'[l]
    BY <1>1, <1>6, <1>7
  <2>2. ASSUME NEW j \in DOMAIN entries PROVE heap'[entries'[j]] # Free
    <3>1. CASE j = k
      BY <1>3, <1>6, <1>9, <3>1
    <3>2. CASE j # k
      BY <1>1, <1>6, <1>8, <3>2
    <3> QED BY <3>1, <3>2
  <2> QED BY <1>5, <1>6, <2>1, <2>2 DEF EntriesLive
<1>11. ASSUME FewFiles' PROVE NothingElseLive'
  <2>1. NothingElseLive
    BY <1>1, <1>11 DEF FewFiles
  <2>2. ASSUME NEW c \in Addr, heap'[c] # Free
        PROVE  \E j \in DOMAIN entries' : entries'[j] = c
    <3>1. CASE c = b
      BY <1>6, <3>1
    <3>2. CASE c # b
      <4>1. heap[c] # Free /\ c # entries[k]
        BY <1>4, <2>2, <3>2
      <4>2. PICK j \in DOMAIN entries : entries[j] = c
        BY <2>1, <4>1 DEF NothingElseLive
      <4> QED BY <1>6, <4>1, <4>2
    <3> QED BY <3>1, <3>2
  <2> QED BY <2>2 DEF NothingElseLive
<1>12. entries' # <<>>
  BY <1>1, <1>6
<1>13. Images' = [Images EXCEPT ![k] = p]
  <2>1. \A j \in DOMAIN entries : j # k => heap'[entries[j]] = heap[entries[j]]
    BY <1>8
  <2>2. entries \in Seq(Addr) /\ entries' = [entries EXCEPT ![k] = b]
    BY <1>1, <1>2
  <2>3. Images' = [Images EXCEPT ![k] = heap'[b]]
    BY <2>1, <2>2, ChangedImages
  <2> QED BY <1>9, <2>3
<1> QED BY <1>10, <1>11, <1>12, <1>13 DEF Served

\* template_free leaves the template empty and, if it owned every block, the
\* heap as well.
LEMMA FreeTemplateFacts ==
    ASSUME Served, V!FreeTemplate
    PROVE  /\ Images' = <<>>
           /\ FewFiles => Allocated(heap)' = {}
<1>1. entries' = <<>>
  BY DEF V!FreeTemplate
<1>2. Images' = <<>>
  BY <1>1 DEF Images
<1>3. ASSUME FewFiles, NEW a \in Addr PROVE heap'[a] = Free
  <2>1. heap'[a] = IF a \in V!Range(entries) THEN Free ELSE heap[a]
    BY DEF V!FreeTemplate
  <2>2. heap[a] # Free => a \in V!Range(entries)
    BY <1>3 DEF Served, NothingElseLive, V!Range
  <2> QED BY <2>1, <2>2
<1> QED BY <1>2, <1>3 DEF Allocated

\* The template that verification works on, from the handover on.
LEMMA VerifyServed ==
    ASSUME BatchInv, phase \in {"enrolled", "verify"}
    PROVE  Served
BY Handed DEF BatchInv

LEMMA VerifyControl ==
    ASSUME V!Next
    PROVE  /\ phase \in {"enrolled", "verify"} /\ phase' \in {"verify", "done"}
           /\ opts' = opts
<1>1. CASE V!Begin
  BY <1>1 DEF V!Begin, V!BeginNothing, V!BeginVerify
<1>2. CASE V!Finish
  BY <1>2 DEF V!Finish
<1>3. CASE V!FileStep
  BY <1>3 DEF V!FileStep, V!ReadError, V!GateFlat, V!GateUnextracted,
      V!GateFewKeypoints, V!Gate, V!MatchError, V!Reject, V!AcceptOnly, V!V1Idle,
      V!V1Refuse, V!V2Idle, V!V2TooEarly, V!V2Refuse, V!V1Replace, V!V2Replace,
      V!StudyV1, V!StudyV2, V!V2Open, V!Accept, V!Probe, V!NextFile
<1> QED BY <1>1, <1>2, <1>3 DEF V!Next

LEMMA VerifyStepInv == BatchInv /\ VerifyStep => BatchInv'
<1> SUFFICES ASSUME BatchInv, V!Next PROVE BatchInv'
  BY DEF VerifyStep
<1>1. /\ phase \in {"enrolled", "verify"} /\ phase' \in {"verify", "done"}
      /\ opts' = opts
  BY VerifyControl
<1>2. Served
  BY <1>1, VerifyServed
<1>3. EnrollInv' /\ opts' \in OptionSets
  BY <1>1 DEF EnrollInv, Building, BatchInv
<1>4. StudyInv
  BY DEF BatchInv
<1>5. CASE V!BeginNothing \/ V!Finish
  <2>1. V!FreeTemplate /\ study' = study /\ phase' = "done"
    BY <1>5 DEF V!BeginNothing, V!Finish
  <2>2. FewFiles' => Allocated(heap)' = {}
    BY <1>1, <1>2, <2>1, FreeTemplateFacts DEF FewFiles
  <2>3. StudyInv'
    BY <1>1, <1>4, <2>1 DEF StudyInv, Shaped, Building
  <2> QED BY <1>3, <2>1, <2>2, <2>3 DEF BatchInv
<1>6. CASE V!BeginVerify
  <2>1. /\ heap' = heap /\ entries' = entries /\ phase' = "verify"
        /\ study' = V!FreshStudy \/ study' = V!UnusedStudy
    BY <1>6 DEF V!BeginVerify
  <2>2. Served'
    BY <1>1, <1>2, <2>1 DEF Served, EntriesLive, NothingElseLive, FewFiles
  <2>3. Shaped(study') /\ study'.locked = FALSE
    BY <2>1 DEF V!FreshStudy, V!UnusedStudy, Shaped
  <2>4. StudyInv'
    BY <2>3 DEF StudyInv, Shaped
  <2> QED BY <1>3, <2>1, <2>2, <2>4 DEF BatchInv
<1>7. CASE V!FileStep
  <2>1. opts.templateStudy \in BOOLEAN
    BY OptionsAssumption DEF BatchInv, WellFormedOptions
  <2>2. /\ phase' = "verify"
        /\ TemplateKept \/ \E f \in Frame : TemplateTaught(f)
    BY <1>4, <1>7, <2>1, FileStepKinds
  <2>3. CASE TemplateKept
    <3>1. Served'
      BY <1>1, <1>2, <2>3 DEF TemplateKept, Served, EntriesLive, NothingElseLive, FewFiles
    <3>2. StudyInv'
      BY <1>1, <1>4, <2>2, <2>3 DEF TemplateKept, StudyInv, Shaped, Building
    <3> QED BY <1>3, <2>2, <3>1, <3>2 DEF BatchInv
  <2>4. ASSUME NEW f \in Frame, TemplateTaught(f) PROVE BatchInv'
    <3>1. f.image \in Image
      BY OptionsAssumption DEF WellFormedFrame
    <3>2. Served'
      BY <1>1, <1>2, <2>4, <3>1, ReplaceServed DEF TemplateTaught
    <3>3. StudyInv'
      BY <1>1, <1>4, <2>2, <2>4 DEF TemplateTaught, StudyInv, Shaped, Building
    <3> QED BY <1>3, <2>2, <3>2, <3>3 DEF BatchInv
  <2> QED BY <2>2, <2>3, <2>4
<1> QED BY <1>5, <1>6, <1>7 DEF V!Next, V!Begin

LEMMA NextInv == BatchInv /\ [Next]_vars => BatchInv'
<1> SUFFICES ASSUME BatchInv, UNCHANGED vars PROVE BatchInv'
  BY EnrollStepInv, VerifyStepInv DEF Next
<1>1. UNCHANGED EP!vars /\ UNCHANGED <<phase, opts, heap, entries, study>>
  BY DEF vars, EP!vars
<1>2. EnrollInv'
  <2> SUFFICES ASSUME phase \in Building
               PROVE  EP!Sound' /\ EP!LeakInv' /\ EP!CoreInv'
    BY <1>1 DEF EnrollInv
  <2>1. EP!Sound /\ EP!LeakInv /\ EP!CoreInv
    BY DEF BatchInv, EnrollInv
  <2>2. EP!Sound'
    BY <1>1, <2>1, EP!NextSound, EnrollmentAssumptions
  <2>3. EP!LeakInv'
    BY <1>1, <2>1, EP!NextLeak, EnrollmentAssumptions
  <2> QED BY <1>1, <2>1, <2>2, <2>3, EP!NextCore, EnrollmentAssumptions
<1> QED
  BY <1>1, <1>2 DEF BatchInv, Served, EntriesLive, NothingElseLive, FewFiles,
                    Allocated, StudyInv, Shaped

LEMMA AlwaysInv == Spec => []BatchInv
<1>1. Init => BatchInv
  BY BatchInit
<1> QED BY <1>1, NextInv, PTL DEF Spec

-----------------------------------------------------------------------------
(* Verification against AdaptiveTemplate.                                  *)

\* A probe that reaches both thresholds was recognised by an entry.
LEMMA BestRecognises ==
    ASSUME opts \in OptionSets, EntriesLive, NEW f \in Frame, V!Best(f) >= 0,
           V!Best(f) >= opts.scoreThreshold, V!Best(f) >= opts.studyThreshold
    PROVE  A!Recognised(f.image)
<1> PICK t, p, s : t = Images /\ p = f.image /\ s = V!Best(f)
  OBVIOUS
<1>1. t \in Seq(Image) /\ p \in Image
  BY LiveImages, OptionsAssumption DEF WellFormedFrame
<1>2. s = EP!BestScore(t, p)
  BY DEF V!Best, V!BestScore, EP!BestScore, V!Images, Images, V!Max, EP!Max
<1>3. /\ EP!BestScore(t, p) \in Int
      /\ EP!BestScore(t, p) # -1 =>
            \E k \in DOMAIN t : MatchScore(t[k], p) = EP!BestScore(t, p)
  BY <1>1, EP!BestScoreProperty, EnrollmentAssumptions
<1>4. PICK k \in DOMAIN t : MatchScore(t[k], p) = s /\ s \in Int
  BY <1>2, <1>3
<1>5. opts.scoreThreshold \in Int /\ opts.studyThreshold \in Int
  BY OptionsAssumption DEF WellFormedOptions
<1>6. MatchScore(t[k], p) >= LearnThreshold
  BY <1>4, <1>5 DEF LearnThreshold
<1> QED BY <1>6 DEF A!Recognised

LEMMA VerifyStepRefines == BatchInv /\ VerifyStep => [A!Next]_(A!vars)
<1> SUFFICES ASSUME BatchInv, V!Next PROVE [A!Next]_(A!vars)
  BY DEF VerifyStep
<1>1. /\ phase \in {"enrolled", "verify"} /\ phase' \in {"verify", "done"}
      /\ opts' = opts
  BY VerifyControl
<1>2. Served /\ StudyInv /\ opts \in OptionSets
  BY <1>1, VerifyServed DEF BatchInv
<1>3. LearnThreshold' = LearnThreshold
  BY <1>1 DEF LearnThreshold
<1>4. CASE V!BeginNothing \/ V!Finish
  <2>1. V!FreeTemplate /\ study' = study /\ phase' = "done"
    BY <1>4 DEF V!BeginNothing, V!Finish
  <2>2. Images' = <<>>
    BY <1>2, <2>1, FreeTemplateFacts
  <2>3. Stage # "gone" /\ Stage' = "gone"
    BY <1>1, <2>1 DEF Stage
  <2>4. A!Discard
    BY <1>1, <1>3, <2>1, <2>2, <2>3 DEF A!Discard
  <2> QED BY <2>4 DEF A!Next
<1>5. CASE V!BeginVerify
  <2>1. /\ heap' = heap /\ entries' = entries /\ phase = "enrolled" /\ phase' = "verify"
        /\ study' = V!FreshStudy \/ study' = V!UnusedStudy
    BY <1>5 DEF V!BeginVerify
  <2>2. study.locked = FALSE /\ study'.locked = FALSE
    BY <1>2, <2>1 DEF StudyInv, Building, V!FreshStudy, V!UnusedStudy
  <2>3. Images' = Images
    BY <2>1, SameImages
  <2>4. Images # <<>>
    BY <1>2, LiveImages DEF Served
  <2>5. Stage = "building" /\ Stage' = "serving"
    BY <2>1 DEF Stage
  <2>6. A!Serve
    BY <1>1, <1>3, <2>2, <2>3, <2>4, <2>5 DEF A!Serve
  <2> QED BY <2>6 DEF A!Next
<1>6. CASE V!FileStep
  <2>1. opts.templateStudy \in BOOLEAN
    BY <1>2, OptionsAssumption DEF WellFormedOptions
  <2>2. /\ phase = "verify" /\ phase' = "verify"
        /\ TemplateKept \/ \E f \in Frame : TemplateTaught(f)
    BY <1>2, <1>6, <2>1, FileStepKinds
  <2>3. Stage = "serving" /\ Stage' = "serving"
    BY <2>2 DEF Stage
  <2>4. CASE TemplateKept
    <3>1. Images' = Images
      BY <2>4, SameImages DEF TemplateKept
    <3>2. study.locked \in BOOLEAN /\ study'.locked \in BOOLEAN
          /\ (study.locked => study'.locked)
      BY <1>2, <2>4 DEF StudyInv, TemplateKept
    <3>3. CASE FrozenNow' = FrozenNow
      BY <1>3, <2>3, <3>1, <3>3 DEF A!vars, FrozenNow
    <3>4. CASE FrozenNow' # FrozenNow
      <4>1. FrozenNow' = TRUE
        BY <1>1, <2>1, <3>2, <3>4 DEF FrozenNow
      <4>2. A!Freeze
        BY <1>3, <2>3, <3>1, <4>1 DEF A!Freeze, FrozenNow
      <4> QED BY <4>2 DEF A!Next
    <3> QED BY <3>3, <3>4
  <2>5. ASSUME NEW f \in Frame, TemplateTaught(f) PROVE A!Next
    <3>1. PICK k \in DOMAIN entries, b \in Addr : V!Replace(k, b, f.image)
      BY <2>5 DEF TemplateTaught
    <3>2. f.image \in Image
      BY OptionsAssumption DEF WellFormedFrame
    <3>3. Images' = [Images EXCEPT ![k] = f.image]
      BY <1>1, <1>2, <3>1, <3>2, ReplaceServed
    <3>4. A!Recognised(f.image)
      BY <1>2, <2>5, BestRecognises DEF TemplateTaught, Served
    <3>5. study'.locked = study.locked
      BY <2>5 DEF TemplateTaught
    <3>6. ~(~opts.templateStudy \/ study.locked)
      BY <2>5 DEF TemplateTaught, FrozenNow
    <3>7. A!Absorb(k, f.image)
      BY <1>1, <1>3, <2>3, <3>3, <3>4, <3>5, <3>6 DEF A!Absorb
    <3>8. k \in DOMAIN Images
      BY DEF Images
    <3> QED BY <3>2, <3>7, <3>8 DEF A!Next
  <2> QED BY <2>2, <2>4, <2>5
<1> QED BY <1>4, <1>5, <1>6 DEF V!Next, V!Begin

LEMMA StutterRefines == UNCHANGED vars => UNCHANGED A!vars
<1> SUFFICES ASSUME UNCHANGED vars PROVE UNCHANGED A!vars
  OBVIOUS
<1>1. UNCHANGED <<phase, opts, heap, entries, study>>
  BY DEF vars
<1>2. Images' = Images /\ Stage' = Stage /\ LearnThreshold' = LearnThreshold
  BY <1>1 DEF Images, Stage, LearnThreshold
<1> QED BY <1>1, <1>2 DEF A!vars

LEMMA NextRefines == BatchInv /\ [Next]_vars => [A!Next]_(A!vars)
BY EnrollStepRefines, VerifyStepRefines, StutterRefines DEF Next

-----------------------------------------------------------------------------
\* sigfm-batch frees every SigfmImgInfo before it returns from main, on every
\* path, as long as the files cannot outnumber the template's slots: nothing
\* enrolled, nothing to verify, or the end of the verification loop.
THEOREM SigfmBatchNothingLeaked == Spec => []NothingLeaked
<1>1. BatchInv => NothingLeaked
  BY DEF BatchInv, NothingLeaked, FewFiles
<1> QED BY <1>1, AlwaysInv, PTL

\* The program implements AdaptiveTemplate: with its pointers, gates, ranking,
\* sorting, pruning and the two study algorithms hidden, every step builds,
\* serves, teaches or discards the template, or leaves it alone.
THEOREM SigfmBatchImplements == Spec => Implements
<1>1. Init => A!Init
  BY BatchInit
<1> QED BY <1>1, AlwaysInv, NextRefines, PTL DEF Spec, Implements, A!Spec

-----------------------------------------------------------------------------
(* Verification on its own starts from "any template enrollment could      *)
(* leave".  What enrollment does leave is one of those.                    *)

HandInv == phase \in Building =>
    /\ V!LocalInit /\ exitCode = -1
    /\ FewFiles => Len(entries) <= MAX_TEMPLATE_ENTRIES

LEMMA InitHand == Init => HandInv
<1> SUFFICES ASSUME Init PROVE HandInv
  OBVIOUS
<1>1. V!LocalInit /\ exitCode = -1 /\ entries = <<>>
  BY DEF Init, E!Init
<1>2. Len(entries) <= MAX_TEMPLATE_ENTRIES
  BY <1>1, OptionsAssumption
<1> QED BY <1>1, <1>2 DEF HandInv

LEMMA FewEntries ==
    ASSUME BatchInv, HandInv, EP!Next, FewFiles
    PROVE  Len(entries') <= MAX_TEMPLATE_ENTRIES
<1>1. /\ phase \in Building /\ opts' = opts
      /\ phase' \in Building \/ entries' = entries
  BY EnrollControl
<1>2. EP!Sound /\ EP!LeakInv /\ EP!CoreInv /\ EntriesLive
  BY <1>1, BuildingLive DEF BatchInv, EnrollInv
<1>3. Len(entries) <= MAX_TEMPLATE_ENTRIES
  BY <1>1 DEF HandInv
<1>4. /\ Len(entries) \in Nat /\ MAX_TEMPLATE_ENTRIES \in Nat /\ entries \in Seq(Addr)
      /\ DOMAIN entries = 1 .. Len(entries)
  BY <1>2, OptionsAssumption DEF EntriesLive
<1>5. EP!Sound' /\ EP!LeakInv'
  BY <1>2, EP!NextSound, EP!NextLeak, EnrollmentAssumptions
<1>6. CASE EP!FrameStep \/ EP!LenientStep
  <2>1. phase' \in {"enroll", "lenient"}
    BY <1>6 DEF EP!FrameStep, EP!RejectUnread, EP!RejectFlat, EP!RejectUnextracted,
      EP!RejectFewKeypoints, EP!Defer, EP!AddPlain, EP!AddIgnored, EP!RankFill,
      EP!RankSkip, EP!RankAppend, EP!RankReplace, EP!Ranked, EP!Admit, EP!NextFrame,
      EP!LenientStep, EP!LenientAdd, EP!LenientIgnored, EP!LenientSkip, EP!NextDeferred
  <2>2. Len(entries') + Len(deferred') <= i' /\ i' <= opts'.nEnroll
    BY <1>5, <2>1 DEF EP!LeakInv, EP!Counted, EP!Sound, EP!TypeInv, EP!Control
  <2>3. Len(entries') \in Nat /\ Len(deferred') \in Nat /\ i' \in Nat /\ opts.nEnroll \in Nat
    BY <1>1, <1>5, OptionsAssumption
       DEF EP!Sound, EP!TypeInv, EP!TypeOK, BatchInv, WellFormedOptions
  <2>4. opts'.nEnroll <= MAX_TEMPLATE_ENTRIES
    BY <1>1 DEF FewFiles
  <2> QED BY <1>1, <1>4, <2>2, <2>3, <2>4
<1>7. CASE EP!EnrollEnd \/ EP!Report \/ EP!SortSkip \/ EP!SortScore \/ EP!PruneEnd
  <2>1. entries' = entries
    BY <1>7 DEF EP!EnrollEnd, EP!Report, EP!SortSkip, EP!SortScore, EP!PruneEnd
  <2> QED BY <1>3, <2>1
<1>8. CASE EP!SortExchange
  <2>1. \/ entries' = entries
        \/ \E j, k : entries' = [entries EXCEPT ![j] = entries[k], ![k] = entries[j]]
    BY <1>8 DEF EP!SortExchange, EP!Swap
  <2>2. DOMAIN entries' = DOMAIN entries
    BY <1>4, <2>1
  <2>3. entries' \in Seq(Addr)
    BY <1>5 DEF EP!Sound, EP!TypeInv, EP!TypeOK
  <2>4. Len(entries') = Len(entries)
    BY <1>4, <2>2, <2>3
  <2> QED BY <1>3, <2>4
<1>9. CASE EP!SortTruncate
  <2> PICK m : m = opts.maxSubtemplates
    OBVIOUS
  <2>1. EP!SortCursor
    BY <1>2, <1>9 DEF EP!SortTruncate, EP!Sound, EP!TypeInv, EP!Control
  <2>2. m \in Nat /\ m < Len(entries)
    BY <2>1, OptionsAssumption DEF BatchInv, WellFormedOptions, EP!SortCursor
  <2>3. entries' = [n \in 1 .. m |-> entries[n]]
    BY <1>9 DEF EP!SortTruncate, EP!Keep
  <2>4. Len(entries') = m
    BY <2>2, <2>3
  <2> QED BY <1>3, <1>4, <2>2, <2>4
<1>10. CASE EP!PruneOne
  <2> PICK r : r = EP!RedundantIndex(EP!Images)
    OBVIOUS
  <2>1. Len(entries) >= 2
    BY <1>2, <1>10, EP!PrunedIndex, EnrollmentAssumptions DEF EP!Sound, EP!PruneOne
  <2>2. entries' = [k \in 1 .. Len(entries) - 1 |->
                       IF k < r THEN entries[k] ELSE entries[k + 1]]
    BY <1>10 DEF EP!PruneOne, EP!Without
  <2>3. Len(entries') = Len(entries) - 1
    BY <1>4, <2>1, <2>2
  <2> QED BY <1>3, <1>4, <2>3
<1> QED BY <1>6, <1>7, <1>8, <1>9, <1>10 DEF EP!Next, EP!SortStep, EP!PruneStep

LEMMA HandStep == BatchInv /\ HandInv /\ [Next]_vars => HandInv'
<1> SUFFICES ASSUME BatchInv, HandInv, [Next]_vars PROVE HandInv'
  OBVIOUS
<1>1. CASE EnrollStep
  <2>1. EP!Next /\ UNCHANGED verifyOnly
    BY <1>1, SameNext DEF EnrollStep
  <2>2. phase \in Building /\ opts' = opts
    BY <2>1, EnrollControl
  <2>3. phase' \in Building => exitCode' = exitCode
    BY <2>1 DEF EP!Next, EP!FrameStep, EP!RejectUnread, EP!RejectFlat, EP!RejectUnextracted,
      EP!RejectFewKeypoints, EP!Defer, EP!AddPlain, EP!AddIgnored, EP!RankFill,
      EP!RankSkip, EP!RankAppend, EP!RankReplace, EP!Ranked, EP!Admit, EP!NextFrame,
      EP!LenientStep, EP!LenientAdd, EP!LenientIgnored, EP!LenientSkip, EP!NextDeferred,
      EP!EnrollEnd, EP!Report, EP!SortStep, EP!SortSkip, EP!SortScore, EP!SortExchange,
      EP!SortTruncate, EP!PruneStep, EP!PruneOne, EP!PruneEnd, Building
  <2>4. V!LocalInit'
    BY <2>1, <2>2 DEF HandInv, verifyOnly, V!LocalInit, V!EmptyTally, V!UnusedStudy,
                      V!EmptyRows
  <2>5. FewFiles' => Len(entries') <= MAX_TEMPLATE_ENTRIES
    BY <2>1, <2>2, FewEntries DEF FewFiles
  <2> QED BY <2>2, <2>3, <2>4, <2>5 DEF HandInv
<1>2. CASE VerifyStep
  BY <1>2, VerifyControl DEF VerifyStep, HandInv, Building
<1>3. CASE UNCHANGED vars
  BY <1>3 DEF vars, HandInv, FewFiles, V!LocalInit, V!EmptyTally, V!UnusedStudy, V!EmptyRows
<1> QED BY <1>1, <1>2, <1>3 DEF Next

\* Verification!Init, but for the scores, which verification only writes.
HandedOver ==
    phase = "enrolled" /\ FewFiles =>
        /\ opts \in OptionSets /\ heap \in Heap
        /\ entries \in UNION {[1 .. n -> Addr] : n \in 1 .. MAX_TEMPLATE_ENTRIES}
        /\ V!Handover
        /\ exitCode = -1
        /\ V!LocalInit

\* Enrollment and verification fit together: the state in which the loop over
\* the verification files is reached is one of the initial states from which
\* the theorems about Verification start.
THEOREM SigfmBatchHandover == Spec => []HandedOver
<1>1. Init => HandInv
  BY InitHand
<1>2. BatchInv /\ HandInv => HandedOver
  <2> SUFFICES ASSUME BatchInv, HandInv, phase = "enrolled", FewFiles
               PROVE  /\ opts \in OptionSets /\ heap \in Heap
                      /\ entries \in UNION {[1 .. n -> Addr] : n \in 1 .. MAX_TEMPLATE_ENTRIES}
                      /\ V!Handover /\ exitCode = -1 /\ V!LocalInit
    BY DEF HandedOver
  <2>1. Served
    BY Handed DEF BatchInv
  <2>2. phase \in Building
    BY DEF Building
  <2>3. /\ V!LocalInit /\ exitCode = -1
        /\ Len(entries) <= MAX_TEMPLATE_ENTRIES
    BY <2>2 DEF HandInv
  <2>4. /\ entries \in Seq(Addr) /\ entries # <<>> /\ heap \in Heap
        /\ \A j, k \in DOMAIN entries : j # k => entries[j] # entries[k]
        /\ \A k \in DOMAIN entries : entries[k] \in Addr /\ heap[entries[k]] # Free
        /\ \A a \in Addr : heap[a] # Free => \E k \in DOMAIN entries : entries[k] = a
    BY <2>1 DEF Served, EntriesLive, NothingElseLive
  <2>5. Len(entries) \in 1 .. MAX_TEMPLATE_ENTRIES /\ entries \in [1 .. Len(entries) -> Addr]
    <3>1. Len(entries) \in Nat /\ Len(entries) # 0
      BY <2>4, EmptySeq
    <3> QED BY <2>3, <2>4, <3>1, OptionsAssumption
  <2>6. V!IsInjective(entries)
    BY <2>4 DEF V!IsInjective
  <2>7. V!Range(entries) = V!Allocated(heap)
    BY <2>4 DEF V!Range, V!Allocated
  <2>8. V!Handover
    BY <2>4, <2>6, <2>7 DEF V!Handover
  <2> QED BY <2>3, <2>4, <2>5, <2>8 DEF BatchInv
<1> QED BY <1>1, <1>2, HandStep, AlwaysInv, PTL DEF Spec

-----------------------------------------------------------------------------
\* What the abstraction is good for: while files are verified, a template that
\* must not learn - study is off, or v2 has locked itself - never changes, and
\* stays that way.
THEOREM SigfmBatchFrozenKept ==
    Spec => [][Stage = "serving" /\ Stage' = "serving" /\ FrozenNow =>
                 Images' = Images /\ FrozenNow']_vars
<1>1. [A!Next]_(A!vars) =>
        (Stage = "serving" /\ Stage' = "serving" /\ FrozenNow =>
           Images' = Images /\ FrozenNow')
  BY DEF A!Next, A!vars, A!Enroll, A!Upgrade, A!Absorb, A!Curate, A!Serve, A!Freeze,
         A!Discard, FrozenNow
<1> QED BY <1>1, AlwaysInv, NextRefines, PTL DEF Spec
-----------------------------------------------------------------------------
(* Every step brings the end nearer.                                       *)

Advances == Place' > Place \/ (Place' = Place /\ LeftShrinks)

\* Within a loop the outer part of what is left shrinks ...
LEMMA OuterShrinks ==
    ASSUME Place' = Place, NEW m \in Nat, NEW n \in Nat, m < n,
           Left' = <<m, 0>>, Left = <<n, 0>>
    PROVE  Advances
  BY DEF Advances, LeftShrinks

LEMMA FrameAdvances ==
    ASSUME EP!Sound, EP!FrameStep
    PROVE  Advances
<1>1. /\ phase = "enroll" /\ phase' = "enroll" /\ opts' = opts
      /\ i < opts.nEnroll /\ i' = i + 1
  BY DEF EP!FrameStep, EP!RejectUnread, EP!RejectFlat, EP!RejectUnextracted,
      EP!RejectFewKeypoints, EP!Defer, EP!AddPlain, EP!AddIgnored, EP!RankFill,
      EP!RankSkip, EP!RankAppend, EP!RankReplace, EP!Ranked, EP!Admit, EP!NextFrame
<1>2. i \in Nat /\ opts \in OptionSets
  BY DEF EP!Sound, EP!TypeInv, EP!TypeOK
<1>3. opts.nEnroll \in Nat
  BY <1>2, OptionsAssumption DEF WellFormedOptions
<1>4. /\ opts.nEnroll - (i + 1) \in Nat /\ opts.nEnroll - i \in Nat
      /\ opts.nEnroll - (i + 1) < opts.nEnroll - i
  BY <1>1, <1>2, <1>3
<1>5. /\ Place' = Place /\ Left = <<opts.nEnroll - i, 0>>
      /\ Left' = <<opts.nEnroll - (i + 1), 0>>
  BY <1>1 DEF Place, Left
<1> QED BY <1>4, <1>5, OuterShrinks

LEMMA LenientAdvances ==
    ASSUME EP!Sound, EP!LenientStep
    PROVE  Advances
<1>1. /\ phase = "lenient" /\ phase' = "lenient"
      /\ deferred # <<>> /\ deferred' = Tail(deferred)
  BY DEF EP!LenientStep, EP!LenientAdd, EP!LenientIgnored, EP!LenientSkip, EP!NextDeferred
<1>2. deferred \in Seq(Addr)
  BY DEF EP!Sound, EP!TypeInv, EP!TypeOK
<1>3. /\ Len(deferred') \in Nat /\ Len(deferred) \in Nat
      /\ Len(deferred') < Len(deferred)
  BY <1>1, <1>2
<1>4. Place' = Place /\ Left = <<Len(deferred), 0>> /\ Left' = <<Len(deferred'), 0>>
  BY <1>1 DEF Place, Left
<1> QED BY <1>3, <1>4, OuterShrinks

\* ... in the exchange sort, one of its two indices moves on.
LEMMA ExchangeAdvances ==
    ASSUME EP!Sound, EP!SortExchange
    PROVE  Advances
<1> DEFINE j == cursor[1]
           k == cursor[2]
           n == Len(entries)
<1>1. /\ phase = "exchange" /\ phase' = "exchange" /\ j < n
      /\ cursor' = IF k < n THEN <<j, k + 1>> ELSE <<j + 1, j + 2>>
      /\ \/ entries' = entries
         \/ entries' = [entries EXCEPT ![j] = entries[k], ![k] = entries[j]]
  BY DEF EP!SortExchange, EP!NextCursor, EP!Swap
<1>2. EP!SortCursor /\ entries \in Seq(Addr)
  BY <1>1 DEF EP!Sound, EP!TypeInv, EP!TypeOK, EP!Control
<1>3. n \in Nat /\ j \in 1 .. n /\ k > j /\ k <= n /\ k \in Nat
  BY <1>1, <1>2 DEF EP!SortCursor, EP!Sound, EP!TypeInv, EP!TypeOK
<1>4. Len(entries') = n
  <2>1. DOMAIN entries' = DOMAIN entries
    BY <1>1
  <2>2. entries' \in Seq(Addr)
    BY EP!NextSound, EnrollmentAssumptions
       DEF EP!Next, EP!SortStep, EP!Sound, EP!TypeInv, EP!TypeOK
  <2> QED BY <1>2, <2>1, <2>2
<1>5. /\ Place' = Place
      /\ Left = <<n - j, n + 1 - k>>
      /\ Left' = <<n - cursor'[1], n + 1 - cursor'[2]>>
  BY <1>1, <1>4 DEF Place, Left
<1>6. CASE k < n
  BY <1>1, <1>3, <1>5, <1>6 DEF Advances, LeftShrinks
<1>7. CASE ~(k < n)
  BY <1>1, <1>3, <1>5, <1>7 DEF Advances, LeftShrinks
<1> QED BY <1>6, <1>7

LEMMA PruneAdvances ==
    ASSUME EP!Sound, EP!PruneOne
    PROVE  Advances
<1> PICK r : r = EP!RedundantIndex(EP!Images)
  OBVIOUS
<1>1. Len(entries) >= 2 /\ entries \in Seq(Addr)
  BY EP!PrunedIndex, EnrollmentAssumptions DEF EP!Sound, EP!PruneOne, EP!TypeInv, EP!TypeOK
<1>2. entries' = [k \in 1 .. Len(entries) - 1 |->
                     IF k < r THEN entries[k] ELSE entries[k + 1]]
  BY DEF EP!PruneOne, EP!Without
<1>3. /\ Len(entries') = Len(entries) - 1
      /\ Len(entries') \in Nat /\ Len(entries) \in Nat /\ Len(entries') < Len(entries)
  BY <1>1, <1>2
<1>4. Place' = Place /\ Left = <<Len(entries), 0>> /\ Left' = <<Len(entries'), 0>>
  BY DEF EP!PruneOne, Place, Left
<1> QED BY <1>3, <1>4, OuterShrinks

LEMMA EnrollAdvances ==
    ASSUME EP!Sound, EP!Next
    PROVE  Advances
<1>1. CASE EP!EnrollEnd \/ EP!Report \/ EP!SortSkip \/ EP!SortScore \/ EP!SortTruncate
             \/ EP!PruneEnd
  BY <1>1 DEF EP!EnrollEnd, EP!Report, EP!SortSkip, EP!SortScore, EP!SortTruncate,
              EP!PruneEnd, Place, Advances
<1> QED BY <1>1, FrameAdvances, LenientAdvances, ExchangeAdvances, PruneAdvances
        DEF EP!Next, EP!SortStep, EP!PruneStep

\* Files verified are counted from 0, one by one.
FilesInv == phase = "verify" => v \in Nat

LEMMA FileMoves ==
    ASSUME V!FileStep
    PROVE  /\ phase = "verify" /\ phase' = "verify" /\ opts' = opts
           /\ v < opts.nVerify /\ v' = v + 1
  BY DEF V!FileStep, V!ReadError, V!GateFlat, V!GateUnextracted,
      V!GateFewKeypoints, V!Gate, V!MatchError, V!Reject, V!AcceptOnly, V!V1Idle,
      V!V1Refuse, V!V2Idle, V!V2TooEarly, V!V2Refuse, V!V1Replace, V!V2Replace,
      V!StudyV1, V!StudyV2, V!V2Open, V!Accept, V!Probe, V!NextFile

LEMMA FilesStep == BatchInv /\ HandInv /\ FilesInv /\ [Next]_vars => FilesInv'
<1> SUFFICES ASSUME BatchInv, HandInv, FilesInv, [Next]_vars PROVE FilesInv'
  OBVIOUS
<1>1. CASE EnrollStep
  BY <1>1, SameNext, EnrollControl DEF EnrollStep, FilesInv, Building
<1>2. CASE V!Begin
  BY <1>2 DEF V!Begin, V!BeginNothing, V!BeginVerify, FilesInv, HandInv, V!LocalInit, Building
<1>3. CASE V!FileStep
  BY <1>3, FileMoves DEF FilesInv
<1>4. CASE V!Finish
  BY <1>4 DEF V!Finish, FilesInv
<1>5. CASE UNCHANGED vars
  BY <1>5 DEF vars, FilesInv
<1> QED BY <1>1, <1>2, <1>3, <1>4, <1>5 DEF Next, VerifyStep, V!Next

LEMMA NextAdvances ==
    ASSUME BatchInv, FilesInv, Next
    PROVE  Advances
<1>1. CASE EnrollStep
  <2>1. EP!Next /\ EP!Sound
    BY <1>1, SameNext, EnrollControl DEF EnrollStep, BatchInv, EnrollInv
  <2> QED BY <2>1, EnrollAdvances
<1>2. CASE V!Begin \/ V!Finish
  BY <1>2 DEF V!Begin, V!BeginNothing, V!BeginVerify, V!Finish, Place, Advances
<1>3. CASE V!FileStep
  <2>1. /\ phase = "verify" /\ phase' = "verify" /\ opts' = opts
        /\ v < opts.nVerify /\ v' = v + 1
    BY <1>3, FileMoves
  <2>2. v \in Nat /\ opts.nVerify \in Nat
    BY <2>1, OptionsAssumption DEF FilesInv, BatchInv, WellFormedOptions
  <2>3. /\ opts.nVerify - (v + 1) \in Nat /\ opts.nVerify - v \in Nat
        /\ opts.nVerify - (v + 1) < opts.nVerify - v
    BY <2>1, <2>2
  <2>4. /\ Place' = Place /\ Left = <<opts.nVerify - v, 0>>
        /\ Left' = <<opts.nVerify - (v + 1), 0>>
    BY <2>1 DEF Place, Left
  <2> QED BY <2>3, <2>4, OuterShrinks
<1> QED BY <1>1, <1>2, <1>3 DEF Next, VerifyStep, V!Next

\* The nested sort, the prune loop and the two loops over files all end: each
\* step goes on to a later loop or lowers the pair of natural numbers which
\* measures the present one.
THEOREM SigfmBatchAdvances == Spec => BatchAdvances
<1>1. Init => FilesInv
  BY DEF Init, E!Init, FilesInv
<1>2. Spec => []HandInv
  BY InitHand, HandStep, AlwaysInv, PTL DEF Spec
<1>3. Spec => []FilesInv
  BY <1>1, <1>2, FilesStep, AlwaysInv, PTL DEF Spec
<1>4. BatchInv /\ FilesInv /\ [Next]_vars =>
         [Place' > Place \/ (Place' = Place /\ LeftShrinks)]_vars
  BY NextAdvances DEF Advances
<1> QED BY <1>3, <1>4, AlwaysInv, PTL DEF Spec, BatchAdvances
=============================================================================
