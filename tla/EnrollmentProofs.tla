-------------------------- MODULE EnrollmentProofs --------------------------
(***************************************************************************)
(* Theorems about module Enrollment, for every number of files, every mix  *)
(* of options, every matcher and every capacity of the template.           *)
(***************************************************************************)
EXTENDS Enrollment, TemplateProofs, SequenceTheorems

-----------------------------------------------------------------------------
(* What is known of an option record, of a frame, and of a sequence.       *)

LEMMA OptionFacts ==
    ASSUME NEW o \in OptionSets
    PROVE  /\ o.nEnroll \in Nat \ {0}
           /\ o.maxSubtemplates \in Nat \ {0}
           /\ HalfOf(o) \in Nat
           /\ o.progressiveStrict \in Int
           /\ o.csv \in BOOLEAN
<1>1. WellFormedOptions(o)
  BY OptionsAssumption
<1>2. o.maxSubtemplates \in Nat
  BY <1>1 DEF WellFormedOptions
<1>3. o.maxSubtemplates \div 2 \in Nat
  BY <1>2
<1> QED
  BY <1>1, <1>3 DEF WellFormedOptions, HalfOf

LEMMA FrameFacts ==
    ASSUME NEW f \in Frame
    PROVE  f.image \in Image /\ Keypoints(f.image) \in Nat /\ f.image # Free
BY OptionsAssumption, SigfmAssumption DEF WellFormedFrame

\* The sequences that Keep and Without build.
LEMMA KeepProperty ==
    ASSUME NEW S, NEW s \in Seq(S), NEW n \in 0 .. Len(s)
    PROVE  /\ Keep(s, n) \in Seq(S)
           /\ Len(Keep(s, n)) = n
           /\ \A k \in 1 .. n : Keep(s, n)[k] = s[k]
BY DEF Keep

LEMMA WithoutProperty ==
    ASSUME NEW S, NEW s \in Seq(S), s # <<>>, NEW r \in 1 .. Len(s)
    PROVE  /\ Without(s, r) \in Seq(S)
           /\ Len(Without(s, r)) = Len(s) - 1
           /\ \A k \in 1 .. Len(s) - 1 :
                 Without(s, r)[k] = IF k < r THEN s[k] ELSE s[k + 1]
BY DEF Without

\* Exchanging two elements.
LEMMA SwapProperty ==
    ASSUME NEW S, NEW s \in Seq(S), NEW j \in 1 .. Len(s), NEW k \in 1 .. Len(s)
    PROVE  /\ Swap(s, j, k) \in Seq(S)
           /\ Len(Swap(s, j, k)) = Len(s)
           /\ DOMAIN Swap(s, j, k) = 1 .. Len(s)
           /\ \A n \in 1 .. Len(s) : Swap(s, j, k)[n] =
                 IF n = k THEN s[j] ELSE IF n = j THEN s[k] ELSE s[n]
BY DEF Swap

-----------------------------------------------------------------------------
(* Types, and where control can be.  TypeOK is not inductive: the exchange *)
(* sort stays within the arrays only because its two indices do, and those *)
(* only because sorting starts on a template that is too long.             *)

SortCursor ==
    /\ opts.maxSubtemplates < Len(entries)
    /\ cursor[1] \in 1 .. Len(entries)
    /\ cursor[2] > cursor[1]
    /\ cursor[1] < Len(entries) => cursor[2] <= Len(entries)

Control ==
    /\ i <= opts.nEnroll
    /\ phase \notin {"enroll", "lenient"} => deferred = <<>>
    /\ phase \in {"sort", "exchange", "prune", "enrolled"} => entries # <<>>
    /\ phase = "exchange" => SortCursor
    /\ phase \in {"prune", "enrolled"} /\ opts.sort =>
          Len(entries) <= opts.maxSubtemplates
    /\ phase = "enrolled" /\ opts.diversityPrune =>
          Len(entries) <= opts.maxSubtemplates

TypeInv == TypeOK /\ Control

LEMMA InitTypeInv == Init => TypeInv
<1> SUFFICES ASSUME Init
             PROVE  TypeInv
  OBVIOUS
<1>1. opts.nEnroll \in Nat
  BY OptionFacts DEF Init
<1>2. EmptyStats \in Stats
  BY OptionsAssumption DEF EmptyStats, Stats
<1>3. TypeOK
  <2>1. heap \in Heap
    BY DEF Init, Heap
  <2>2. cursor \in Nat \X Nat
    BY DEF Init
  <2>3. /\ entries \in Seq(Addr) /\ scores \in Seq(Nat) /\ deferred \in Seq(Addr)
        /\ DOMAIN scores = DOMAIN entries
    BY DEF Init
  <2> QED
    BY <1>2, <2>1, <2>2, <2>3 DEF Init, TypeOK, Phase
<1> QED
  BY <1>1, <1>3 DEF Init, TypeInv, Control

LEMMA CountKeypointsType ==
    ASSUME NEW s \in Stats, NEW kp \in Nat
    PROVE  CountKeypoints(s, kp) \in Stats
<1>1. Smaller(kp, s.kpMin) \in Nat /\ Larger(s.kpMax, kp) \in Nat /\ s.kpTotal + kp \in Nat
  BY DEF Stats, Larger, Smaller
<1>2. \A x, y, z \in Nat : [s EXCEPT !.kpMin = x, !.kpMax = y, !.kpTotal = z] \in Stats
  BY DEF Stats
<1> QED
  BY <1>1, <1>2 DEF CountKeypoints

LEMMA RejectedType ==
    ASSUME NEW s \in Stats
    PROVE  /\ [s EXCEPT !.rejected = @ + 1] \in Stats
           /\ [s EXCEPT !.rejected = @ + 1, !.stddevRejected = @ + 1] \in Stats
<1>1. s.rejected + 1 \in Nat /\ s.stddevRejected + 1 \in Nat
  BY DEF Stats
<1>2. \A x, y \in Nat : /\ [s EXCEPT !.rejected = x] \in Stats
                        /\ [s EXCEPT !.rejected = x, !.stddevRejected = y] \in Stats
  BY DEF Stats
<1> QED
  BY <1>1, <1>2

\* Steps of the loop over the enrollment files.
LEMMA FrameStepTypeInv == TypeInv /\ PointersSound /\ FrameStep => TypeInv'
<1> SUFFICES ASSUME TypeInv, PointersSound, NEW f \in Frame,
                    \/ RejectUnread(f)
                    \/ RejectFlat(f)
                    \/ RejectUnextracted(f)
                    \/ RejectFewKeypoints(f)
                    \/ \E a \in Addr :
                          \/ Defer(f, a)
                          \/ AddPlain(f, a)
                          \/ AddIgnored(f, a)
                          \/ RankFill(f, a)
                          \/ RankSkip(f, a)
                          \/ RankAppend(f, a)
                          \/ RankReplace(f, a)
             PROVE  TypeInv'
  BY DEF FrameStep
<1> USE DEF TypeInv, TypeOK, Control, NextFrame
<1>o. opts.nEnroll \in Nat
  BY OptionFacts
<1>f. f.image \in Image /\ Keypoints(f.image) \in Nat
  BY FrameFacts
<1>c. CountKeypoints(stats, Keypoints(f.image)) \in Stats
  BY <1>f, CountKeypointsType
<1>r. /\ [stats EXCEPT !.rejected = @ + 1] \in Stats
      /\ [stats EXCEPT !.rejected = @ + 1, !.stddevRejected = @ + 1] \in Stats
      /\ [CountKeypoints(stats, Keypoints(f.image)) EXCEPT !.rejected = @ + 1] \in Stats
  BY <1>c, RejectedType
<1>1. CASE RejectUnread(f)
  BY <1>1, <1>o, <1>r DEF RejectUnread, KeepAll
<1>2. CASE RejectFlat(f)
  BY <1>2, <1>o, <1>r DEF RejectFlat, KeepAll
<1>3. CASE RejectUnextracted(f)
  BY <1>3, <1>o, <1>r DEF RejectUnextracted, KeepAll
<1>4. CASE RejectFewKeypoints(f)
  BY <1>4, <1>o, <1>r DEF RejectFewKeypoints, KeepAll
<1>5. ASSUME NEW a \in Addr, Defer(f, a)
      PROVE  TypeInv'
  BY <1>5, <1>o, <1>f, <1>c DEF Defer, Admit, AllocInfo, Heap
<1>6. ASSUME NEW a \in Addr, AddPlain(f, a)
      PROVE  TypeInv'
  BY <1>6, <1>o, <1>f, <1>c DEF AddPlain, Admit, AllocInfo, Heap, Store
<1>7. ASSUME NEW a \in Addr, AddIgnored(f, a)
      PROVE  TypeInv'
  BY <1>7, <1>o, <1>f, <1>c DEF AddIgnored, Admit, AllocInfo, Heap
<1>8. ASSUME NEW a \in Addr, RankFill(f, a)
      PROVE  TypeInv'
  BY <1>8, <1>o, <1>f, <1>c DEF RankFill, Ranked, Admit, AllocInfo, Heap, Store
<1>9. ASSUME NEW a \in Addr, RankSkip(f, a)
      PROVE  TypeInv'
  BY <1>9, <1>o, <1>f, <1>c DEF RankSkip, Ranked, Admit, Larger
<1>10. ASSUME NEW a \in Addr, RankAppend(f, a)
      PROVE  TypeInv'
  BY <1>10, <1>o, <1>f, <1>c DEF RankAppend, Ranked, Admit, AllocInfo, Heap, Store
<1>11. ASSUME NEW a \in Addr, RankReplace(f, a)
      PROVE  TypeInv'
  <2> DEFINE worst == WeakestIndex(scores)
  <2>1. scores \in Seq(Nat) /\ scores # <<>>
    BY <1>11, OptionsAssumption DEF RankReplace, Ranked, Admit
  <2>2. worst \in DOMAIN scores
    BY <2>1, WeakestIndexProperty
  <2> HIDE DEF worst
  <2>3. heap' \in Heap
    BY <1>11, <1>f DEF RankReplace, AllocInfo, FreeInfo, Heap
  <2>4. entries' \in Seq(Addr) /\ DOMAIN entries' = DOMAIN entries /\ Len(entries') = Len(entries)
    BY <1>11, <2>2, ExceptSeq DEF RankReplace, worst
  <2>5. scores' \in Seq(Nat) /\ DOMAIN scores' = DOMAIN scores
    BY <1>11, <1>f, <2>1, <2>2, ExceptSeq DEF RankReplace, worst
  <2>6. lost' \in Nat
    <3>1. worst \in DOMAIN entries
      BY <2>2
    <3>2. heap[entries[worst]] \in Image
      BY <3>1 DEF PointersSound, Heap
    <3>3. Keypoints(heap[entries[worst]]) \in Nat
      BY <3>2, SigfmAssumption
    <3> QED
      BY <1>11, <3>3 DEF RankReplace, Larger, worst
  <2> QED
    BY <1>11, <1>o, <1>c, <2>3, <2>4, <2>5, <2>6 DEF RankReplace, Ranked, Admit
<1> QED
  BY <1>1, <1>2, <1>3, <1>4, <1>5, <1>6, <1>7, <1>8, <1>9, <1>10, <1>11

\* Steps of the lenient phase, and the two steps around it.
LEMMA LenientStepTypeInv ==
    TypeInv /\ (EnrollEnd \/ LenientStep \/ Report) => TypeInv'
<1> SUFFICES ASSUME TypeInv, EnrollEnd \/ LenientStep \/ Report
             PROVE  TypeInv'
  OBVIOUS
<1> USE DEF TypeInv, TypeOK, Control
<1>1. CASE EnrollEnd
  BY <1>1 DEF EnrollEnd, Phase
<1>2. deferred # <<>> => Head(deferred) \in Addr /\ Tail(deferred) \in Seq(Addr)
  BY HeadTailProperties
<1>3. CASE LenientAdd
  BY <1>2, <1>3 DEF LenientAdd, NextDeferred, Store
<1>4. CASE LenientIgnored
  BY <1>2, <1>4 DEF LenientIgnored, NextDeferred
<1>5. CASE LenientSkip
  BY <1>2, <1>5 DEF LenientSkip, NextDeferred, FreeInfo, Heap
<1>6. CASE Report
  BY <1>6 DEF Report, Phase
<1> QED
  BY <1>1, <1>3, <1>4, <1>5, <1>6 DEF LenientStep

\* Steps of the post-processing.
LEMMA SortStepTypeInv == TypeInv /\ SortStep => TypeInv'
<1> SUFFICES ASSUME TypeInv, SortStep
             PROVE  TypeInv'
  OBVIOUS
<1> USE DEF TypeInv, TypeOK, Control
<1>o. opts.maxSubtemplates \in Nat \ {0} /\ opts.csv \in BOOLEAN
  BY OptionFacts
<1>1. CASE SortSkip
  BY <1>1, <1>o DEF SortSkip, SortNeeded, Phase
<1>2. CASE SortScore
  <2>1. DOMAIN scores' = DOMAIN entries
    BY <1>2 DEF SortScore, CrossAverages, Images
  <2>2. SortCursor'
    BY <1>2, <1>o DEF SortScore, SortCursor, SortNeeded
  <2> QED
    BY <1>2, <2>1, <2>2 DEF SortScore, Phase
<1>3. CASE SortExchange
  <2> DEFINE j == cursor[1]
             k == cursor[2]
  <2>1. SortCursor /\ j < Len(entries)
    BY <1>3 DEF SortExchange
  <2>2. j \in 1 .. Len(entries) /\ k \in 1 .. Len(entries)
    BY <2>1 DEF SortCursor
  <2>3. entries' \in Seq(Addr) /\ Len(entries') = Len(entries)
    BY <1>3, <2>2, SwapProperty DEF SortExchange
  <2>4. DOMAIN scores' = DOMAIN entries'
    BY <1>3, <2>3 DEF SortExchange, Swap
  <2>5. SortCursor' /\ cursor' \in Nat \X Nat
    BY <1>3, <2>1, <2>2, <2>3, <1>o DEF SortExchange, SortCursor, NextCursor
  <2> QED
    BY <1>3, <2>1, <2>3, <2>4, <2>5 DEF SortExchange
<1>4. CASE SortTruncate
  <2>1. opts.maxSubtemplates \in 0 .. Len(entries)
    BY <1>4, <1>o DEF SortTruncate, SortCursor
  <2>2. entries' \in Seq(Addr) /\ Len(entries') = opts.maxSubtemplates
    BY <1>4, <2>1, KeepProperty DEF SortTruncate
  <2>3. DOMAIN scores' = DOMAIN entries'
    BY <1>4 DEF SortTruncate, Keep
  <2>4. heap' \in Heap
    BY <1>4 DEF SortTruncate, Heap
  <2>5. entries' # <<>>
    BY <2>2, <1>o
  <2> QED
    BY <1>4, <1>o, <2>2, <2>3, <2>4, <2>5 DEF SortTruncate, Phase
<1> QED
  BY <1>1, <1>2, <1>3, <1>4 DEF SortStep

LEMMA ImagesType ==
    ASSUME TypeOK, PointersSound
    PROVE  Images \in Seq(Image) /\ Len(Images) = Len(entries)
<1>1. \A k \in DOMAIN entries : heap[entries[k]] \in Image
  BY DEF TypeOK, PointersSound, Heap
<1> QED
  BY <1>1 DEF TypeOK, Images

\* What a pruning step removes is an entry, and it leaves at least one.
LEMMA PrunedIndex ==
    ASSUME TypeInv, PointersSound, PruneNeeded
    PROVE  RedundantIndex(Images) \in 1 .. Len(entries) /\ Len(entries) >= 2
<1>1. Len(entries) >= 2
  BY OptionFacts DEF PruneNeeded, TypeInv, TypeOK
<1> QED
  BY <1>1, ImagesType, RedundantIndexProperty DEF TypeInv

LEMMA PruneStepTypeInv == TypeInv /\ PointersSound /\ PruneStep => TypeInv'
<1> SUFFICES ASSUME TypeInv, PointersSound, PruneStep
             PROVE  TypeInv'
  OBVIOUS
<1> USE DEF TypeInv, TypeOK, Control
<1>1. CASE PruneOne
  <2> DEFINE r == RedundantIndex(Images)
  <2>1. r \in 1 .. Len(entries) /\ Len(entries) >= 2
    BY <1>1, PrunedIndex DEF PruneOne
  <2> HIDE DEF r
  <2>2. entries' \in Seq(Addr) /\ Len(entries') = Len(entries) - 1
    BY <1>1, <2>1, WithoutProperty DEF PruneOne, r
  <2>3. DOMAIN scores' = DOMAIN entries'
    <3>1. Len(scores) = Len(entries)
      OBVIOUS
    <3> QED
    BY <1>1, <3>1 DEF PruneOne, Without
  <2>4. heap' \in Heap
    BY <1>1 DEF PruneOne, FreeInfo, Heap
  <2>5. entries' # <<>>
    BY <2>1, <2>2
  <2>6. opts.maxSubtemplates \in Nat
    BY OptionFacts
  <2> QED
    BY <1>1, <2>2, <2>3, <2>4, <2>5, <2>6 DEF PruneOne
<1>2. CASE PruneEnd
  BY <1>2, OptionFacts DEF PruneEnd, PruneNeeded, Phase
<1> QED
  BY <1>1, <1>2 DEF PruneStep

-----------------------------------------------------------------------------
(* Ownership.  PointersSound is inductive together with the types; that    *)
(* nothing leaks needs the number of pointers held to stay below the       *)
(* number of files read, so that template_add never finds the array full.  *)

Counted ==
    phase \in {"enroll", "lenient"} => Len(entries) + Len(deferred) <= i

\* A new block is owned by a new entry.
LEMMA StoreFresh ==
    ASSUME TypeInv, PointersSound, NEW f \in Frame, NEW a \in Addr, heap[a] = Free,
           heap' = AllocInfo(heap, a, f.image),
           entries' = Append(entries, a), deferred' = deferred
    PROVE  PointersSound' /\ (Reachable => Reachable')
<1>1. f.image # Free
  BY FrameFacts
<1>2. \A k \in DOMAIN entries : entries[k] \in Addr /\ entries[k] # a
  BY DEF TypeInv, TypeOK, PointersSound
<1>3. \A k \in DOMAIN deferred : deferred[k] \in Addr /\ deferred[k] # a
  BY DEF TypeInv, TypeOK, PointersSound
<1>4. PointersSound'
  BY <1>1, <1>2, <1>3 DEF TypeInv, TypeOK, PointersSound, AllocInfo, Heap
<1>5. Reachable => Reachable'
  BY DEF TypeInv, TypeOK, Reachable, AllocInfo, Heap
<1> QED
  BY <1>4, <1>5

\* A new block is owned by a new deferred frame.
LEMMA DeferFresh ==
    ASSUME TypeInv, PointersSound, NEW f \in Frame, NEW a \in Addr, heap[a] = Free,
           heap' = AllocInfo(heap, a, f.image),
           deferred' = Append(deferred, a), entries' = entries
    PROVE  PointersSound' /\ (Reachable => Reachable')
<1>1. f.image # Free
  BY FrameFacts
<1>2. \A k \in DOMAIN entries : entries[k] \in Addr /\ entries[k] # a
  BY DEF TypeInv, TypeOK, PointersSound
<1>3. \A k \in DOMAIN deferred : deferred[k] \in Addr /\ deferred[k] # a
  BY DEF TypeInv, TypeOK, PointersSound
<1>4. PointersSound'
  BY <1>1, <1>2, <1>3 DEF TypeInv, TypeOK, PointersSound, AllocInfo, Heap
<1>5. ASSUME Reachable, NEW b \in Addr, heap'[b] # Free
      PROVE  \/ \E k \in DOMAIN entries' : entries'[k] = b
             \/ \E k \in DOMAIN deferred' : deferred'[k] = b
  <2>1. /\ Len(deferred) + 1 \in DOMAIN deferred' /\ deferred'[Len(deferred) + 1] = a
        /\ \A k \in DOMAIN deferred : k \in DOMAIN deferred' /\ deferred'[k] = deferred[k]
    BY DEF TypeInv, TypeOK
  <2>2. b # a => heap[b] # Free
    BY <1>5 DEF TypeInv, TypeOK, AllocInfo, Heap
  <2> QED
    BY <1>5, <2>1, <2>2 DEF Reachable
<1> QED
  BY <1>4, <1>5 DEF Reachable

\* A new block takes over the slot of an entry, whose block is freed.
LEMMA ReplaceFresh ==
    ASSUME TypeInv, PointersSound, NEW f \in Frame, NEW a \in Addr, heap[a] = Free,
           NEW w \in DOMAIN entries,
           heap' = AllocInfo(FreeInfo(heap, entries[w]), a, f.image),
           entries' = [entries EXCEPT ![w] = a], deferred' = deferred
    PROVE  PointersSound' /\ (Reachable => Reachable')
<1>1. f.image # Free
  BY FrameFacts
<1>2. \A k \in DOMAIN entries : entries[k] \in Addr /\ entries[k] # a
  BY DEF TypeInv, TypeOK, PointersSound
<1>3. \A k \in DOMAIN deferred : deferred[k] \in Addr /\ deferred[k] # a
  BY DEF TypeInv, TypeOK, PointersSound
<1>4. PointersSound'
  <2>1. \A k \in DOMAIN entries : k # w => entries[k] # entries[w]
    BY DEF PointersSound
  <2>2. \A k \in DOMAIN deferred : deferred[k] # entries[w]
    BY DEF PointersSound
  <2>3. \A b \in Addr : heap'[b] = IF b = a THEN f.image
                                  ELSE IF b = entries[w] THEN Free ELSE heap[b]
    BY DEF TypeInv, TypeOK, AllocInfo, FreeInfo, Heap
  <2>4. /\ DOMAIN entries' = DOMAIN entries
        /\ \A k \in DOMAIN entries : entries'[k] = IF k = w THEN a ELSE entries[k]
    BY DEF TypeInv, TypeOK
  <2> QED
    BY <1>1, <1>2, <1>3, <2>1, <2>2, <2>3, <2>4 DEF PointersSound
<1>5. ASSUME Reachable, NEW b \in Addr, heap'[b] # Free
      PROVE  \/ \E k \in DOMAIN entries' : entries'[k] = b
             \/ \E k \in DOMAIN deferred' : deferred'[k] = b
  <2>1. CASE b = a
    BY <2>1 DEF TypeInv, TypeOK
  <2>2. CASE b # a
    <3>1. heap[b] # Free /\ b # entries[w]
      BY <2>2, <1>5, <1>2 DEF TypeInv, TypeOK, AllocInfo, FreeInfo, Heap
    <3> QED
      BY <3>1, <1>5 DEF Reachable, TypeInv, TypeOK
  <2> QED
    BY <2>1, <2>2
<1> QED
  BY <1>4, <1>5 DEF Reachable

LEMMA FrameStepPointers ==
    TypeInv /\ PointersSound /\ FrameStep => PointersSound'
<1> SUFFICES ASSUME TypeInv, PointersSound, NEW f \in Frame,
                    \/ RejectUnread(f)
                    \/ RejectFlat(f)
                    \/ RejectUnextracted(f)
                    \/ RejectFewKeypoints(f)
                    \/ \E a \in Addr :
                          \/ Defer(f, a)
                          \/ AddPlain(f, a)
                          \/ AddIgnored(f, a)
                          \/ RankFill(f, a)
                          \/ RankSkip(f, a)
                          \/ RankAppend(f, a)
                          \/ RankReplace(f, a)
             PROVE  PointersSound'
  BY DEF FrameStep
<1>1. CASE RejectUnread(f) \/ RejectFlat(f) \/ RejectUnextracted(f) \/ RejectFewKeypoints(f)
  BY <1>1 DEF RejectUnread, RejectFlat, RejectUnextracted, RejectFewKeypoints,
              KeepAll, PointersSound
<1>2. ASSUME NEW a \in Addr, Defer(f, a)
      PROVE  PointersSound'
  BY <1>2, DeferFresh DEF Defer, Admit
<1>3. ASSUME NEW a \in Addr, AddPlain(f, a) \/ RankFill(f, a) \/ RankAppend(f, a)
      PROVE  PointersSound'
  BY <1>3, StoreFresh DEF AddPlain, RankFill, RankAppend, Ranked, Admit, Store
<1>4. ASSUME NEW a \in Addr, AddIgnored(f, a)
      PROVE  PointersSound'
  <2>1. \A b \in Addr : heap[b] # Free => heap'[b] # Free
    BY <1>4, FrameFacts DEF AddIgnored, AllocInfo, TypeInv, TypeOK, Heap
  <2> QED
    BY <1>4, <2>1 DEF AddIgnored, PointersSound, TypeInv, TypeOK
<1>5. ASSUME NEW a \in Addr, RankSkip(f, a)
      PROVE  PointersSound'
  BY <1>5 DEF RankSkip, Ranked, PointersSound
<1>6. ASSUME NEW a \in Addr, RankReplace(f, a)
      PROVE  PointersSound'
  <2>1. scores \in Seq(Nat) /\ scores # <<>> /\ DOMAIN scores = DOMAIN entries
    BY <1>6, OptionsAssumption
       DEF RankReplace, Ranked, Admit, NextFrame, TypeInv, TypeOK
  <2>2. WeakestIndex(scores) \in DOMAIN entries
    BY <2>1, WeakestIndexProperty
  <2> QED
    BY <1>6, <2>2, ReplaceFresh DEF RankReplace, Ranked, Admit
<1> QED
  BY <1>1, <1>2, <1>3, <1>4, <1>5, <1>6

LEMMA LenientStepPointers ==
    TypeInv /\ PointersSound /\ (EnrollEnd \/ LenientStep \/ Report) => PointersSound'
<1> SUFFICES ASSUME TypeInv, PointersSound, EnrollEnd \/ LenientStep \/ Report
             PROVE  PointersSound'
  OBVIOUS
<1>1. CASE EnrollEnd \/ Report
  BY <1>1 DEF EnrollEnd, Report, PointersSound
<1>2. ASSUME NextDeferred
      PROVE  /\ Head(deferred) \in Addr /\ Head(deferred) = deferred[1]
             /\ 1 \in DOMAIN deferred
             /\ \A k \in DOMAIN Tail(deferred) :
                   k + 1 \in DOMAIN deferred /\ Tail(deferred)[k] = deferred[k + 1]
             /\ \A k \in DOMAIN Tail(deferred) : Tail(deferred)[k] # Head(deferred)
  BY <1>2, HeadTailProperties DEF NextDeferred, TypeInv, TypeOK, PointersSound
<1>3. CASE LenientAdd
  <2>1. /\ DOMAIN entries' = 1 .. Len(entries) + 1
        /\ entries'[Len(entries) + 1] = deferred[1]
        /\ \A k \in DOMAIN entries : entries'[k] = entries[k]
        /\ DOMAIN entries = 1 .. Len(entries) /\ Len(entries) \in Nat
    BY <1>2, <1>3 DEF LenientAdd, NextDeferred, Store, TypeInv, TypeOK
  <2>2. \A k \in DOMAIN entries' : k \in DOMAIN entries \/ k = Len(entries) + 1
    BY <2>1
  <2>3. \A k \in DOMAIN entries : entries[k] # deferred[1]
    BY <1>2, <1>3 DEF LenientAdd, PointersSound
  <2>4. \A m, n \in DOMAIN entries' : m # n => entries'[m] # entries'[n]
    BY <2>1, <2>2, <2>3 DEF PointersSound
  <2>5. heap' = heap /\ deferred' = Tail(deferred)
    BY <1>3 DEF LenientAdd, NextDeferred
  <2>6. \A k \in DOMAIN deferred' : /\ k + 1 \in DOMAIN deferred
                                  /\ deferred'[k] = deferred[k + 1]
                                  /\ deferred'[k] # deferred[1]
    BY <1>2, <1>3, <2>5 DEF LenientAdd
  <2>7. \A m, n \in DOMAIN deferred' : m # n => deferred'[m] # deferred'[n]
    <3>1. \A m, n \in DOMAIN deferred' : m # n => m + 1 # n + 1
      BY <2>5, HeadTailProperties, <1>3 DEF TypeInv, TypeOK, LenientAdd, NextDeferred
    <3> QED
      BY <2>6, <3>1 DEF PointersSound
  <2>8. 1 \in DOMAIN deferred
    BY <1>2, <1>3 DEF LenientAdd
  <2> QED
    BY <2>1, <2>2, <2>4, <2>5, <2>6, <2>7, <2>8 DEF PointersSound
<1>4. CASE LenientIgnored
  BY <1>2, <1>4 DEF LenientIgnored, NextDeferred, TypeInv, TypeOK, PointersSound
<1>5. CASE LenientSkip
  <2>1. \A b \in Addr : b # Head(deferred) => heap'[b] = heap[b]
    BY <1>5 DEF LenientSkip, FreeInfo, TypeInv, TypeOK, Heap
  <2>2. entries' = entries /\ deferred' = Tail(deferred)
    BY <1>5 DEF LenientSkip, NextDeferred
  <2>3. \A k \in DOMAIN deferred' : /\ k + 1 \in DOMAIN deferred
                                  /\ deferred'[k] = deferred[k + 1]
                                  /\ deferred'[k] # Head(deferred)
    BY <1>2, <1>5, <2>2 DEF LenientSkip
  <2>4. \A m, n \in DOMAIN deferred' : m # n => deferred'[m] # deferred'[n]
    <3>1. \A m, n \in DOMAIN deferred' : m # n => m + 1 # n + 1
      BY <2>2, HeadTailProperties, <1>5 DEF TypeInv, TypeOK, LenientSkip, NextDeferred
    <3> QED
      BY <2>3, <3>1 DEF PointersSound
  <2>5. 1 \in DOMAIN deferred /\ Head(deferred) = deferred[1]
    BY <1>2, <1>5 DEF LenientSkip
  <2>6. /\ \A k \in DOMAIN entries : entries[k] \in Addr
        /\ \A k \in DOMAIN deferred : deferred[k] \in Addr
    BY DEF TypeInv, TypeOK
  <2> QED
    BY <2>1, <2>2, <2>3, <2>4, <2>5, <2>6 DEF PointersSound
<1> QED
  BY <1>1, <1>3, <1>4, <1>5 DEF LenientStep

LEMMA SortStepPointers == TypeInv /\ PointersSound /\ SortStep => PointersSound'
<1> SUFFICES ASSUME TypeInv, PointersSound, SortStep
             PROVE  PointersSound'
  OBVIOUS
<1>1. CASE SortSkip \/ SortScore
  BY <1>1 DEF SortSkip, SortScore, PointersSound
<1>2. CASE SortExchange
  <2> DEFINE j == cursor[1]
             k == cursor[2]
  <2>1. j \in 1 .. Len(entries) /\ k \in 1 .. Len(entries)
    BY <1>2 DEF SortExchange, TypeInv, TypeOK, Control, SortCursor
  <2>2. entries' = entries \/ entries' = Swap(entries, j, k)
    BY <1>2 DEF SortExchange
  <2> HIDE DEF j, k
  <2>3. /\ DOMAIN Swap(entries, j, k) = 1 .. Len(entries)
        /\ \A n \in 1 .. Len(entries) : Swap(entries, j, k)[n] =
              IF n = k THEN entries[j] ELSE IF n = j THEN entries[k] ELSE entries[n]
    <3>1. entries \in Seq(Addr)
      BY DEF TypeInv, TypeOK
    <3> QED
      BY <2>1, <3>1 DEF Swap
  <2>4. heap' = heap /\ deferred' = deferred
    BY <1>2 DEF SortExchange
  <2>5. DOMAIN entries = 1 .. Len(entries)
    BY DEF TypeInv, TypeOK
  <2>6. CASE entries' = Swap(entries, j, k)
    <3>1. /\ DOMAIN entries' = DOMAIN entries
          /\ \A n \in DOMAIN entries : entries'[n] =
                IF n = k THEN entries[j] ELSE IF n = j THEN entries[k] ELSE entries[n]
      BY <2>3, <2>5, <2>6
    <3> QED
      BY <2>1, <2>4, <2>5, <3>1 DEF PointersSound
  <2> QED
    BY <2>2, <2>4, <2>6 DEF PointersSound
<1>3. CASE SortTruncate
  <2> DEFINE m == opts.maxSubtemplates
  <2>1. m \in 0 .. Len(entries) /\ deferred = <<>>
    BY <1>3, OptionFacts DEF SortTruncate, SortCursor, TypeInv, TypeOK, Control
  <2>2. /\ entries' \in Seq(Addr) /\ Len(entries') = m
        /\ \A k \in 1 .. m : entries'[k] = entries[k]
    BY <1>3, <2>1, KeepProperty DEF SortTruncate, TypeInv, TypeOK
  <2>3. \A k \in 1 .. m : entries[k] \notin Excess
    BY <2>1 DEF Excess, TypeInv, TypeOK, PointersSound
  <2>4. \A k \in 1 .. m : heap'[entries[k]] = heap[entries[k]]
    BY <1>3, <2>1, <2>3 DEF SortTruncate, TypeInv, TypeOK
  <2>5. deferred' = <<>>
    BY <1>3, <2>1 DEF SortTruncate
  <2> HIDE DEF m
  <2> QED
    BY <2>1, <2>2, <2>4, <2>5 DEF TypeInv, TypeOK, PointersSound
<1> QED
  BY <1>1, <1>2, <1>3 DEF SortStep

LEMMA PruneStepPointers == TypeInv /\ PointersSound /\ PruneStep => PointersSound'
<1> SUFFICES ASSUME TypeInv, PointersSound, PruneStep
             PROVE  PointersSound'
  OBVIOUS
<1>1. CASE PruneOne
  <2> DEFINE r == RedundantIndex(Images)
  <2>1. r \in 1 .. Len(entries) /\ Len(entries) >= 2 /\ deferred = <<>>
    BY <1>1, PrunedIndex DEF PruneOne, TypeInv, Control
  <2> HIDE DEF r
  <2>2. /\ entries' \in Seq(Addr) /\ Len(entries') = Len(entries) - 1
        /\ \A k \in 1 .. Len(entries) - 1 :
              entries'[k] = IF k < r THEN entries[k] ELSE entries[k + 1]
    BY <1>1, <2>1, WithoutProperty DEF PruneOne, r, TypeInv, TypeOK
  <2>3. \A b \in Addr : b # entries[r] => heap'[b] = heap[b]
    BY <1>1 DEF PruneOne, r, FreeInfo, TypeInv, TypeOK, Heap
  <2> DEFINE old(k) == IF k < r THEN k ELSE k + 1
  <2>4. /\ DOMAIN entries = 1 .. Len(entries) /\ DOMAIN entries' = 1 .. Len(entries) - 1
        /\ \A k \in DOMAIN entries : entries[k] \in Addr
    BY <2>2 DEF TypeInv, TypeOK
  <2>5. \A k \in DOMAIN entries' : /\ old(k) \in DOMAIN entries
                                 /\ old(k) # r
                                 /\ entries'[k] = entries[old(k)]
    BY <2>1, <2>2, <2>4
  <2>6. \A m, n \in DOMAIN entries' : m # n => old(m) # old(n)
    BY <2>1, <2>4
  <2> HIDE DEF old
  <2>7. r \in DOMAIN entries /\ deferred' = <<>>
    BY <1>1, <2>1, <2>4 DEF PruneOne
  <2>8. \A k \in DOMAIN entries' : heap'[entries'[k]] # Free
    BY <2>3, <2>4, <2>5, <2>7 DEF PointersSound
  <2> QED
    BY <2>5, <2>6, <2>7, <2>8 DEF PointersSound
<1>2. CASE PruneEnd
  BY <1>2 DEF PruneEnd, PointersSound
<1> QED
  BY <1>1, <1>2 DEF PruneStep

-----------------------------------------------------------------------------
(* The theorems.                                                           *)

Sound == TypeInv /\ PointersSound

LEMMA InitSound == Init => Sound
<1>1. Init => PointersSound
  BY DEF Init, PointersSound
<1> QED
  BY <1>1, InitTypeInv DEF Sound

LEMMA NextSound == Sound /\ [Next]_vars => Sound'
<1> SUFFICES ASSUME Sound, [Next]_vars
             PROVE  Sound'
  OBVIOUS
<1> USE DEF Sound
<1>1. CASE FrameStep
  BY <1>1, FrameStepTypeInv, FrameStepPointers
<1>2. CASE EnrollEnd \/ LenientStep \/ Report
  BY <1>2, LenientStepTypeInv, LenientStepPointers
<1>3. CASE SortStep
  BY <1>3, SortStepTypeInv, SortStepPointers
<1>4. CASE PruneStep
  BY <1>4, PruneStepTypeInv, PruneStepPointers
<1>5. CASE UNCHANGED vars
  BY <1>5 DEF vars, TypeInv, TypeOK, Control, SortCursor, PointersSound
<1> QED
  BY <1>1, <1>2, <1>3, <1>4, <1>5 DEF Next

LEMMA AlwaysSound == Spec => []Sound
BY InitSound, NextSound, PTL DEF Spec

\* The variables keep their types, and the two arrays of Template stay
\* equally long, for every capacity, every command line and every image.
THEOREM EnrollmentTypeCorrect == Spec => []TypeOK
<1>1. Sound => TypeOK
  BY DEF Sound, TypeInv
<1> QED
  BY AlwaysSound, <1>1, PTL

\* No pointer in the template or among the deferred frames is ever dangling,
\* and no two of them share a block: sorting, pruning, replacing and the
\* lenient phase cannot free anything twice or use it after it is freed.
THEOREM EnrollmentPointersSound == Spec => []PointersSound
<1>1. Sound => PointersSound
  BY DEF Sound
<1> QED
  BY AlwaysSound, <1>1, PTL

\* Verification starts from a template that is not empty, and no longer than
\* asked for when sorting or pruning is on; no deferred frame is left behind.
THEOREM EnrollmentReadyTemplate == Spec => []ReadyTemplate
<1>1. Sound => ReadyTemplate
  BY DEF Sound, TypeInv, Control, ReadyTemplate
<1> QED
  BY AlwaysSound, <1>1, PTL

-----------------------------------------------------------------------------
(* The bound of the template's arrays.                                     *)

LEMMA NextCapacity ==
    Sound /\ Sound' /\ CapacityRespected /\ [Next]_vars => CapacityRespected'
<1> SUFFICES ASSUME Sound, Sound', CapacityRespected, [Next]_vars,
                    HalfOf(opts') <= MAX_TEMPLATE_ENTRIES
             PROVE  Len(entries') <= MAX_TEMPLATE_ENTRIES
  BY DEF CapacityRespected
<1>1. opts' = opts
  BY DEF Next, FrameStep, LenientStep, SortStep, PruneStep, vars,
         RejectUnread, RejectFlat, RejectUnextracted, RejectFewKeypoints, NextFrame,
         Defer, AddPlain, AddIgnored, RankFill, RankSkip, RankAppend, RankReplace,
         Ranked, Admit, EnrollEnd, LenientAdd, LenientIgnored, LenientSkip,
         NextDeferred, Report, SortSkip, SortScore, SortExchange, SortTruncate,
         PruneOne, PruneEnd
<1>2. HalfOf(opts) \in Nat /\ MAX_TEMPLATE_ENTRIES \in Nat /\ Len(entries) \in Nat
  BY OptionFacts, OptionsAssumption DEF Sound, TypeInv, TypeOK
<1>3. Len(entries) <= MAX_TEMPLATE_ENTRIES
  BY <1>1 DEF CapacityRespected
<1>4. CASE entries' = entries
  BY <1>3, <1>4
<1>5. ASSUME NEW f \in Frame, NEW a \in Addr, AddPlain(f, a) \/ RankFill(f, a) \/ RankAppend(f, a)
      PROVE  Len(entries') <= MAX_TEMPLATE_ENTRIES
  <2>1. Len(entries') = Len(entries) + 1
    BY <1>5 DEF AddPlain, RankFill, RankAppend, Store, Sound, TypeInv, TypeOK
  <2>2. Len(entries) < MAX_TEMPLATE_ENTRIES
    BY <1>1, <1>2, <1>5 DEF AddPlain, RankFill, RankAppend
  <2> QED
    BY <1>2, <2>1, <2>2
<1>6. ASSUME NEW f \in Frame, NEW a \in Addr, RankReplace(f, a)
      PROVE  Len(entries') <= MAX_TEMPLATE_ENTRIES
  BY <1>3, <1>6 DEF RankReplace, Sound, TypeInv, TypeOK
<1>7. CASE LenientAdd
  <2>1. Len(entries') = Len(entries) + 1 /\ Len(entries) < MAX_TEMPLATE_ENTRIES
    BY <1>7 DEF LenientAdd, Store, Sound, TypeInv, TypeOK
  <2> QED
    BY <1>2, <2>1
<1>8. CASE SortExchange
  BY <1>3, <1>8 DEF SortExchange, Swap, Sound, TypeInv, TypeOK
<1>9. CASE SortTruncate
  <2>1. opts.maxSubtemplates \in 0 .. Len(entries)
    BY <1>9, OptionFacts DEF SortTruncate, SortCursor, Sound, TypeInv, TypeOK, Control
  <2>2. Len(entries') = opts.maxSubtemplates
    BY <1>9, <2>1, KeepProperty DEF SortTruncate, Sound, TypeInv, TypeOK
  <2> QED
    BY <1>2, <1>3, <2>1, <2>2
<1>10. CASE PruneOne
  <2>1. Len(entries') = Len(entries) - 1
    <3>1. RedundantIndex(Images) \in 1 .. Len(entries) /\ entries # <<>>
      BY <1>10, PrunedIndex DEF PruneOne, Sound
    <3> QED
      BY <1>10, <3>1, WithoutProperty DEF PruneOne, Sound, TypeInv, TypeOK
  <2> QED
    BY <1>2, <1>3, <2>1
<1> QED
  BY <1>4, <1>5, <1>6, <1>7, <1>8, <1>9, <1>10
     DEF Next, FrameStep, LenientStep, SortStep, PruneStep, vars,
         RejectUnread, RejectFlat, RejectUnextracted, RejectFewKeypoints, KeepAll,
         Defer, AddIgnored, RankSkip, EnrollEnd, LenientIgnored, LenientSkip,
         Report, SortSkip, SortScore, PruneEnd

\* The template never outgrows its arrays if half of max_subtemplates fits,
\* although one of the places that append to it tests no bound at all.
THEOREM EnrollmentCapacity == Spec => []CapacityRespected
<1>1. Init => CapacityRespected
  BY OptionsAssumption DEF Init, CapacityRespected
<1>2. Sound /\ Sound' /\ CapacityRespected /\ [Next]_vars => CapacityRespected'
  BY NextCapacity
<1> QED
  BY <1>1, <1>2, AlwaysSound, PTL DEF Spec

-----------------------------------------------------------------------------
(* Leaks.  Only a full array makes template_add fail, and as long as every *)
(* pointer held stands for a file read it cannot be full too early.        *)

SmallBatch == opts.nEnroll <= MAX_TEMPLATE_ENTRIES

LeakInv == Counted /\ NoLeak

LEMMA FrameStepLeak ==
    ASSUME Sound, LeakInv, NEW f \in Frame,
           \/ RejectUnread(f)
           \/ RejectFlat(f)
           \/ RejectUnextracted(f)
           \/ RejectFewKeypoints(f)
           \/ \E a \in Addr :
                 \/ Defer(f, a)
                 \/ AddPlain(f, a)
                 \/ AddIgnored(f, a)
                 \/ RankFill(f, a)
                 \/ RankSkip(f, a)
                 \/ RankAppend(f, a)
                 \/ RankReplace(f, a)
    PROVE  LeakInv'
<1> USE DEF Sound
<1>l. Len(entries) \in Nat /\ Len(deferred) \in Nat /\ i \in Nat
  BY DEF TypeInv, TypeOK
<1>n. /\ phase = "enroll" /\ phase' = phase /\ opts' = opts /\ i' = i + 1
      /\ Len(entries) + Len(deferred) <= i /\ i < opts.nEnroll
  BY DEF LeakInv, Counted, NextFrame, RejectUnread, RejectFlat, RejectUnextracted,
         RejectFewKeypoints, Defer, AddPlain, AddIgnored, RankFill, RankSkip,
         RankAppend, RankReplace, Ranked, Admit
<1>1. ASSUME UNCHANGED <<heap, entries, deferred>>
      PROVE  LeakInv'
  BY <1>1, <1>l, <1>n DEF LeakInv, Counted, NoLeak, Reachable
<1>2. ASSUME NEW a \in Addr, Defer(f, a)
      PROVE  LeakInv'
  <2>1. Reachable => Reachable'
    BY <1>2, DeferFresh DEF Defer, Admit
  <2>2. Len(deferred') = Len(deferred) + 1 /\ entries' = entries
    BY <1>2 DEF Defer, TypeInv, TypeOK
  <2> QED
    BY <1>l, <1>n, <2>1, <2>2 DEF LeakInv, Counted, NoLeak
<1>3. ASSUME NEW a \in Addr, AddPlain(f, a) \/ RankFill(f, a) \/ RankAppend(f, a)
      PROVE  LeakInv'
  <2>1. Reachable => Reachable'
    BY <1>3, StoreFresh DEF AddPlain, RankFill, RankAppend, Ranked, Admit, Store
  <2>2. Len(entries') = Len(entries) + 1 /\ deferred' = deferred
    BY <1>3 DEF AddPlain, RankFill, RankAppend, Ranked, Store, TypeInv, TypeOK
  <2> QED
    BY <1>l, <1>n, <2>1, <2>2 DEF LeakInv, Counted, NoLeak
<1>4. ASSUME NEW a \in Addr, AddIgnored(f, a)
      PROVE  LeakInv'
  <2>1. ~SmallBatch
    BY <1>4, <1>l, <1>n, OptionFacts, OptionsAssumption
       DEF AddIgnored, SmallBatch, TypeInv, TypeOK
  <2>2. entries' = entries /\ deferred' = deferred
    BY <1>4 DEF AddIgnored
  <2> QED
    BY <1>l, <1>n, <2>1, <2>2 DEF LeakInv, Counted, NoLeak, SmallBatch
<1>5. ASSUME NEW a \in Addr, RankReplace(f, a)
      PROVE  LeakInv'
  <2>1. scores \in Seq(Nat) /\ scores # <<>> /\ DOMAIN scores = DOMAIN entries
    BY <1>5, OptionsAssumption
       DEF RankReplace, Ranked, Admit, NextFrame, TypeInv, TypeOK
  <2>2. WeakestIndex(scores) \in DOMAIN entries
    BY <2>1, WeakestIndexProperty
  <2>3. Reachable => Reachable'
    BY <1>5, <2>2, ReplaceFresh DEF RankReplace, Ranked, Admit
  <2>4. Len(entries') = Len(entries) /\ deferred' = deferred
    BY <1>5 DEF RankReplace, Ranked, TypeInv, TypeOK
  <2> QED
    BY <1>l, <1>n, <2>3, <2>4 DEF LeakInv, Counted, NoLeak
<1> QED
  BY <1>1, <1>2, <1>3, <1>4, <1>5
     DEF RejectUnread, RejectFlat, RejectUnextracted, RejectFewKeypoints, KeepAll,
         RankSkip, Ranked

LEMMA LenientStepLeak ==
    ASSUME Sound, LeakInv, LenientStep
    PROVE  LeakInv'
<1> USE DEF Sound
<1>n. /\ phase = "lenient" /\ phase' = phase /\ opts' = opts /\ i' = i
      /\ deferred # <<>> /\ deferred' = Tail(deferred)
  BY DEF LenientStep, LenientAdd, LenientIgnored, LenientSkip, NextDeferred
<1>l. /\ Len(entries) \in Nat /\ Len(deferred) \in Nat /\ i \in Nat
      /\ Len(deferred) >= 1 /\ Len(deferred') = Len(deferred) - 1
  BY <1>n, HeadTailProperties DEF TypeInv, TypeOK
<1>c. Len(entries) + Len(deferred) <= i
  BY <1>n DEF LeakInv, Counted
<1>d. \A k \in DOMAIN deferred :
         \/ deferred[k] = Head(deferred)
         \/ \E n \in DOMAIN deferred' : deferred'[n] = deferred[k]
  <2> TAKE k \in DOMAIN deferred
  <2>1. CASE k = 1
    BY <1>n, <2>1 DEF TypeInv, TypeOK
  <2>2. CASE k # 1
    <3>1. k - 1 \in DOMAIN deferred' /\ deferred'[k - 1] = deferred[k]
      BY <1>n, <1>l, <2>2, HeadTailProperties DEF TypeInv, TypeOK
    <3> QED
      BY <3>1
  <2> QED
    BY <2>1, <2>2
<1>1. CASE LenientAdd
  <2>1. /\ Len(entries') = Len(entries) + 1
        /\ Len(entries) + 1 \in DOMAIN entries'
        /\ entries'[Len(entries) + 1] = Head(deferred)
        /\ \A k \in DOMAIN entries : k \in DOMAIN entries' /\ entries'[k] = entries[k]
    BY <1>1, <1>n, HeadTailProperties DEF LenientAdd, Store, TypeInv, TypeOK
  <2>2. heap' = heap
    BY <1>1 DEF LenientAdd
  <2>3. Reachable => Reachable'
    BY <1>d, <2>1, <2>2 DEF Reachable
  <2> QED
    BY <1>n, <1>l, <1>c, <2>1, <2>3 DEF LeakInv, Counted, NoLeak
<1>2. CASE LenientIgnored
  <2>1. ~SmallBatch
    BY <1>2, <1>l, <1>c, OptionFacts, OptionsAssumption
       DEF LenientIgnored, SmallBatch, TypeInv, TypeOK, Control
  <2>2. entries' = entries
    BY <1>2 DEF LenientIgnored
  <2> QED
    BY <1>n, <1>l, <1>c, <2>1, <2>2 DEF LeakInv, Counted, NoLeak, SmallBatch
<1>3. CASE LenientSkip
  <2>1. /\ entries' = entries
        /\ \A b \in Addr : heap'[b] = IF b = Head(deferred) THEN Free ELSE heap[b]
    BY <1>3 DEF LenientSkip, FreeInfo, TypeInv, TypeOK, Heap
  <2>2. Reachable => Reachable'
    BY <1>d, <2>1 DEF Reachable
  <2>3. Len(entries') = Len(entries)
    BY <2>1
  <2> QED
    BY <1>n, <1>l, <1>c, <2>2, <2>3 DEF LeakInv, Counted, NoLeak
<1> QED
  BY <1>1, <1>2, <1>3 DEF LenientStep

LEMMA PostStepLeak ==
    ASSUME Sound, LeakInv, SortStep \/ PruneStep
    PROVE  LeakInv'
<1> USE DEF Sound
<1>n. /\ phase' \notin {"enroll", "lenient"} /\ opts' = opts
      /\ deferred = <<>> /\ deferred' = <<>>
  BY DEF SortStep, SortSkip, SortScore, SortExchange, SortTruncate,
         PruneStep, PruneOne, PruneEnd, TypeInv, Control
<1> SUFFICES ASSUME Reachable
             PROVE  Reachable'
  BY <1>n DEF LeakInv, Counted, NoLeak
<1>r. \A b \in Addr : heap[b] # Free => \E k \in DOMAIN entries : entries[k] = b
  BY <1>n DEF Reachable
<1>l. DOMAIN entries = 1 .. Len(entries) /\ Len(entries) \in Nat
  BY DEF TypeInv, TypeOK
<1>1. CASE SortSkip \/ SortScore \/ PruneEnd
  BY <1>1, <1>r DEF SortSkip, SortScore, PruneEnd, Reachable
<1>2. CASE SortExchange
  <2> DEFINE j == cursor[1]
             k == cursor[2]
  <2>1. j \in DOMAIN entries /\ k \in DOMAIN entries
    BY <1>2, <1>l DEF SortExchange, TypeInv, TypeOK, Control, SortCursor
  <2>2. heap' = heap /\ (entries' = entries \/ entries' = Swap(entries, j, k))
    BY <1>2 DEF SortExchange
  <2> HIDE DEF j, k
  <2>3. /\ DOMAIN Swap(entries, j, k) = DOMAIN entries
        /\ \A n \in DOMAIN entries : Swap(entries, j, k)[n] =
              IF n = k THEN entries[j] ELSE IF n = j THEN entries[k] ELSE entries[n]
    BY <2>1 DEF Swap, TypeInv, TypeOK
  <2>4. \A n \in DOMAIN entries :
           \E m \in DOMAIN entries : Swap(entries, j, k)[m] = entries[n]
    BY <2>1, <2>3
  <2> QED
    BY <1>r, <2>2, <2>3, <2>4 DEF Reachable
<1>3. CASE SortTruncate
  <2>1. opts.maxSubtemplates \in 0 .. Len(entries)
    BY <1>3, OptionFacts DEF SortTruncate, SortCursor, TypeInv, TypeOK, Control
  <2>2. /\ DOMAIN entries' = 1 .. opts.maxSubtemplates
        /\ \A k \in 1 .. opts.maxSubtemplates : entries'[k] = entries[k]
    BY <1>3, <2>1 DEF SortTruncate, Keep
  <2>3. ASSUME NEW b \in Addr, heap'[b] # Free
        PROVE  \E k \in DOMAIN entries' : entries'[k] = b
    <3>1. heap[b] # Free /\ b \notin Excess
      BY <1>3, <2>3 DEF SortTruncate
    <3>2. PICK k \in DOMAIN entries : entries[k] = b
      BY <1>r, <3>1
    <3>3. k \in 1 .. opts.maxSubtemplates
      BY <1>l, <2>1, <3>1, <3>2 DEF Excess
    <3> QED
      BY <2>2, <3>2, <3>3
  <2> QED
    BY <2>3 DEF Reachable
<1>4. CASE PruneOne
  <2> DEFINE r == RedundantIndex(Images)
  <2>1. r \in 1 .. Len(entries)
    BY <1>4, PrunedIndex DEF PruneOne
  <2> HIDE DEF r
  <2>2. /\ DOMAIN entries' = 1 .. Len(entries) - 1
        /\ \A k \in 1 .. Len(entries) - 1 :
              entries'[k] = IF k < r THEN entries[k] ELSE entries[k + 1]
    BY <1>4, <1>l DEF PruneOne, r, Without
  <2>3. ASSUME NEW b \in Addr, heap'[b] # Free
        PROVE  \E k \in DOMAIN entries' : entries'[k] = b
    <3>1. heap[b] # Free /\ b # entries[r]
      BY <1>4, <2>3 DEF PruneOne, r, FreeInfo, TypeInv, TypeOK, Heap
    <3>2. PICK k \in DOMAIN entries : entries[k] = b
      BY <1>r, <3>1
    <3>3. k # r
      BY <3>1, <3>2
    <3>4. CASE k < r
      BY <1>l, <2>1, <2>2, <3>2, <3>4
    <3>5. CASE k > r
      <4>1. k - 1 \in DOMAIN entries' /\ entries'[k - 1] = entries[k]
        BY <1>l, <2>1, <2>2, <3>5
      <4> QED
        BY <3>2, <4>1
    <3> QED
      BY <1>l, <2>1, <3>3, <3>4, <3>5
  <2> QED
    BY <2>3 DEF Reachable
<1> QED
  BY <1>1, <1>2, <1>3, <1>4 DEF SortStep, PruneStep

LEMMA NextLeak == Sound /\ LeakInv /\ [Next]_vars => LeakInv'
<1> SUFFICES ASSUME Sound, LeakInv, [Next]_vars
             PROVE  LeakInv'
  OBVIOUS
<1>1. CASE FrameStep
  BY <1>1, FrameStepLeak DEF FrameStep
<1>2. CASE LenientStep
  BY <1>2, LenientStepLeak
<1>3. CASE EnrollEnd \/ Report \/ UNCHANGED vars
  BY <1>3 DEF EnrollEnd, Report, vars, LeakInv, Counted, NoLeak, Reachable
<1>4. CASE SortStep \/ PruneStep
  BY <1>4, PostStepLeak
<1> QED
  BY <1>1, <1>2, <1>3, <1>4 DEF Next

\* Enrollment leaks no SigfmImgInfo as long as the files cannot outnumber the
\* template's slots: what is allocated is in the template or deferred.
THEOREM EnrollmentNoLeak == Spec => []NoLeak
<1>1. Init => LeakInv
  BY DEF Init, LeakInv, Counted, NoLeak, Reachable
<1>2. LeakInv => NoLeak
  BY DEF LeakInv
<1> QED
  BY <1>1, <1>2, NextLeak, AlwaysSound, PTL DEF Spec

-----------------------------------------------------------------------------
(* Quality ranking and the strict core.  Both need to know that the scores *)
(* the ranking compares are the keypoint counts of the entries, and that   *)
(* nothing has been turned away while the first half was being filled.     *)

Quality == [k \in DOMAIN entries |-> Keypoints(heap[entries[k]])]

RankInv ==
    phase = "enroll" /\ opts.qualityEnroll =>
        /\ \A k \in DOMAIN entries : scores[k] = Quality[k] /\ lost <= scores[k]
        /\ lost > 0 => entries # <<>> /\ HalfOf(opts) <= Len(entries)

CoreInv == RankInv /\ StrictCore

\* A frame that is stored is good enough for its slot.
LEMMA StoreRanked ==
    ASSUME Sound, CoreInv, NEW f \in Frame, NEW a \in Addr, heap[a] = Free,
           NEW score, phase' = phase, opts' = opts,
           heap' = AllocInfo(heap, a, f.image), Store(a, score), lost' = lost,
           ~BelowStrict(f),
           opts.qualityEnroll => score = Keypoints(f.image) /\ lost <= score
    PROVE  CoreInv'
<1> USE DEF Sound
<1>1. /\ Len(entries) \in Nat /\ DOMAIN entries = 1 .. Len(entries)
      /\ lost \in Nat /\ Keypoints(f.image) \in Nat
      /\ HalfOf(opts) \in Nat /\ opts.progressiveStrict \in Int
  BY OptionFacts, FrameFacts DEF TypeInv, TypeOK
<1>2. /\ DOMAIN entries' = 1 .. Len(entries) + 1 /\ Len(entries') = Len(entries) + 1
      /\ entries'[Len(entries) + 1] = a
      /\ \A k \in DOMAIN entries : entries'[k] = entries[k]
      /\ entries' # <<>>
  BY DEF Store, TypeInv, TypeOK
<1>3. ASSUME phase = "enroll"
      PROVE  /\ scores'[Len(entries) + 1] = score
             /\ \A k \in DOMAIN entries : scores'[k] = scores[k]
  <2>1. scores \in Seq(Nat) /\ Len(scores) = Len(entries) /\ scores' = Append(scores, score)
    BY <1>3, <1>1 DEF Store, TypeInv, TypeOK
  <2> QED
    BY <2>1, <1>1
<1>4. /\ \A k \in DOMAIN entries : heap'[entries[k]] = heap[entries[k]]
      /\ heap'[a] = f.image
  BY DEF TypeInv, TypeOK, PointersSound, AllocInfo, Heap
<1>5. /\ \A k \in DOMAIN entries : Quality'[k] = Quality[k]
      /\ Quality'[Len(entries) + 1] = Keypoints(f.image)
      /\ \A k \in DOMAIN entries' : k \in DOMAIN entries \/ k = Len(entries) + 1
  BY <1>1, <1>2, <1>4 DEF Quality
<1>6. RankInv'
  <2> SUFFICES ASSUME phase = "enroll", opts.qualityEnroll
               PROVE  /\ \A k \in DOMAIN entries' :
                            scores'[k] = Quality'[k] /\ lost' <= scores'[k]
                      /\ lost' > 0 => entries' # <<>> /\ HalfOf(opts') <= Len(entries')
    BY DEF RankInv, Quality
  <2>1. \A k \in DOMAIN entries : scores[k] = Quality[k] /\ lost <= scores[k]
    BY DEF CoreInv, RankInv
  <2>2. lost > 0 => HalfOf(opts) <= Len(entries)
    BY DEF CoreInv, RankInv
  <2>3. \A k \in DOMAIN entries' : scores'[k] = Quality'[k] /\ lost' <= scores'[k]
    BY <1>3, <1>5, <2>1
  <2> QED
    BY <1>1, <1>2, <2>2, <2>3
<1>7. StrictCore'
  <2> SUFFICES ASSUME phase = "enroll", opts.progressive,
                      NEW k \in DOMAIN entries', k <= HalfOf(opts)
               PROVE  Quality'[k] >= opts.progressiveStrict
    BY DEF StrictCore, Quality
  <2>1. CASE k \in DOMAIN entries
    BY <1>5, <2>1 DEF CoreInv, StrictCore, Quality
  <2>2. CASE k = Len(entries) + 1
    <3>1. Len(entries) < HalfOf(opts)
      BY <1>1, <2>2
    <3>2. Keypoints(f.image) >= opts.progressiveStrict
      BY <1>1, <3>1 DEF BelowStrict, StrictPhase
    <3> QED
      BY <1>5, <2>2, <3>2
  <2> QED
    BY <1>5, <2>1, <2>2
<1> QED
  BY <1>6, <1>7 DEF CoreInv

LEMMA ReplaceRanked ==
    ASSUME Sound, CoreInv, NEW f \in Frame, NEW a \in Addr, RankReplace(f, a)
    PROVE  CoreInv'
<1> USE DEF Sound
<1> DEFINE w == WeakestIndex(scores)
<1>1. /\ phase = "enroll" /\ phase' = phase /\ opts' = opts /\ opts.qualityEnroll
      /\ heap[a] = Free
  BY DEF RankReplace, Ranked, Admit, NextFrame
<1>2. /\ Len(entries) \in Nat /\ DOMAIN entries = 1 .. Len(entries) /\ entries # <<>>
      /\ lost \in Nat /\ Keypoints(f.image) \in Nat /\ HalfOf(opts) \in Nat
      /\ opts.progressiveStrict \in Int
      /\ HalfOf(opts) <= Len(entries)
  BY OptionFacts, FrameFacts, OptionsAssumption DEF RankReplace, TypeInv, TypeOK
<1>3. scores \in Seq(Nat) /\ scores # <<>> /\ DOMAIN scores = DOMAIN entries
  BY <1>1, <1>2 DEF TypeInv, TypeOK
<1>4. w \in DOMAIN scores /\ \A j \in DOMAIN scores : scores[w] <= scores[j]
  BY <1>3, WeakestIndexProperty
<1>5. Keypoints(f.image) > scores[w]
  BY <1>3 DEF RankReplace, WeakestScore
<1>6. /\ heap' = AllocInfo(FreeInfo(heap, entries[w]), a, f.image)
      /\ entries' = [entries EXCEPT ![w] = a]
      /\ scores' = [scores EXCEPT ![w] = Keypoints(f.image)]
      /\ lost' = Larger(lost, Keypoints(heap[entries[w]]))
  BY DEF RankReplace
<1> HIDE DEF w
<1>7. \A k \in DOMAIN entries : scores[k] = Quality[k] /\ lost <= scores[k] /\ scores[k] \in Nat
  BY <1>1, <1>3 DEF CoreInv, RankInv
<1>8. lost' = scores[w]
  BY <1>2, <1>3, <1>4, <1>6, <1>7 DEF Quality, Larger
<1>9. /\ DOMAIN entries' = DOMAIN entries /\ Len(entries') = Len(entries)
      /\ entries'[w] = a
      /\ \A k \in DOMAIN entries : k # w => entries'[k] = entries[k]
  BY <1>2, <1>3, <1>4, <1>6 DEF TypeInv, TypeOK
<1>10. /\ scores'[w] = Keypoints(f.image)
       /\ \A k \in DOMAIN entries : k # w => scores'[k] = scores[k]
  BY <1>3, <1>4, <1>6
<1>11. /\ heap'[a] = f.image
       /\ \A k \in DOMAIN entries : k # w => heap'[entries[k]] = heap[entries[k]]
  <2>1. \A k \in DOMAIN entries : entries[k] \in Addr /\ entries[k] # a
    BY <1>1 DEF TypeInv, TypeOK, PointersSound
  <2>2. \A k \in DOMAIN entries : k # w => entries[k] # entries[w]
    BY <1>3, <1>4 DEF PointersSound
  <2> QED
    BY <1>6, <2>1, <2>2 DEF TypeInv, TypeOK, AllocInfo, FreeInfo, Heap
<1>12. /\ Quality'[w] = Keypoints(f.image)
       /\ \A k \in DOMAIN entries : k # w => Quality'[k] = Quality[k]
  BY <1>3, <1>4, <1>9, <1>11 DEF Quality
<1>13. RankInv'
  <2>1. \A k \in DOMAIN entries' : scores'[k] = Quality'[k] /\ lost' <= scores'[k]
    BY <1>2, <1>3, <1>4, <1>5, <1>7, <1>8, <1>9, <1>10, <1>12
  <2>2. entries' # <<>> /\ HalfOf(opts') <= Len(entries')
    BY <1>1, <1>2, <1>9
  <2> QED
    BY <2>1, <2>2 DEF RankInv, Quality
<1>14. StrictCore'
  <2> SUFFICES ASSUME opts.progressive, NEW k \in DOMAIN entries, k <= HalfOf(opts)
               PROVE  Quality'[k] >= opts.progressiveStrict
    BY <1>1, <1>9 DEF StrictCore, Quality
  <2>1. Quality[k] >= opts.progressiveStrict
    BY <1>1 DEF CoreInv, StrictCore, Quality
  <2> QED
    BY <1>2, <1>5, <1>7, <1>12, <2>1
<1> QED
  BY <1>13, <1>14 DEF CoreInv

LEMMA NextCore == Sound /\ Sound' /\ CoreInv /\ [Next]_vars => CoreInv'
<1> SUFFICES ASSUME Sound, Sound', CoreInv, [Next]_vars
             PROVE  CoreInv'
  OBVIOUS
<1> USE DEF Sound
<1>1. ASSUME UNCHANGED <<phase, opts, heap, entries, scores, lost>>
      PROVE  CoreInv'
  BY <1>1 DEF CoreInv, RankInv, StrictCore, Quality
<1>2. ASSUME phase' # "enroll"
      PROVE  CoreInv'
  BY <1>2 DEF CoreInv, RankInv, StrictCore
<1>3. ASSUME NEW f \in Frame,
             RejectUnread(f) \/ RejectFlat(f) \/ RejectUnextracted(f) \/ RejectFewKeypoints(f)
      PROVE  CoreInv'
  BY <1>1, <1>3 DEF RejectUnread, RejectFlat, RejectUnextracted, RejectFewKeypoints,
                    NextFrame, KeepAll
<1>4. ASSUME NEW f \in Frame, NEW a \in Addr, Defer(f, a) \/ AddIgnored(f, a)
      PROVE  CoreInv'
  <2>1. /\ UNCHANGED <<phase, opts, entries, scores, lost>>
        /\ heap[a] = Free /\ heap' = AllocInfo(heap, a, f.image)
    BY <1>4 DEF Defer, AddIgnored, Admit, NextFrame
  <2>2. \A k \in DOMAIN entries : heap'[entries[k]] = heap[entries[k]]
    BY <2>1 DEF TypeInv, TypeOK, PointersSound, AllocInfo, Heap
  <2> QED
    BY <2>1, <2>2 DEF CoreInv, RankInv, StrictCore, Quality
<1>5. ASSUME NEW f \in Frame, NEW a \in Addr, AddPlain(f, a)
      PROVE  CoreInv'
  BY <1>5, StoreRanked DEF AddPlain, Admit, NextFrame
<1>6. ASSUME NEW f \in Frame, NEW a \in Addr, RankFill(f, a)
      PROVE  CoreInv'
  <2>1. lost = 0
    BY <1>6, OptionFacts
       DEF RankFill, Ranked, Admit, NextFrame, CoreInv, RankInv, TypeInv, TypeOK
  <2>2. lost <= Keypoints(f.image)
    BY <2>1, FrameFacts
  <2> QED
    BY <1>6, <2>2, StoreRanked DEF RankFill, Ranked, Admit, NextFrame
<1>7. ASSUME NEW f \in Frame, NEW a \in Addr, RankAppend(f, a)
      PROVE  CoreInv'
  <2>1. phase = "enroll" /\ opts.qualityEnroll /\ Keypoints(f.image) > WeakestScore
    BY <1>7 DEF RankAppend, Ranked, Admit, NextFrame
  <2>2. lost <= Keypoints(f.image)
    <3>1. CASE scores = <<>>
      <4>1. entries = <<>>
        BY <3>1 DEF TypeInv, TypeOK
      <4> QED
        BY <2>1, <4>1, FrameFacts DEF CoreInv, RankInv, TypeInv, TypeOK
    <3>2. CASE scores # <<>>
      <4>1. scores \in Seq(Nat) /\ DOMAIN scores = DOMAIN entries
        BY <2>1 DEF TypeInv, TypeOK
      <4>2. WeakestIndex(scores) \in DOMAIN entries
        BY <3>2, <4>1, WeakestIndexProperty
      <4>3. lost <= scores[WeakestIndex(scores)] /\ scores[WeakestIndex(scores)] \in Nat
        BY <2>1, <4>1, <4>2 DEF CoreInv, RankInv
      <4> QED
        BY <2>1, <3>2, <4>3, FrameFacts DEF WeakestScore, TypeInv, TypeOK
    <3> QED
      BY <3>1, <3>2
  <2> QED
    BY <1>7, <2>2, StoreRanked DEF RankAppend, Ranked, Admit, NextFrame
<1>8. ASSUME NEW f \in Frame, NEW a \in Addr, RankReplace(f, a)
      PROVE  CoreInv'
  BY <1>8, ReplaceRanked
<1>9. ASSUME NEW f \in Frame, NEW a \in Addr, RankSkip(f, a)
      PROVE  CoreInv'
  <2>1. /\ UNCHANGED <<phase, opts, heap, entries, scores>>
        /\ phase = "enroll" /\ opts.qualityEnroll
        /\ Keypoints(f.image) <= WeakestScore /\ HalfOf(opts) <= Len(entries)
        /\ lost' = Larger(lost, Keypoints(f.image))
    BY <1>9, OptionFacts DEF RankSkip, Ranked, Admit, NextFrame, TypeInv, TypeOK
  <2>2. Keypoints(f.image) \in Nat /\ lost \in Nat
    BY FrameFacts DEF TypeInv, TypeOK
  <2>3. CASE scores = <<>>
    <3>1. entries = <<>>
      BY <2>3 DEF TypeInv, TypeOK
    <3>2. lost = 0 /\ Keypoints(f.image) = 0
      BY <2>1, <2>2, <2>3, <3>1 DEF WeakestScore, CoreInv, RankInv
    <3>3. lost' = lost
      BY <2>1, <3>2 DEF Larger
    <3> QED
      BY <1>1, <2>1, <3>3
  <2>4. CASE scores # <<>>
    <3>1. scores \in Seq(Nat) /\ DOMAIN scores = DOMAIN entries
      BY <2>1 DEF TypeInv, TypeOK
    <3>2. entries # <<>>
      BY <2>4, <3>1 DEF TypeInv, TypeOK
    <3>3. /\ WeakestIndex(scores) \in DOMAIN entries
          /\ \A j \in DOMAIN entries : scores[WeakestIndex(scores)] <= scores[j]
      BY <2>4, <3>1, WeakestIndexProperty
    <3>4. \A k \in DOMAIN entries : scores[k] \in Nat /\ lost <= scores[k]
      BY <2>1, <3>1 DEF CoreInv, RankInv
    <3>5. \A k \in DOMAIN entries : lost' <= scores[k]
      BY <2>1, <2>2, <2>4, <3>3, <3>4 DEF WeakestScore, Larger
    <3>6. RankInv'
      BY <2>1, <3>2, <3>5 DEF CoreInv, RankInv, Quality
    <3>7. StrictCore'
      BY <2>1 DEF CoreInv, StrictCore
    <3> QED
      BY <3>6, <3>7 DEF CoreInv
  <2> QED
    BY <2>3, <2>4
<1>10. CASE FrameStep
  BY <1>10, <1>3, <1>4, <1>5, <1>6, <1>7, <1>8, <1>9 DEF FrameStep
<1>11. CASE EnrollEnd \/ LenientStep \/ Report \/ SortStep \/ PruneStep
  <2>1. phase' # "enroll"
    BY <1>11 DEF EnrollEnd, LenientStep, LenientAdd, LenientIgnored, LenientSkip,
                 NextDeferred, Report, SortStep, SortSkip, SortScore, SortExchange,
                 SortTruncate, PruneStep, PruneOne, PruneEnd
  <2> QED
    BY <1>2, <2>1
<1>12. CASE UNCHANGED vars
  BY <1>1, <1>12 DEF vars
<1> QED
  BY <1>10, <1>11, <1>12 DEF Next

LEMMA AlwaysCore == Spec => []CoreInv
<1>1. Init => CoreInv
  BY DEF Init, CoreInv, RankInv, StrictCore
<1> QED
  BY <1>1, NextCore, AlwaysSound, PTL DEF Spec

\* While files are being read with quality ranking on, every entry has at
\* least as many keypoints as any frame the ranking skipped or threw out.
THEOREM EnrollmentRankingKeepsBest == Spec => []RankingKeepsBest
<1>1. Sound /\ CoreInv => RankingKeepsBest
  <2> SUFFICES ASSUME Sound, CoreInv, phase = "enroll", opts.qualityEnroll,
                      NEW k \in DOMAIN entries
               PROVE  Quality[k] >= lost
    BY DEF RankingKeepsBest, Quality
  <2>1. scores[k] = Quality[k] /\ lost <= scores[k] /\ scores[k] \in Nat /\ lost \in Nat
    BY DEF CoreInv, RankInv, Sound, TypeInv, TypeOK
  <2> QED
    BY <2>1
<1> QED
  BY <1>1, AlwaysSound, AlwaysCore, PTL

\* In progressive enrollment the first half of the template holds frames of
\* strict quality only, also after quality ranking replaced some of them.
THEOREM EnrollmentStrictCore == Spec => []StrictCore
<1>1. CoreInv => StrictCore
  BY DEF CoreInv
<1> QED
  BY <1>1, AlwaysCore, PTL

-----------------------------------------------------------------------------
(* Diversity pruning keeps the richest frame: of the two most similar      *)
(* entries the other one has at least as many keypoints.                   *)

LEMMA MostKeypointsProperty ==
    ASSUME NEW t \in Seq(Image), t # <<>>
    PROVE  /\ MostKeypoints(t) \in Nat
           /\ \A k \in DOMAIN t : Keypoints(t[k]) <= MostKeypoints(t)
           /\ \E k \in DOMAIN t : Keypoints(t[k]) = MostKeypoints(t)
<1> DEFINE S == {Keypoints(t[k]) : k \in DOMAIN t}
           K == [k \in DOMAIN t |-> Keypoints(t[k])]
<1>1. \A k \in DOMAIN t : Keypoints(t[k]) \in Nat /\ K[k] = Keypoints(t[k])
  BY SigfmAssumption
<1>2. IsFiniteSet(DOMAIN t)
  BY FiniteDomain
<1>3. /\ SumFunctionOnSet(K, DOMAIN t) \in Nat
      /\ \A k \in DOMAIN t : K[k] <= SumFunctionOnSet(K, DOMAIN t)
  <2> HIDE DEF K
  <2> QED
    BY <1>1, <1>2, SumNatural
<1>4. PICK b \in Int : \A k \in DOMAIN t : Keypoints(t[k]) <= b
  BY <1>1, <1>3
<1>5. S \in SUBSET Int /\ S # {} /\ \A x \in S : x <= b
  BY <1>1, <1>4
<1> HIDE DEF S
<1>6. Max(S) \in S /\ \A x \in S : x <= Max(S)
  BY <1>5, MaxExists
<1>7. MostKeypoints(t) = Max(S)
  BY DEF MostKeypoints, S
<1> QED
  BY <1>1, <1>6, <1>7 DEF S

\* Pruning never drops the frame with the most keypoints.
THEOREM EnrollmentPruneKeepsRichest == Spec => PruneKeepsRichest
<1>1. Sound /\ Sound' /\ [Next]_vars =>
         (phase = "prune" => MostKeypoints(Images') = MostKeypoints(Images))
  <2> SUFFICES ASSUME Sound, Sound', [Next]_vars, phase = "prune"
               PROVE  MostKeypoints(Images') = MostKeypoints(Images)
    OBVIOUS
  <2>1. CASE PruneOne
    <3> DEFINE r == RedundantIndex(Images)
               t == Images
               u == Images'
    <3>1. r \in 1 .. Len(entries) /\ Len(entries) >= 2
      BY <2>1, PrunedIndex DEF PruneOne, Sound
    <3>2. t \in Seq(Image) /\ Len(t) = Len(entries) /\ DOMAIN t = DOMAIN entries
      BY ImagesType DEF Sound, TypeInv, Images
    <3>3. \E j \in DOMAIN t \ {r} : Keypoints(t[j]) >= Keypoints(t[r])
      BY <3>1, <3>2, RedundantIndexProperty
    <3>4. u \in Seq(Image) /\ Len(u) = Len(entries') /\ DOMAIN u = DOMAIN entries'
      <4>1. TypeOK' /\ PointersSound'
        BY DEF Sound, TypeInv
      <4>2. \A k \in DOMAIN entries' : heap'[entries'[k]] \in Image
        BY <4>1 DEF TypeOK, PointersSound, Heap
      <4> QED
        BY <4>1, <4>2 DEF TypeOK, Images
    <3> HIDE DEF r
    <3>5. /\ entries \in Seq(Addr) /\ heap \in Heap
          /\ entries' \in Seq(Addr) /\ Len(entries') = Len(entries) - 1
          /\ \A k \in 1 .. Len(entries) - 1 :
                entries'[k] = IF k < r THEN entries[k] ELSE entries[k + 1]
      BY <2>1, <3>1, WithoutProperty DEF PruneOne, r, Sound, TypeInv, TypeOK
    <3>6. \A k \in DOMAIN entries : k # r => heap'[entries[k]] = heap[entries[k]]
      BY <2>1, <3>1, <3>5 DEF PruneOne, r, FreeInfo, Heap, Sound, PointersSound
    <3>7. \A k \in DOMAIN u : u[k] = IF k < r THEN t[k] ELSE t[k + 1]
      BY <3>1, <3>4, <3>5, <3>6 DEF Images
    <3>8. \A k \in DOMAIN u : \E j \in DOMAIN t : u[k] = t[j]
      BY <3>1, <3>2, <3>4, <3>5, <3>7
    <3>9. \A j \in DOMAIN t \ {r} : \E k \in DOMAIN u : u[k] = t[j]
      <4> SUFFICES ASSUME NEW j \in DOMAIN t \ {r}
                   PROVE  \E k \in DOMAIN u : u[k] = t[j]
        OBVIOUS
      <4>n. /\ DOMAIN t = 1 .. Len(entries) /\ DOMAIN u = 1 .. Len(entries) - 1
            /\ Len(entries) \in Nat
        BY <3>2, <3>4, <3>5
      <4>1. CASE j < r
        BY <3>1, <3>7, <4>n, <4>1
      <4>2. CASE j > r
        <5>1. j - 1 \in DOMAIN u /\ ~(j - 1 < r) /\ (j - 1) + 1 = j
          BY <3>1, <4>n, <4>2
        <5>2. u[j - 1] = t[j]
          BY <3>7, <5>1
        <5> QED
          BY <5>1, <5>2
      <4> QED
        BY <3>1, <4>n, <4>1, <4>2
    <3>10. t # <<>> /\ u # <<>>
      BY <3>1, <3>2, <3>4, <3>5
    <3>11. \A k \in DOMAIN t : Keypoints(t[k]) \in Nat
      BY <3>2, SigfmAssumption
    <3> HIDE DEF t, u
    <3>12. /\ MostKeypoints(t) \in Nat
           /\ \A k \in DOMAIN t : Keypoints(t[k]) <= MostKeypoints(t)
           /\ \E k \in DOMAIN t : Keypoints(t[k]) = MostKeypoints(t)
      BY <3>2, <3>10, MostKeypointsProperty
    <3>13. /\ MostKeypoints(u) \in Nat
           /\ \A k \in DOMAIN u : Keypoints(u[k]) <= MostKeypoints(u)
           /\ \E k \in DOMAIN u : Keypoints(u[k]) = MostKeypoints(u)
      BY <3>4, <3>10, MostKeypointsProperty
    <3>14. MostKeypoints(u) <= MostKeypoints(t)
      BY <3>8, <3>12, <3>13
    <3>15. MostKeypoints(t) <= MostKeypoints(u)
      <4>1. PICK k \in DOMAIN t : Keypoints(t[k]) = MostKeypoints(t)
        BY <3>12
      <4>2. PICK j \in DOMAIN t \ {r} : Keypoints(t[j]) >= Keypoints(t[k])
        BY <3>3, <3>11, <4>1
      <4>3. PICK m \in DOMAIN u : u[m] = t[j]
        BY <3>9
      <4>4. Keypoints(t[j]) <= MostKeypoints(u) /\ Keypoints(t[j]) \in Nat
        BY <3>11, <3>13, <4>3
      <4> QED
        BY <3>12, <3>13, <4>1, <4>2, <4>4
    <3> QED
      BY <3>12, <3>13, <3>14, <3>15 DEF t, u
  <2>2. CASE PruneEnd \/ UNCHANGED vars
    BY <2>2 DEF PruneEnd, vars, Images
  <2>3. CASE FrameStep \/ EnrollEnd \/ LenientStep \/ Report \/ SortStep
    BY <2>3 DEF FrameStep, RejectUnread, RejectFlat, RejectUnextracted,
           RejectFewKeypoints, Defer, AddPlain, AddIgnored, RankFill, RankSkip,
           RankAppend, RankReplace, Ranked, Admit, NextFrame, EnrollEnd, LenientStep,
           LenientAdd, LenientIgnored, LenientSkip, NextDeferred, Report,
           SortStep, SortSkip, SortScore, SortExchange, SortTruncate
  <2> QED
    BY <2>1, <2>2, <2>3 DEF Next, PruneStep
<1> QED
  BY <1>1, AlwaysSound, PTL DEF Spec, PruneKeepsRichest

-----------------------------------------------------------------------------
(* The exchange sort.  Its scores are computed once, before the first      *)
(* exchange; they stay those of the entries because an entry's average is  *)
(* taken over all the others, in whichever order they are.                 *)

\* Where the n-th element of Swap(s, j, k) comes from.
Origin(j, k, n) == IF n = k THEN j ELSE IF n = j THEN k ELSE n

LEMMA SwapOrigin ==
    ASSUME NEW S, NEW s \in Seq(S), NEW j \in DOMAIN s, NEW k \in DOMAIN s
    PROVE  /\ Swap(s, j, k) \in Seq(S) /\ Len(Swap(s, j, k)) = Len(s)
           /\ DOMAIN Swap(s, j, k) = DOMAIN s
           /\ \A n \in DOMAIN s : /\ Origin(j, k, n) \in DOMAIN s
                                  /\ Swap(s, j, k)[n] = s[Origin(j, k, n)]
<1>1. DOMAIN s = 1 .. Len(s) /\ j \in 1 .. Len(s) /\ k \in 1 .. Len(s)
  OBVIOUS
<1>2. /\ Swap(s, j, k) \in Seq(S) /\ Len(Swap(s, j, k)) = Len(s)
      /\ DOMAIN Swap(s, j, k) = DOMAIN s
      /\ \A n \in 1 .. Len(s) : Swap(s, j, k)[n] =
            IF n = k THEN s[j] ELSE IF n = j THEN s[k] ELSE s[n]
  BY <1>1 DEF Swap
<1> QED
  BY <1>1, <1>2 DEF Origin

LEMMA SwapAverages ==
    ASSUME NEW t \in Seq(Image), Len(t) >= 2, NEW j \in DOMAIN t, NEW k \in DOMAIN t,
           NEW n \in DOMAIN t
    PROVE  CrossAverage(Swap(t, j, k), n) = CrossAverage(t, Origin(j, k, n))
<1> DEFINE D == DOMAIN t
           u == Swap(t, j, k)
           o == [m \in D |-> Origin(j, k, m)]
           F == [m \in DOMAIN t |-> Similarity(t[o[n]], t[m])]
           G == [m \in DOMAIN u |-> Similarity(u[n], u[m])]
           H == [m \in D \ {n} |-> F[o[m]]]
<1>1. D = 1 .. Len(t) /\ \A m \in D : t[m] \in Image
  OBVIOUS
<1>2. /\ Len(u) = Len(t) /\ DOMAIN u = D
      /\ \A m \in D : u[m] = t[o[m]]
  <2>1. /\ u \in Seq(Image) /\ Len(u) = Len(t) /\ DOMAIN u = D
        /\ \A m \in D : u[m] = t[Origin(j, k, m)]
    BY SwapOrigin
  <2> QED
    BY <2>1
<1>3. /\ \A m \in D : o[m] \in D /\ o[m] = Origin(j, k, m)
      /\ \A l, m \in D : o[l] = o[m] => l = m
      /\ \A m \in D : o[o[m]] = m
  BY DEF Origin
<1>4. D \ {o[n]} = {o[m] : m \in D \ {n}}
  <2> HIDE DEF o, D
  <2>n. n \in D
    BY DEF D
  <2>1. ASSUME NEW m \in D \ {n}
        PROVE  o[m] \in D \ {o[n]}
    BY <1>3, <2>n
  <2>2. ASSUME NEW m \in D \ {o[n]}
        PROVE  \E l \in D \ {n} : o[l] = m
    <3>1. o[m] \in D /\ o[o[m]] = m /\ o[m] # n
      BY <1>3, <2>n
    <3> QED
      BY <3>1
  <2> QED
    BY <2>1, <2>2
<1>5. IsFiniteSet(D \ {n})
  BY FiniteDomain
<1>6. \A m \in D \ {n} : /\ F[o[m]] = Similarity(t[o[n]], t[o[m]])
                         /\ F[o[m]] \in Int
                         /\ G[m] = F[o[m]] /\ H[m] = F[o[m]]
  <2> SUFFICES ASSUME NEW m \in D \ {n}
               PROVE  /\ F[o[m]] = Similarity(t[o[n]], t[o[m]])
                      /\ F[o[m]] \in Int
                      /\ G[m] = F[o[m]] /\ H[m] = F[o[m]]
    OBVIOUS
  <2>1. o[m] \in D /\ o[n] \in D
    BY <1>3
  <2>2. F[o[m]] = Similarity(t[o[n]], t[o[m]])
    BY <2>1
  <2>3. Similarity(t[o[n]], t[o[m]]) \in Int
    <3>1. t[o[n]] \in Image /\ t[o[m]] \in Image
      BY <1>1, <2>1
    <3>2. MatchScore(t[o[n]], t[o[m]]) \in Int
      BY <3>1, SigfmAssumption
    <3> HIDE DEF o
    <3> QED
      BY <3>2 DEF Similarity
  <2>4. G[m] = Similarity(u[n], u[m]) /\ u[n] = t[o[n]] /\ u[m] = t[o[m]]
    BY <1>2
  <2>5. H[m] = F[o[m]]
    OBVIOUS
  <2> QED
    BY <2>2, <2>3, <2>4, <2>5
<1>7. n \in D /\ Len(u) - 1 = Len(t) - 1
  BY <1>2
<1>8. CrossAverage(u, n) = SumFunctionOnSet(G, D \ {n}) \div (Len(t) - 1)
  BY <1>2 DEF CrossAverage
<1>9. CrossAverage(t, o[n]) = SumFunctionOnSet(F, D \ {o[n]}) \div (Len(t) - 1)
  BY DEF CrossAverage
<1> HIDE DEF D, u, o, F, G
<1>10. SumFunctionOnSet(F, {o[m] : m \in D \ {n}}) = SumFunctionOnSet(H, D \ {n})
  BY <1>3, <1>5, <1>6, SumRenamed
<1>11. SumFunctionOnSet(G, D \ {n}) = SumFunctionOnSet(H, D \ {n})
  <2> HIDE DEF H
  <2> QED
    BY <1>5, <1>6, SumEqual
<1>12. CrossAverage(u, n) = CrossAverage(t, o[n])
  BY <1>4, <1>8, <1>9, <1>10, <1>11
<1> QED
  BY <1>3, <1>7, <1>12 DEF u

\* What the two loops have established: the places before the outer index hold
\* the best scores in order, and the outer index the best of those compared.
RankedSoFar ==
    LET j == cursor[1]
        k == cursor[2]
    IN  /\ \A a, b \in DOMAIN entries : a < j /\ a < b => scores[a] >= scores[b]
        /\ \A b \in DOMAIN entries : j < b /\ b < k => scores[j] >= scores[b]

SortInv ==
    phase = "exchange" =>
        /\ \A n \in DOMAIN entries : scores[n] = CrossAverage(Images, n)
        /\ RankedSoFar

LEMMA ExchangeLength ==
    ASSUME Sound, phase = "exchange"
    PROVE  /\ entries \in Seq(Addr) /\ Len(entries) \in Nat /\ Len(entries) >= 2
           /\ DOMAIN entries = 1 .. Len(entries) /\ DOMAIN scores = DOMAIN entries
           /\ Images \in Seq(Image) /\ Len(Images) = Len(entries)
           /\ DOMAIN Images = DOMAIN entries
           /\ \A n \in DOMAIN entries : CrossAverage(Images, n) \in Nat
<1>1. SortCursor /\ entries \in Seq(Addr) /\ DOMAIN scores = DOMAIN entries
  BY DEF Sound, TypeInv, TypeOK, Control
<1>2. Len(entries) \in Nat /\ Len(entries) >= 2 /\ DOMAIN entries = 1 .. Len(entries)
  <2>1. opts.maxSubtemplates \in Nat \ {0}
    BY OptionFacts DEF Sound, TypeInv, TypeOK
  <2> QED
    BY <1>1, <2>1 DEF SortCursor
<1>3. Images \in Seq(Image) /\ Len(Images) = Len(entries) /\ DOMAIN Images = DOMAIN entries
  BY ImagesType DEF Sound, TypeInv, Images
<1> QED
  BY <1>1, <1>2, <1>3, CrossAverageType

LEMMA ExchangeSorts == Sound /\ SortInv /\ SortExchange => SortInv'
<1> SUFFICES ASSUME Sound, SortInv, SortExchange
             PROVE  SortInv'
  OBVIOUS
<1> DEFINE j == cursor[1]
           k == cursor[2]
           D == DOMAIN entries
<1>1. /\ phase = "exchange" /\ heap' = heap /\ j < Len(entries)
      /\ cursor' = NextCursor(j, k)
  BY DEF SortExchange
<1>2. j \in D /\ k \in D /\ j < k /\ D = 1 .. Len(entries) /\ Len(entries) \in Nat
  BY <1>1 DEF Sound, TypeInv, TypeOK, Control, SortCursor
<1>3. /\ entries \in Seq(Addr) /\ Len(entries) >= 2 /\ DOMAIN scores = D
      /\ Images \in Seq(Image) /\ Len(Images) = Len(entries) /\ DOMAIN Images = D
      /\ \A n \in D : scores[n] = CrossAverage(Images, n) /\ scores[n] \in Nat
  BY <1>1, ExchangeLength DEF SortInv
<1>4. /\ \A a, b \in D : a < j /\ a < b => scores[a] >= scores[b]
      /\ \A b \in D : j < b /\ b < k => scores[j] >= scores[b]
  BY <1>1 DEF SortInv, RankedSoFar
<1>5. /\ D' = D /\ Len(entries') = Len(entries)
      /\ \A n \in D : scores'[n] = CrossAverage(Images', n) /\ scores'[n] \in Nat
      /\ \A a, b \in D : a < j /\ a < b => scores'[a] >= scores'[b]
      /\ \A b \in D : j < b /\ b <= k => scores'[j] >= scores'[b]
  <2>1. CASE scores[k] <= scores[j] /\ UNCHANGED <<entries, scores>>
    <3>1. Images' = Images
      BY <1>1, <2>1 DEF Images
    <3>2. \A b \in D : j < b /\ b <= k => scores[j] >= scores[b]
      BY <1>2, <1>4, <2>1
    <3> QED
      BY <1>3, <1>4, <2>1, <3>1, <3>2
  <2>2. CASE scores[k] > scores[j] /\ entries' = Swap(entries, j, k)
              /\ scores' = Swap(scores, j, k)
    <3> HIDE DEF j, k
    <3>1. /\ D' = D /\ Len(entries') = Len(entries)
          /\ \A n \in D : entries'[n] = entries[Origin(j, k, n)]
      <4>1. entries \in Seq(Addr) /\ j \in DOMAIN entries /\ k \in DOMAIN entries
        BY <1>2, <1>3
      <4>2. /\ Len(Swap(entries, j, k)) = Len(entries)
            /\ DOMAIN Swap(entries, j, k) = DOMAIN entries
            /\ \A n \in DOMAIN entries : Swap(entries, j, k)[n] = entries[Origin(j, k, n)]
        BY <4>1, SwapOrigin
      <4> QED
        BY <2>2, <4>2
    <3>2. \A n \in D : scores'[n] = scores[Origin(j, k, n)]
      BY <1>2, <1>3, <2>2 DEF Swap, Origin
    <3>3. \A n \in D : Origin(j, k, n) \in D
      BY <1>2 DEF Origin
    <3>4. Images' = Swap(Images, j, k)
      <4>1. /\ Swap(Images, j, k) \in Seq(Image) /\ DOMAIN Swap(Images, j, k) = D
            /\ \A n \in D : Swap(Images, j, k)[n] = Images[Origin(j, k, n)]
        <5>1. Images \in Seq(Image) /\ j \in DOMAIN Images /\ k \in DOMAIN Images
          BY <1>2, <1>3
        <5>2. /\ Swap(Images, j, k) \in Seq(Image)
              /\ DOMAIN Swap(Images, j, k) = DOMAIN Images
              /\ \A n \in DOMAIN Images : Swap(Images, j, k)[n] = Images[Origin(j, k, n)]
          BY <5>1, SwapOrigin
        <5> QED
          BY <1>3, <5>2
      <4>2. \A n \in D : Images[Origin(j, k, n)] = heap'[entries'[n]]
        BY <1>1, <3>1, <3>3 DEF Images
      <4>3. Images' = [n \in D |-> heap'[entries'[n]]]
        BY <3>1 DEF Images
      <4>u. PICK u : u = Swap(Images, j, k)
        OBVIOUS
      <4>4. Images' = [n \in D |-> u[n]]
        BY <4>1, <4>2, <4>3, <4>u
      <4>5. u \in Seq(Image) /\ DOMAIN u = D
        BY <4>1, <4>u
      <4>6. u = [n \in D |-> u[n]]
        BY <4>5
      <4>7. Images' = u
        BY <4>4, <4>6
      <4> QED
        BY <4>7, <4>u
    <3>5. \A n \in D : CrossAverage(Images', n) = CrossAverage(Images, Origin(j, k, n))
      <4>1. /\ Images \in Seq(Image) /\ Len(Images) >= 2
            /\ j \in DOMAIN Images /\ k \in DOMAIN Images /\ DOMAIN Images = D
        BY <1>2, <1>3
      <4>2. \A n \in DOMAIN Images :
               CrossAverage(Swap(Images, j, k), n) = CrossAverage(Images, Origin(j, k, n))
        BY <4>1, SwapAverages
      <4> QED
        BY <3>4, <4>1, <4>2
    <3>6. \A n \in D : scores'[n] = CrossAverage(Images', n) /\ scores'[n] \in Nat
      BY <1>3, <3>2, <3>3, <3>5
    <3>7. \A a, b \in D : a < j /\ a < b => scores'[a] >= scores'[b]
      <4> SUFFICES ASSUME NEW a \in D, NEW b \in D, a < j, a < b
                   PROVE  scores'[a] >= scores'[b]
        OBVIOUS
      <4>1. Origin(j, k, a) = a /\ Origin(j, k, b) \in D /\ a < Origin(j, k, b)
        BY <1>2, <3>3 DEF Origin
      <4> QED
        BY <1>4, <3>2, <4>1
    <3>8. \A b \in D : j < b /\ b <= k => scores'[j] >= scores'[b]
      <4> SUFFICES ASSUME NEW b \in D, j < b, b <= k
                   PROVE  scores'[j] >= scores'[b]
        OBVIOUS
      <4>1. scores'[j] = scores[k]
        BY <1>2, <3>2 DEF Origin
      <4>2. CASE b = k
        BY <1>2, <1>3, <2>2, <3>2, <4>1, <4>2 DEF Origin
      <4>3. CASE b # k
        <5>1. scores'[b] = scores[b] /\ b < k
          BY <1>2, <3>2, <4>3 DEF Origin
        <5>2. scores[j] >= scores[b]
          BY <1>4, <5>1
        <5>3. scores[j] \in Nat /\ scores[b] \in Nat /\ scores[k] \in Nat
          BY <1>2, <1>3
        <5> QED
          BY <2>2, <4>1, <5>1, <5>2, <5>3
      <4> QED
        BY <4>2, <4>3
    <3> QED
      BY <3>1, <3>6, <3>7, <3>8
  <2> QED
    BY <2>1, <2>2 DEF SortExchange
<1>6. RankedSoFar'
  <2>1. CASE k < Len(entries)
    <3>1. cursor' = <<j, k + 1>>
      BY <1>1, <2>1 DEF NextCursor
    <3>2. cursor'[1] = j /\ cursor'[2] = k + 1
      BY <3>1
    <3> HIDE DEF j, k, D
    <3>3. \A b \in D : b < k + 1 => b <= k
      BY <1>2
    <3> QED
      BY <1>5, <3>2, <3>3 DEF RankedSoFar, D
  <2>2. CASE ~(k < Len(entries))
    <3>1. cursor' = <<j + 1, j + 2>>
      BY <1>1, <2>2 DEF NextCursor
    <3>2. cursor'[1] = j + 1 /\ cursor'[2] = j + 2
      BY <3>1
    <3> HIDE DEF j, k, D
    <3>3. \A b \in D : b <= k /\ ~(j + 1 < b /\ b < j + 2)
      BY <1>2, <2>2
    <3>4. \A a, b \in D : a < j + 1 /\ a < b => scores'[a] >= scores'[b]
      <4> SUFFICES ASSUME NEW a \in D, NEW b \in D, a < j + 1, a < b
                   PROVE  scores'[a] >= scores'[b]
        OBVIOUS
      <4>1. a < j \/ a = j
        BY <1>2
      <4> QED
        BY <1>5, <3>3, <4>1
    <3> QED
      BY <1>5, <3>2, <3>3, <3>4 DEF RankedSoFar, D
  <2> QED
    BY <2>1, <2>2
<1> QED
  BY <1>5, <1>6 DEF SortInv

LEMMA AlwaysSorting == Spec => []SortInv
<1>1. Init => SortInv
  BY DEF Init, SortInv
<1>2. Sound /\ SortInv /\ [Next]_vars => SortInv'
  <2> SUFFICES ASSUME Sound, SortInv, [Next]_vars
               PROVE  SortInv'
    OBVIOUS
  <2>1. CASE SortExchange
    BY <2>1, ExchangeSorts
  <2>2. CASE SortScore
    <3>1. scores' = CrossAverages(Images) /\ Images' = Images /\ entries' = entries
      BY <2>2 DEF SortScore, Images
    <3>2. DOMAIN Images = DOMAIN entries
      BY DEF Images
    <3>3. \A n \in DOMAIN entries : scores'[n] = CrossAverage(Images', n)
      BY <3>1, <3>2 DEF CrossAverages
    <3>4. cursor'[1] = 1 /\ cursor'[2] = 2
      BY <2>2 DEF SortScore
    <3>5. \A b \in DOMAIN entries : ~(b < 1) /\ ~(1 < b /\ b < 2)
      BY DEF Sound, TypeInv, TypeOK
    <3> QED
      BY <3>1, <3>3, <3>4, <3>5 DEF SortInv, RankedSoFar
  <2>3. CASE UNCHANGED vars
    BY <2>3 DEF vars, SortInv, RankedSoFar, Images
  <2>4. CASE FrameStep \/ EnrollEnd \/ LenientStep \/ Report
                \/ SortSkip \/ SortTruncate \/ PruneStep
    <3>1. phase' # "exchange"
      BY <2>4 DEF FrameStep, RejectUnread, RejectFlat, RejectUnextracted,
           RejectFewKeypoints, Defer, AddPlain, AddIgnored, RankFill, RankSkip,
           RankAppend, RankReplace, Ranked, Admit, NextFrame, EnrollEnd, LenientStep,
           LenientAdd, LenientIgnored, LenientSkip, NextDeferred, Report,
           SortSkip, SortTruncate, PruneStep, PruneOne, PruneEnd
    <3> QED
      BY <3>1 DEF SortInv
  <2> QED
    BY <2>1, <2>2, <2>3, <2>4 DEF Next, SortStep
<1> QED
  BY <1>1, <1>2, AlwaysSound, PTL DEF Spec

\* Sorting and truncating keep the best-connected entries: none that is freed
\* had a higher average score than one that stays.
THEOREM EnrollmentSortKeepsBest == Spec => SortKeepsBestConnected
<1>1. Sound /\ SortInv /\ [Next]_vars =>
         (SortTruncate =>
            \A j, k \in DOMAIN entries :
               j <= opts.maxSubtemplates /\ k > opts.maxSubtemplates =>
                   CrossAverage(Images, j) >= CrossAverage(Images, k))
  <2> SUFFICES ASSUME Sound, SortInv, SortTruncate,
                      NEW j \in DOMAIN entries, NEW k \in DOMAIN entries,
                      j <= opts.maxSubtemplates, k > opts.maxSubtemplates
               PROVE  CrossAverage(Images, j) >= CrossAverage(Images, k)
    OBVIOUS
  <2>1. phase = "exchange" /\ cursor[1] = Len(entries)
    BY DEF SortTruncate
  <2>2. DOMAIN entries = 1 .. Len(entries) /\ Len(entries) \in Nat
        /\ opts.maxSubtemplates \in Nat
    BY OptionFacts DEF Sound, TypeInv, TypeOK
  <2>3. j < cursor[1] /\ j < k
    BY <2>1, <2>2
  <2>4. scores[j] >= scores[k]
    BY <2>1, <2>3 DEF SortInv, RankedSoFar
  <2> QED
    BY <2>1, <2>4 DEF SortInv
<1> QED
  BY <1>1, AlwaysSound, AlwaysSorting, PTL DEF Spec, SortKeepsBestConnected

-----------------------------------------------------------------------------
(* The lines printed as OK.  The frames template_add had no room for are   *)
(* the blocks nobody points to: each of them stays one for good.           *)

OkInv ==
    /\ IsFiniteSet(Leaked)
    /\ OkLinesAccounted

\* What the counters say of a step in the two loops that fill the template.
Counts ==
    /\ okLines \in Nat /\ Len(entries) \in Nat /\ Len(deferred) \in Nat
    /\ i \in Nat /\ stats.rejected \in Nat

LEMMA CountsType == Sound => Counts
BY DEF Sound, TypeInv, TypeOK, Stats, Counts

\* The step leaves the blocks nobody points to alone, or adds one to them.
SameLeak == Leaked' = Leaked

OneMoreLeak == \E a \in Addr : a \notin Leaked /\ Leaked' = Leaked \cup {a}

LEMMA LeakCount ==
    ASSUME Sound, OkInv
    PROVE  /\ Cardinality(Leaked) \in Nat
           /\ SameLeak => IsFiniteSet(Leaked') /\ Cardinality(Leaked') = Cardinality(Leaked)
           /\ OneMoreLeak => /\ IsFiniteSet(Leaked')
                             /\ Cardinality(Leaked') = Cardinality(Leaked) + 1
<1>1. IsFiniteSet(Leaked)
  BY DEF OkInv
<1>2. Cardinality(Leaked) \in Nat
  BY <1>1, FS_CardinalityType
<1>3. \A a : a \notin Leaked => /\ IsFiniteSet(Leaked \cup {a})
                                /\ Cardinality(Leaked \cup {a}) = Cardinality(Leaked) + 1
  BY <1>1, FS_AddElement
<1> QED
  BY <1>1, <1>2, <1>3 DEF SameLeak, OneMoreLeak

LEMMA FrameStepOk ==
    ASSUME Sound, OkInv, ~opts.qualityEnroll, NEW f \in Frame,
           \/ RejectUnread(f)
           \/ RejectFlat(f)
           \/ RejectUnextracted(f)
           \/ RejectFewKeypoints(f)
           \/ \E a \in Addr :
                 \/ Defer(f, a)
                 \/ AddPlain(f, a)
                 \/ AddIgnored(f, a)
                 \/ RankFill(f, a)
                 \/ RankSkip(f, a)
                 \/ RankAppend(f, a)
                 \/ RankReplace(f, a)
    PROVE  OkInv'
<1> USE DEF Sound
<1>c. Counts
  BY CountsType
<1>n. phase = "enroll" /\ phase' = phase /\ opts' = opts /\ i' = i + 1
  BY DEF NextFrame, RejectUnread, RejectFlat, RejectUnextracted,
         RejectFewKeypoints, Defer, AddPlain, AddIgnored, RankFill, RankSkip,
         RankAppend, RankReplace, Ranked, Admit
<1>o. /\ i = okLines + Len(deferred) + stats.rejected
      /\ okLines = Len(entries) + Cardinality(Leaked)
  BY <1>n DEF OkInv, OkLinesAccounted
<1>l. /\ Cardinality(Leaked) \in Nat
      /\ SameLeak => IsFiniteSet(Leaked') /\ Cardinality(Leaked') = Cardinality(Leaked)
      /\ OneMoreLeak => /\ IsFiniteSet(Leaked')
                        /\ Cardinality(Leaked') = Cardinality(Leaked) + 1
  BY LeakCount
<1>k. /\ stats \in Stats /\ Keypoints(f.image) \in Nat
      /\ CountKeypoints(stats, Keypoints(f.image)) \in Stats
      /\ CountKeypoints(stats, Keypoints(f.image)).rejected = stats.rejected
  <2>1. stats \in Stats /\ Keypoints(f.image) \in Nat
    BY FrameFacts DEF TypeInv, TypeOK
  <2> QED
    BY <2>1, CountKeypointsType DEF CountKeypoints, Stats
<1>1. ASSUME UNCHANGED <<heap, entries, deferred, okLines>>,
             stats'.rejected = stats.rejected + 1
      PROVE  OkInv'
  <2>1. SameLeak
    BY <1>1 DEF SameLeak, Leaked, Allocated
  <2> QED
    BY <1>1, <1>c, <1>n, <1>o, <1>l, <2>1 DEF Counts, OkInv, OkLinesAccounted
<1>2. CASE \/ RejectUnread(f) \/ RejectFlat(f) \/ RejectUnextracted(f)
           \/ RejectFewKeypoints(f)
  <2>1. UNCHANGED <<heap, entries, deferred, okLines>>
    BY <1>2 DEF RejectUnread, RejectFlat, RejectUnextracted, RejectFewKeypoints, KeepAll
  <2>2. \A s \in Stats :
           /\ [s EXCEPT !.rejected = @ + 1].rejected = s.rejected + 1
           /\ [s EXCEPT !.rejected = @ + 1, !.stddevRejected = @ + 1].rejected
                 = s.rejected + 1
    BY DEF Stats
  <2>3. stats'.rejected = stats.rejected + 1
    BY <1>2, <1>k, <2>2
       DEF RejectUnread, RejectFlat, RejectUnextracted, RejectFewKeypoints
  <2> QED
    BY <1>1, <2>1, <2>3
<1>h. ASSUME NEW a \in Addr, Admit(f, a), heap' = AllocInfo(heap, a, f.image)
      PROVE  /\ stats'.rejected = stats.rejected
             /\ a \notin Allocated(heap) /\ Allocated(heap') = Allocated(heap) \cup {a}
             /\ \A k \in DOMAIN entries : entries[k] # a
             /\ \A k \in DOMAIN deferred : deferred[k] # a
  <2>1. heap[a] = Free /\ stats' = CountKeypoints(stats, Keypoints(f.image))
    BY <1>h DEF Admit
  <2>2. f.image # Free
    BY FrameFacts
  <2>3. heap \in Heap
    BY DEF TypeInv, TypeOK
  <2> QED
    BY <1>h, <1>k, <2>1, <2>2, <2>3 DEF Allocated, AllocInfo, Heap, PointersSound
<1>3. ASSUME NEW a \in Addr, Defer(f, a)
      PROVE  OkInv'
  <2>1. /\ Admit(f, a) /\ heap' = AllocInfo(heap, a, f.image)
        /\ deferred' = Append(deferred, a) /\ entries' = entries /\ okLines' = okLines
    BY <1>3 DEF Defer
  <2>2. /\ Len(deferred') = Len(deferred) + 1
        /\ \A b : (\A k \in DOMAIN deferred' : deferred'[k] # b)
                     <=> b # a /\ \A k \in DOMAIN deferred : deferred[k] # b
    <3>1. deferred \in Seq(Addr)
      BY DEF TypeInv, TypeOK
    <3>2. /\ Len(deferred') = Len(deferred) + 1
          /\ DOMAIN deferred' = 1 .. Len(deferred) + 1
          /\ DOMAIN deferred = 1 .. Len(deferred)
          /\ deferred'[Len(deferred) + 1] = a
          /\ \A k \in DOMAIN deferred : deferred'[k] = deferred[k]
      BY <2>1, <3>1
    <3> QED
      BY <3>1, <3>2
  <2>3. SameLeak
    BY <1>h, <2>1, <2>2 DEF SameLeak, Leaked
  <2> QED
    BY <1>c, <1>n, <1>o, <1>l, <1>h, <2>1, <2>2, <2>3
       DEF Counts, OkInv, OkLinesAccounted
<1>4. ASSUME NEW a \in Addr, AddPlain(f, a)
      PROVE  OkInv'
  <2>1. /\ Admit(f, a) /\ heap' = AllocInfo(heap, a, f.image)
        /\ entries' = Append(entries, a) /\ deferred' = deferred /\ okLines' = okLines + 1
    BY <1>4 DEF AddPlain, Store
  <2>2. /\ Len(entries') = Len(entries) + 1
        /\ \A b : (\A k \in DOMAIN entries' : entries'[k] # b)
                     <=> b # a /\ \A k \in DOMAIN entries : entries[k] # b
    <3>1. entries \in Seq(Addr)
      BY DEF TypeInv, TypeOK
    <3>2. /\ Len(entries') = Len(entries) + 1
          /\ DOMAIN entries' = 1 .. Len(entries) + 1
          /\ DOMAIN entries = 1 .. Len(entries)
          /\ entries'[Len(entries) + 1] = a
          /\ \A k \in DOMAIN entries : entries'[k] = entries[k]
      BY <2>1, <3>1
    <3> QED
      BY <3>1, <3>2
  <2>3. SameLeak
    BY <1>h, <2>1, <2>2 DEF SameLeak, Leaked
  <2> QED
    BY <1>c, <1>n, <1>o, <1>l, <1>h, <2>1, <2>2, <2>3
       DEF Counts, OkInv, OkLinesAccounted
<1>5. ASSUME NEW a \in Addr, AddIgnored(f, a)
      PROVE  OkInv'
  <2>1. /\ Admit(f, a) /\ heap' = AllocInfo(heap, a, f.image)
        /\ UNCHANGED <<entries, deferred>> /\ okLines' = okLines + 1
    BY <1>5 DEF AddIgnored
  <2>2. a \notin Leaked /\ Leaked' = Leaked \cup {a}
    BY <1>h, <2>1 DEF Leaked
  <2>3. OneMoreLeak
    BY <2>2 DEF OneMoreLeak
  <2> QED
    BY <1>c, <1>n, <1>o, <1>l, <1>h, <2>1, <2>3
       DEF Counts, OkInv, OkLinesAccounted
<1>6. ASSUME NEW a \in Addr,
             RankFill(f, a) \/ RankSkip(f, a) \/ RankAppend(f, a) \/ RankReplace(f, a)
      PROVE  FALSE
  BY <1>6 DEF RankFill, RankSkip, RankAppend, RankReplace, Ranked
<1> QED
  BY <1>2, <1>3, <1>4, <1>5, <1>6

LEMMA LenientStepOk ==
    ASSUME Sound, OkInv, ~opts.qualityEnroll, LenientStep
    PROVE  OkInv'
<1> USE DEF Sound
<1>c. Counts
  BY CountsType
<1>n. /\ phase = "lenient" /\ phase' = phase /\ opts' = opts
      /\ deferred # <<>> /\ deferred' = Tail(deferred)
  BY DEF LenientStep, LenientAdd, LenientIgnored, LenientSkip, NextDeferred
<1>o. okLines = Len(entries) + Cardinality(Leaked)
  BY <1>n DEF OkInv, OkLinesAccounted
<1>l. /\ Cardinality(Leaked) \in Nat
      /\ SameLeak => IsFiniteSet(Leaked') /\ Cardinality(Leaked') = Cardinality(Leaked)
      /\ OneMoreLeak => /\ IsFiniteSet(Leaked')
                        /\ Cardinality(Leaked') = Cardinality(Leaked) + 1
  BY LeakCount
<1> DEFINE h == Head(deferred)
<1>t. /\ deferred \in Seq(Addr) /\ entries \in Seq(Addr) /\ heap \in Heap
      /\ DOMAIN deferred = 1 .. Len(deferred) /\ Len(deferred) \in Nat \ {0}
      /\ DOMAIN deferred' = 1 .. Len(deferred) - 1
      /\ h = deferred[1] /\ h \in Addr
      /\ \A k \in DOMAIN deferred' : deferred'[k] = deferred[k + 1]
  BY <1>n, HeadTailProperties DEF TypeInv, TypeOK
<1> HIDE DEF h
<1>p. /\ heap[h] # Free
      /\ \A k \in DOMAIN entries : entries[k] # h
      /\ \A k \in DOMAIN deferred : k # 1 => deferred[k] # h
  <2>1. 1 \in DOMAIN deferred
    BY <1>t
  <2> QED
    BY <1>t, <2>1 DEF PointersSound
<1>d. \A b : (\A k \in DOMAIN deferred : deferred[k] # b)
                <=> b # h /\ \A k \in DOMAIN deferred' : deferred'[k] # b
  <2>1. \A k \in DOMAIN deferred : k # 1 => k - 1 \in DOMAIN deferred' /\ (k - 1) + 1 = k
    BY <1>t
  <2>2. \A k \in DOMAIN deferred' : k + 1 \in DOMAIN deferred
    BY <1>t
  <2>3. 1 \in DOMAIN deferred
    BY <1>t
  <2> QED
    BY <1>t, <2>1, <2>2, <2>3
<1>e. \A k \in DOMAIN deferred' : deferred'[k] # h
  <2>1. \A k \in DOMAIN deferred' : k + 1 \in DOMAIN deferred /\ k + 1 # 1
    BY <1>t
  <2> QED
    BY <1>t, <1>p, <2>1
<1>1. CASE LenientAdd
  <2>1. /\ entries' = Append(entries, h) /\ heap' = heap /\ okLines' = okLines + 1
    BY <1>1 DEF LenientAdd, Store, h
  <2>2. /\ Len(entries') = Len(entries) + 1
        /\ \A b : (\A k \in DOMAIN entries' : entries'[k] # b)
                     <=> b # h /\ \A k \in DOMAIN entries : entries[k] # b
    <3>1. /\ Len(entries') = Len(entries) + 1
          /\ DOMAIN entries' = 1 .. Len(entries) + 1
          /\ DOMAIN entries = 1 .. Len(entries)
          /\ entries'[Len(entries) + 1] = h
          /\ \A k \in DOMAIN entries : entries'[k] = entries[k]
      BY <1>t, <2>1
    <3> QED
      BY <1>t, <3>1
  <2>3. SameLeak
    <3>1. \A b : b \in Leaked' <=> b \in Leaked
      BY <1>d, <2>1, <2>2 DEF Leaked
    <3> QED
      BY <3>1 DEF SameLeak
  <2> QED
    BY <1>c, <1>n, <1>o, <1>l, <2>1, <2>2, <2>3 DEF Counts, OkInv, OkLinesAccounted
<1>2. CASE LenientIgnored
  <2>1. entries' = entries /\ heap' = heap /\ okLines' = okLines + 1
    BY <1>2 DEF LenientIgnored
  <2>2. h \notin Leaked /\ Leaked' = Leaked \cup {h}
    <3>1. h \notin Leaked
      BY <1>d DEF Leaked
    <3>2. \A b : b \in Leaked' <=> b \in Leaked \cup {h}
      BY <1>d, <1>e, <1>p, <1>t, <2>1 DEF Leaked, Allocated
    <3> QED
      BY <3>1, <3>2
  <2>3. OneMoreLeak
    BY <1>t, <2>2 DEF OneMoreLeak
  <2> QED
    BY <1>c, <1>n, <1>o, <1>l, <2>1, <2>3 DEF Counts, OkInv, OkLinesAccounted
<1>3. CASE LenientSkip
  <2>1. /\ UNCHANGED <<entries, okLines>>
        /\ \A b \in Addr : heap'[b] = IF b = h THEN Free ELSE heap[b]
    BY <1>3, <1>t DEF LenientSkip, FreeInfo, Heap, h
  <2>2. SameLeak
    <3>1. \A b : b \in Leaked' <=> b \in Leaked
      BY <1>d, <2>1 DEF Leaked, Allocated
    <3> QED
      BY <3>1 DEF SameLeak
  <2> QED
    BY <1>c, <1>n, <1>o, <1>l, <2>1, <2>2 DEF Counts, OkInv, OkLinesAccounted
<1> QED
  BY <1>1, <1>2, <1>3 DEF LenientStep

\* Without quality ranking every file is reported as OK, deferred or rejected,
\* each once, and the OKs are the entries and the frames the array had no
\* room for, which stay allocated.
THEOREM EnrollmentOkLines == Spec => []OkLinesAccounted
<1> DEFINE Inv == ~opts.qualityEnroll /\ phase \in {"enroll", "lenient"} => OkInv
<1>1. Init => Inv
  <2> SUFFICES ASSUME Init
               PROVE  OkInv
    OBVIOUS
  <2>1. Leaked = {} /\ Len(entries) = 0 /\ Len(deferred) = 0 /\ stats.rejected = 0
    BY DEF Init, Leaked, Allocated, EmptyStats
  <2>2. IsFiniteSet({}) /\ Cardinality({}) = 0
    BY FS_EmptySet
  <2> QED
    BY <2>1, <2>2 DEF Init, OkInv, OkLinesAccounted
<1>2. Sound /\ Inv /\ [Next]_vars => Inv'
  <2> SUFFICES ASSUME Sound, Inv, [Next]_vars
               PROVE  Inv'
    OBVIOUS
  <2>1. CASE FrameStep
    <3>1. phase = "enroll" /\ opts' = opts
      BY <2>1 DEF FrameStep, RejectUnread, RejectFlat, RejectUnextracted,
         RejectFewKeypoints, Defer, AddPlain, AddIgnored, RankFill, RankSkip,
         RankAppend, RankReplace, Ranked, Admit, NextFrame
    <3> QED
      BY <2>1, <3>1, FrameStepOk DEF FrameStep
  <2>2. CASE LenientStep
    <3>1. phase = "lenient" /\ opts' = opts
      BY <2>2 DEF LenientStep, LenientAdd, LenientIgnored, LenientSkip, NextDeferred
    <3> QED
      BY <2>2, <3>1, LenientStepOk
  <2>3. CASE EnrollEnd
    <3>1. Leaked' = Leaked
      BY <2>3 DEF EnrollEnd, Leaked, Allocated
    <3> QED
      BY <2>3, <3>1 DEF EnrollEnd, OkInv, OkLinesAccounted
  <2>4. CASE Report \/ SortStep \/ PruneStep
    BY <2>4 DEF Report, SortStep, SortSkip, SortScore, SortExchange, SortTruncate,
           PruneStep, PruneOne, PruneEnd
  <2>5. CASE UNCHANGED vars
    <3>1. Leaked' = Leaked
      BY <2>5 DEF vars, Leaked, Allocated
    <3> QED
      BY <2>5, <3>1 DEF vars, OkInv, OkLinesAccounted
  <2> QED
    BY <2>1, <2>2, <2>3, <2>4, <2>5 DEF Next
<1>3. Inv => OkLinesAccounted
  BY DEF OkInv, OkLinesAccounted
<1> QED
  BY <1>1, <1>2, <1>3, AlwaysSound, PTL DEF Spec
=============================================================================
