----------------------------- MODULE Enrollment -----------------------------
(***************************************************************************)
(* The enrollment half of main() in tools/benchmark/sigfm-batch.c: the     *)
(* loop over the enrollment files, the lenient phase of progressive        *)
(* enrollment (E6), the report, and the post-processing of the template    *)
(* (sort and diversity pruning, E5).  One action per outcome of a loop     *)
(* iteration, in the order of the code's early continues.                  *)
(*                                                                         *)
(* phase, opts, heap, entries, scores and exitCode are shared with the     *)
(* verification half, which starts at phase "enrolled".                    *)
(***************************************************************************)
EXTENDS Options

VARIABLES
    phase,          \* which loop of main() is running
    opts,           \* the parsed options
    heap,           \* the C heap, as far as SigfmImgInfo blocks go
    entries,        \* Template.entries[0 .. count-1]
    scores,         \* Template.scores[0 .. count-1]
    exitCode,       \* exit status, -1 while running
    i,              \* enrollment files read so far
    deferred,       \* deferred_info[], as far as not yet consumed
    stats,          \* enroll_rejected ... enroll_kp_total
    okLines,        \* lines printed as "OK" (a frame reported as enrolled)
    lost,           \* history: most keypoints of a frame E4 turned away
    cursor,         \* the two indices of the exchange sort
    strayStdout     \* human-readable text was printed on a CSV stdout

vars == <<phase, opts, heap, entries, scores, exitCode,
          i, deferred, stats, okLines, lost, cursor, strayStdout>>

EmptyStats == [rejected |-> 0, stddevRejected |-> 0,
               kpMin |-> KP_MIN_START, kpMax |-> 0, kpTotal |-> 0]

\* template_init, the initial counters, and the options as parsed.
Init ==
    /\ phase = "enroll"
    /\ opts \in OptionSets
    /\ heap = [a \in Addr |-> Free]
    /\ entries = <<>>
    /\ scores = <<>>
    /\ exitCode = -1
    /\ i = 0
    /\ deferred = <<>>
    /\ stats = EmptyStats
    /\ okLines = 0
    /\ lost = 0
    /\ cursor = <<1, 2>>
    /\ strayStdout = FALSE

\* The images the template's pointers lead to.
Images == [k \in DOMAIN entries |-> heap[entries[k]]]

Larger(m, n)  == IF m < n THEN n ELSE m
Smaller(m, n) == IF m < n THEN m ELSE n

-----------------------------------------------------------------------------
(* The loop over the enrollment files.                                     *)

NextFrame ==
    /\ phase = "enroll"
    /\ i < opts.nEnroll
    /\ i' = i + 1
    /\ UNCHANGED <<phase, opts, exitCode, cursor, strayStdout>>

KeepAll == UNCHANGED <<heap, entries, scores, deferred, okLines, lost>>

RejectUnread(f) ==
    /\ NextFrame
    /\ Unreadable(f)
    /\ stats' = [stats EXCEPT !.rejected = @ + 1]
    /\ KeepAll

RejectFlat(f) ==
    /\ NextFrame
    /\ Flat(opts, f)
    /\ stats' = [stats EXCEPT !.rejected = @ + 1, !.stddevRejected = @ + 1]
    /\ KeepAll

\* sigfm_extract found nothing, or no memory.
RejectUnextracted(f) ==
    /\ NextFrame
    /\ \/ NoFeatures(opts, f)
       \/ Extractable(opts, f) /\ Allocated(heap) = Addr
    /\ stats' = [stats EXCEPT !.rejected = @ + 1]
    /\ KeepAll

\* The keypoint statistics count every extracted frame, gated ones included.
CountKeypoints(s, kp) ==
    [s EXCEPT !.kpMin = Smaller(kp, @), !.kpMax = Larger(@, kp), !.kpTotal = @ + kp]

\* Extracted and freed again within the iteration.
RejectFewKeypoints(f) ==
    /\ NextFrame
    /\ TooFewKeypoints(opts, f)
    /\ Allocated(heap) # Addr
    /\ stats' = [CountKeypoints(stats, Keypoints(f.image)) EXCEPT !.rejected = @ + 1]
    /\ KeepAll

\* Mutant: the strict phase ends one slot early.
BugStrictPhase == opts.progressive /\ Len(entries) + 1 < HalfOf(opts)

StrictPhase == opts.progressive /\ Len(entries) < HalfOf(opts)

BelowStrict(f) == StrictPhase /\ Keypoints(f.image) < opts.progressiveStrict

\* The frame passed every gate and its info now lives at address a.
Admit(f, a) ==
    /\ NextFrame
    /\ Usable(opts, f)
    /\ heap[a] = Free
    /\ stats' = CountKeypoints(stats, Keypoints(f.image))

\* Mutant: the continue after the deferral is missing.
BugDefer(f, a) ==
    /\ Admit(f, a)
    /\ BelowStrict(f)
    /\ heap' = AllocInfo(heap, a, f.image)
    /\ deferred' = Append(deferred, a)
    /\ entries' = Append(entries, a)
    /\ scores' = Append(scores, 0)
    /\ okLines' = okLines + 1
    /\ UNCHANGED lost

Defer(f, a) ==
    /\ Admit(f, a)
    /\ BelowStrict(f)
    /\ heap' = AllocInfo(heap, a, f.image)
    /\ deferred' = Append(deferred, a)
    /\ UNCHANGED <<entries, scores, okLines, lost>>

\* Append a to the template and report it.
Store(a, score) ==
    /\ entries' = Append(entries, a)
    /\ scores' = Append(scores, score)
    /\ okLines' = okLines + 1

\* template_add succeeded.
AddPlain(f, a) ==
    /\ Admit(f, a)
    /\ ~BelowStrict(f)
    /\ ~opts.qualityEnroll
    /\ Len(entries) < MAX_TEMPLATE_ENTRIES
    /\ heap' = AllocInfo(heap, a, f.image)
    /\ Store(a, 0)
    /\ UNCHANGED <<deferred, lost>>

\* template_add returned -1, which the caller ignores.
AddIgnored(f, a) ==
    /\ Admit(f, a)
    /\ ~BelowStrict(f)
    /\ ~opts.qualityEnroll
    /\ Len(entries) >= MAX_TEMPLATE_ENTRIES
    /\ heap' = AllocInfo(heap, a, f.image)
    /\ okLines' = okLines + 1
    /\ UNCHANGED <<entries, scores, deferred, lost>>

Ranked(f, a) ==
    /\ Admit(f, a)
    /\ ~BelowStrict(f)
    /\ opts.qualityEnroll
    /\ UNCHANGED deferred

\* template_add_quality, phase 1: fill up unconditionally.
RankFill(f, a) ==
    /\ Ranked(f, a)
    /\ Len(entries) < HalfOf(opts)
    /\ heap' = AllocInfo(heap, a, f.image)
    /\ Store(a, Keypoints(f.image))
    /\ UNCHANGED lost

\* Mutant: the loop over the scores is left out.
BugWeakestScore == IF scores = <<>> THEN 0 ELSE scores[1]

\* scores[0] is still zero when the template is empty.
WeakestScore == IF scores = <<>> THEN 0 ELSE scores[WeakestIndex(scores)]

\* Mutant: the rejected info is not freed.
BugRankSkip(f, a) ==
    /\ Ranked(f, a)
    /\ Len(entries) >= HalfOf(opts)
    /\ Keypoints(f.image) <= WeakestScore
    /\ heap' = AllocInfo(heap, a, f.image)
    /\ lost' = Larger(lost, Keypoints(f.image))
    /\ UNCHANGED <<entries, scores, okLines>>

\* Phase 2, no better than the weakest entry: freed again.
RankSkip(f, a) ==
    /\ Ranked(f, a)
    /\ Len(entries) >= HalfOf(opts)
    /\ Keypoints(f.image) <= WeakestScore
    /\ lost' = Larger(lost, Keypoints(f.image))
    /\ UNCHANGED <<heap, entries, scores, okLines>>

RankAppend(f, a) ==
    /\ Ranked(f, a)
    /\ Len(entries) >= HalfOf(opts)
    /\ Keypoints(f.image) > WeakestScore
    /\ Len(entries) < MAX_TEMPLATE_ENTRIES
    /\ heap' = AllocInfo(heap, a, f.image)
    /\ Store(a, Keypoints(f.image))
    /\ UNCHANGED lost

RankReplace(f, a) ==
    /\ Ranked(f, a)
    /\ Len(entries) >= HalfOf(opts)
    /\ Keypoints(f.image) > WeakestScore
    /\ Len(entries) >= MAX_TEMPLATE_ENTRIES
    /\ LET worst == WeakestIndex(scores)
       IN  /\ heap' = AllocInfo(FreeInfo(heap, entries[worst]), a, f.image)
           /\ entries' = [entries EXCEPT ![worst] = a]
           /\ scores' = [scores EXCEPT ![worst] = Keypoints(f.image)]
           /\ lost' = Larger(lost, Keypoints(heap[entries[worst]]))
    /\ okLines' = okLines + 1

EnrollEnd ==
    /\ phase = "enroll"
    /\ i = opts.nEnroll
    /\ phase' = "lenient"
    /\ UNCHANGED <<opts, heap, entries, scores, exitCode,
                   i, deferred, stats, okLines, lost, cursor, strayStdout>>

-----------------------------------------------------------------------------
(* The lenient phase: deferred frames fill the slots that remain.          *)

NextDeferred ==
    /\ phase = "lenient"
    /\ deferred # <<>>
    /\ deferred' = Tail(deferred)
    /\ UNCHANGED <<phase, opts, exitCode, i, stats, lost, cursor, strayStdout>>

LenientAdd ==
    /\ NextDeferred
    /\ Len(entries) < opts.maxSubtemplates
    /\ Len(entries) < MAX_TEMPLATE_ENTRIES
    /\ Store(Head(deferred), 0)
    /\ UNCHANGED heap

\* template_add returned -1 here, too.
LenientIgnored ==
    /\ NextDeferred
    /\ Len(entries) < opts.maxSubtemplates
    /\ Len(entries) >= MAX_TEMPLATE_ENTRIES
    /\ okLines' = okLines + 1
    /\ UNCHANGED <<heap, entries, scores>>

\* Mutant: the continue after the free is missing.
BugLenientSkip ==
    /\ NextDeferred
    /\ Len(entries) >= opts.maxSubtemplates
    /\ heap' = FreeInfo(heap, Head(deferred))
    /\ Store(Head(deferred), 0)

LenientSkip ==
    /\ NextDeferred
    /\ Len(entries) >= opts.maxSubtemplates
    /\ heap' = FreeInfo(heap, Head(deferred))
    /\ UNCHANGED <<entries, scores, okLines>>

\* The report; nothing enrolled ends the program.
Report ==
    /\ phase = "lenient"
    /\ deferred = <<>>
    /\ \/ entries = <<>> /\ phase' = "done" /\ exitCode' = 1
       \/ entries # <<>> /\ phase' = "sort" /\ exitCode' = exitCode
    /\ UNCHANGED <<opts, heap, entries, scores,
                   i, deferred, stats, okLines, lost, cursor, strayStdout>>

-----------------------------------------------------------------------------
(* --sort-subtemplates: rank by average score, keep the best.              *)

SortNeeded == opts.sort /\ Len(entries) > opts.maxSubtemplates

SortSkip ==
    /\ phase = "sort"
    /\ ~SortNeeded
    /\ phase' = "prune"
    /\ UNCHANGED <<opts, heap, entries, scores, exitCode,
                   i, deferred, stats, okLines, lost, cursor, strayStdout>>

SortScore ==
    /\ phase = "sort"
    /\ SortNeeded
    /\ scores' = CrossAverages(Images)
    /\ cursor' = <<1, 2>>
    /\ phase' = "exchange"
    /\ UNCHANGED <<opts, heap, entries, exitCode,
                   i, deferred, stats, okLines, lost, strayStdout>>

Swap(s, j, k) == [s EXCEPT ![j] = s[k], ![k] = s[j]]

\* Mutant: the inner index does not advance.
BugNextCursor(j, k) == IF k < Len(entries) THEN <<j, k>> ELSE <<j + 1, j + 2>>

\* The indices after an iteration of the inner loop, and of the outer one when
\* the inner one ends.
NextCursor(j, k) == IF k < Len(entries) THEN <<j, k + 1>> ELSE <<j + 1, j + 2>>

\* Mutant: the scores are exchanged without their entries.
BugSortExchange ==
    LET j == cursor[1]
        k == cursor[2]
    IN  /\ phase = "exchange"
        /\ j < Len(entries)
        /\ scores' = IF scores[k] > scores[j] THEN Swap(scores, j, k) ELSE scores
        /\ cursor' = NextCursor(j, k)
        /\ UNCHANGED <<phase, opts, heap, entries, exitCode,
                       i, deferred, stats, okLines, lost, strayStdout>>

SortExchange ==
    LET j == cursor[1]
        k == cursor[2]
    IN  /\ phase = "exchange"
        /\ j < Len(entries)
        /\ \/ /\ scores[k] > scores[j]
              /\ entries' = Swap(entries, j, k)
              /\ scores' = Swap(scores, j, k)
           \/ /\ scores[k] <= scores[j]
              /\ UNCHANGED <<entries, scores>>
        /\ cursor' = NextCursor(j, k)
        /\ UNCHANGED <<phase, opts, heap, exitCode,
                       i, deferred, stats, okLines, lost, strayStdout>>

Excess == {entries[k] : k \in opts.maxSubtemplates + 1 .. Len(entries)}

Keep(s, n) == [k \in 1 .. n |-> s[k]]

\* Free the excess entries; the closing message goes to stdout even in CSV
\* mode, where every other message goes to stderr.
SortTruncate ==
    /\ phase = "exchange"
    /\ cursor[1] = Len(entries)
    /\ heap' = [a \in Addr |-> IF a \in Excess THEN Free ELSE heap[a]]
    /\ entries' = Keep(entries, opts.maxSubtemplates)
    /\ scores' = Keep(scores, opts.maxSubtemplates)
    /\ strayStdout' = opts.csv
    /\ phase' = "prune"
    /\ UNCHANGED <<opts, exitCode, i, deferred, stats, okLines, lost, cursor>>

-----------------------------------------------------------------------------
(* --diversity-prune: drop the redundant entry of the most similar pair.   *)

Without(s, r) == [k \in 1 .. Len(s) - 1 |-> IF k < r THEN s[k] ELSE s[k + 1]]

PruneNeeded == opts.diversityPrune /\ Len(entries) > opts.maxSubtemplates

PruneOne ==
    /\ phase = "prune"
    /\ PruneNeeded
    /\ LET r == RedundantIndex(Images)
       IN  /\ heap' = FreeInfo(heap, entries[r])
           /\ entries' = Without(entries, r)
           /\ scores' = Without(scores, r)
    /\ UNCHANGED <<phase, opts, exitCode,
                   i, deferred, stats, okLines, lost, cursor, strayStdout>>

PruneEnd ==
    /\ phase = "prune"
    /\ ~PruneNeeded
    /\ phase' = "enrolled"
    /\ UNCHANGED <<opts, heap, entries, scores, exitCode,
                   i, deferred, stats, okLines, lost, cursor, strayStdout>>

-----------------------------------------------------------------------------
FrameStep ==
    \E f \in Frame :
       \/ RejectUnread(f)
       \/ RejectFlat(f)
       \/ RejectUnextracted(f)
       \/ RejectFewKeypoints(f)
       \/ \E a \in Addr :
             \/ Defer(f, a)
             \/ AddPlain(f, a)
             \/ AddIgnored(f, a)
             \/ RankFill(f, a)
             \/ RankSkip(f, a)
             \/ RankAppend(f, a)
             \/ RankReplace(f, a)

LenientStep == LenientAdd \/ LenientIgnored \/ LenientSkip

SortStep == SortSkip \/ SortScore \/ SortExchange \/ SortTruncate

PruneStep == PruneOne \/ PruneEnd

Next ==
    \/ FrameStep
    \/ EnrollEnd
    \/ LenientStep
    \/ Report
    \/ SortStep
    \/ PruneStep

Spec == Init /\ [][Next]_vars

-----------------------------------------------------------------------------
(* Properties                                                              *)

Phase == {"enroll", "lenient", "sort", "exchange", "prune", "enrolled",
          "verify", "done"}

Stats == [rejected : Nat, stddevRejected : Nat, kpMin : Nat, kpMax : Nat, kpTotal : Nat]

\* The type invariant; the two arrays of Template stay equally long.  Scores
\* that sorting writes are never read once it is over.
TypeOK ==
    /\ phase \in Phase
    /\ opts \in OptionSets
    /\ heap \in Heap
    /\ entries \in Seq(Addr)
    /\ DOMAIN scores = DOMAIN entries
    /\ phase \in {"enroll", "lenient"} => scores \in Seq(Nat)
    /\ exitCode \in {-1, 0, 1}
    /\ i \in Nat
    /\ deferred \in Seq(Addr)
    /\ stats \in Stats
    /\ okLines \in Nat
    /\ lost \in Nat
    /\ cursor \in Nat \X Nat
    /\ strayStdout \in BOOLEAN

\* Every pointer main() holds - in the template or in deferred_info - leads to
\* a live SigfmImgInfo, and no two pointers share one: no use after free and
\* no double free, whatever sort, prune, replace and skip did before.
PointersSound ==
    /\ \A k \in DOMAIN entries : heap[entries[k]] # Free
    /\ \A k \in DOMAIN deferred : heap[deferred[k]] # Free
    /\ \A j, k \in DOMAIN entries : j # k => entries[j] # entries[k]
    /\ \A j, k \in DOMAIN deferred : j # k => deferred[j] # deferred[k]
    /\ \A j \in DOMAIN entries, k \in DOMAIN deferred : entries[j] # deferred[k]

\* Every live SigfmImgInfo is reachable from the template or deferred_info.
Reachable ==
    \A a \in Addr : heap[a] # Free =>
        \/ \E k \in DOMAIN entries : entries[k] = a
        \/ \E k \in DOMAIN deferred : deferred[k] = a

\* Nothing leaks as long as the files cannot outnumber the template's slots
\* (template_add's ignored -1 is the only leak).
NoLeak == opts.nEnroll <= MAX_TEMPLATE_ENTRIES => Reachable

Leaked ==
    {a \in Allocated(heap) :
        /\ \A k \in DOMAIN entries : entries[k] # a
        /\ \A k \in DOMAIN deferred : deferred[k] # a}

\* Without ranking, every file is reported as OK, deferred or rejected, each once,
\* and an OK stands for an entry or for a frame that template_add had no room for
\* and that is never freed (lines 664 and 680).
OkLinesAccounted ==
    ~opts.qualityEnroll =>
        /\ phase = "enroll" => i = okLines + Len(deferred) + stats.rejected
        /\ phase \in {"enroll", "lenient"} => okLines = Len(entries) + Cardinality(Leaked)

\* The template never outgrows its arrays, which template_add_quality's first
\* phase leaves to the caller: half of max_subtemplates has to fit.
CapacityRespected ==
    HalfOf(opts) <= MAX_TEMPLATE_ENTRIES => Len(entries) <= MAX_TEMPLATE_ENTRIES

\* E4 in the main loop: no frame that quality ranking skipped or replaced has
\* more keypoints than any entry still in the template.
RankingKeepsBest ==
    phase = "enroll" /\ opts.qualityEnroll =>
        \A k \in DOMAIN entries : Keypoints(heap[entries[k]]) >= lost

\* E6: the core half of the template holds only frames of strict quality,
\* until the lenient phase starts.
StrictCore ==
    phase = "enroll" /\ opts.progressive =>
        \A k \in DOMAIN entries :
            k <= HalfOf(opts) =>
                Keypoints(heap[entries[k]]) >= opts.progressiveStrict

\* What verification starts from: at least one entry, and at most
\* max_subtemplates when sorting or pruning was asked for.
ReadyTemplate ==
    phase = "enrolled" =>
        /\ entries # <<>>
        /\ deferred = <<>>
        /\ opts.sort \/ opts.diversityPrune =>
              Len(entries) <= opts.maxSubtemplates

\* The exchange sort and the truncation keep the best-connected entries: no
\* entry freed as excess has a higher average score than one that is kept.
SortKeepsBestConnected ==
    [][SortTruncate =>
         \A j, k \in DOMAIN entries :
            j <= opts.maxSubtemplates /\ k > opts.maxSubtemplates =>
                CrossAverage(Images, j) >= CrossAverage(Images, k)]_vars

MostKeypoints(t) == Max({Keypoints(t[k]) : k \in DOMAIN t})

\* Diversity pruning never drops the template's richest frame.
PruneKeepsRichest ==
    [][phase = "prune" => MostKeypoints(Images') = MostKeypoints(Images)]_vars

-----------------------------------------------------------------------------
(* Claims of the repository that the code does not keep                    *)

\* sigfm-batch.c:565 reserves stdout for CSV lines in CSV mode.
CsvStdoutClean == ~strayStdout

\* analysis/15-advancement-strategy.md:802 and 838: --sort-subtemplates sorts by
\* keypoint count and drops the frames with few.  The code sorts by the average
\* score against the other entries.
SortKeepsMostKeypoints ==
    [][SortTruncate =>
         \A j, k \in DOMAIN entries :
            j <= opts.maxSubtemplates /\ k > opts.maxSubtemplates =>
                Keypoints(Images[j]) >= Keypoints(Images[k])]_vars
=============================================================================
