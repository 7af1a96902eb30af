# Formal models of the libfprint-27c6-5110 tools

This directory holds TLA+ models of the programs this repository keeps around
the libfprint driver for the Goodix 27c6:5110 fingerprint sensor, the TLC runs
that check them on small instances, and TLAPS proofs of the properties that
matter most for every instance. `PROJECT.json` is the index: components, runs,
mutants, findings, hazards, theorems, and for every definition the source lines
it stands for.

## 1. The system

The driver itself and the SIGFM matcher live in the `libfprint-fork` submodule,
which is not part of this tree. The tree contains the benchmark that decides how
the driver builds and adapts a fingerprint template, the scripts around it, two
viability tests of the NBIS matcher, and the decompiled Windows driver whose
template handling the benchmark's study v2 was taken from.

| Component | State | Operations | Interacts with |
|---|---|---|---|
| `tools/benchmark/sigfm-batch.c` | a `Template` (array of up to 128 owned `SigfmImgInfo` pointers and scores), the deferred frames of progressive enrollment, `StudyState`, counters, a CSV stream | enroll a set of images, sort or prune the template, verify a second set, let matches teach the template | SIGFM (extract, copy, free, match); its CSV or text is parsed by four scripts |
| `tools/benchmark/replay-pipeline.c` | one frame and its 16 and 8 bit copies | calibration subtract, percentile stretch, unsharp mask, crop; batch over a directory | its PGM output is input of `sigfm-batch` |
| `tools/benchmark/capture-corpus.sh` | a corpus directory, counts | capture frames finger by finger | `img-capture` of the driver |
| `tools/benchmark/improvement-sweep.sh`, `study-test.sh` | match, fail and false-accept totals | run `sigfm-batch` for every finger pair, read its CSV | `sigfm-batch` |
| `tools/benchmark/run-tests.sh`, `score-analysis.sh` | totals, score lists | split or shuffle a corpus, read the text output | `sigfm-batch` |
| `tools/scripts/debug-capture.sh` | a FIFO and a background `tee`, the log | run one capture with its log on disk and terminal | driver binaries, `tee` |
| `tools/scripts/install.sh`, `uninstall.sh`, `packaging/` | installed packages | replace libfprint by the fork's package and back | pacman, makepkg |
| `tools/nbis-test/*.c` | an image, its scaled copy, what the library hands out, two tables | detect minutiae, match two images | the NBIS library (not in the tree) |
| `tools/scripts/*.py` | none | one-shot analysis programs | - |
| engine adapter (`analysis/win-decomp/EngineAdapter.c`) | the pipeline's context: session of an enrollment, one cached learned template; globals: counters of an enrollment and an image held back; a backup file, the template database | attach, activate, create / update / discard an enrollment, compare and learn, deactivate (write back), detach | the algorithm library through a table of functions; the storage adapter; the biometric framework, which calls its handlers one at a time |
| algorithm library (`analysis/win-decomp/AlgoMilan.c`) | a template: sub-templates with ages, pair results, search order, anchor, a cache of candidates | register and remove an image, pack, unpack, identify, study | called by the engine adapter |

### What is hard about it

* **Ownership.** `Template.entries` owns what it points to. Ranked replacement,
  deferral, sorting, pruning and both study algorithms free and move those
  pointers by hand; a slip shows up many frames later.
* **Parallel arrays.** Scores, hit counts and keypoint counts sit in arrays of
  their own and must follow every move of an entry.
* **Long histories.** Study v2 has six guards that depend on everything that
  happened before: observations, failures in a row, hits per entry, the moving
  anchor. Most mistakes need several accepted and refused matches to show.
* **Limits.** 128 entries, 512 files, a failure limit, averages by integer
  division, sentinels that start minima and maxima.
* **Accounting.** The program exists to report an error rate; every file must be
  counted in exactly one class on each of the paths through the loop.
* **Processes around a FIFO.** `debug-capture.sh` starts `tee` in the background
  and the binary in the foreground; either may arrive first, block or fail, and
  the log must be read only when it is complete.
* **Directories with a past.** `capture-corpus.sh` judges a capture by the file
  on disk, which an earlier session may have left.
* **A process that may die.** The engine adapter deletes a finger's record before
  it adds the learned one; only a backup file stands between the two, and every
  write, deletion and addition may fail.
* **Globals that outlive their operation.** The image held back while a user
  enrolls is a global which no end of the enrollment clears.
* **Structures kept consistent by hand.** Ages, ranks, row offsets, the search
  order and a ring without a count are each maintained in several functions, and
  study, removal and packing change them in any order.
* **Consumers.** Scripts parse the CSV line by line and take what they do not
  recognise for a failed attempt.

### What makes each component correct

* Enrollment: owns exactly what it allocated; never outgrows its arrays; each
  option keeps the frames it promises (ranked: the best so far; progressive: a
  strict core; sorted: the best connected; pruned: never loses the richest).
* Verification and study: counts each file once; never learns below the study
  threshold or after the lock; replaces only a slot that is not the anchor and
  only if the template gets better connected; keeps its statistics aligned.
* Whole program: what enrollment hands over is what verification needs,
  everything is freed on every path, it stops, and it implements the plain
  promise of `AdaptiveTemplate`.
* Debug capture: reports success only with the verdict on everything this capture
  printed, leaves no FIFO behind, never waits for ever, completes the log.
* Corpus capture: its counts are those of the session but for images that an
  earlier one left, from clean directories its totals are those of the session.
* Engine adapter: the cached template belongs to its finger, a good checksum means
  a whole template, a removed finger does not return by a flush, and no crash or
  failure loses the last copy except where the code has nothing better.
* Engine enrollment: no image counted as enrolled is lost, a row of tips keeps one
  of them, the session and its flag go together, a session fills up only for a
  reason.
* Milan template: rows tile, the search order names every sub-template, plain ages
  number them, ranks are dense, a candidate pass is complete and ends, what was
  learned is reported.
* NBIS tests: nothing freed twice, what is left behind is known, a verdict rests on
  two tables as full as their images allow.
* Planned components: see section 7.

## 2. Modules

| Module | Models | Depends on |
|---|---|---|
| `Sigfm` | external: the C heap of `SigfmImgInfo` blocks and the library's two observations, keypoint count and match score | - |
| `Template` | the decisions about a template, as operators on the sequence of its images: best match, weakest entry, most similar pair, anchor, replacement target | `Sigfm` |
| `Options` | the parsed options and the kinds of image file; the gates both loops share | `Template` |
| `Enrollment` | first half of `main()` (lines 572-745) with `template_add`, `template_add_quality`, `template_diversity_prune` | `Options` |
| `Verification` | second half of `main()` (lines 747-908) with `template_match`, `template_study`, `template_study_v2`, `StudyState` | `Options` |
| `SigfmBatch` | both halves over one template and heap | `INSTANCE Enrollment`, `INSTANCE Verification` |
| `AdaptiveTemplate` | the abstract promise `SigfmBatch` implements | - |
| `DebugCapture` | `debug-capture.sh`: the script, the capture binary and `tee` | - |
| `CaptureCorpus` | `capture-corpus.sh`: both modes over directories that may hold files | - |
| `EngineAdapter` | the learned template of `EngineAdapter.c`: attach, activate, compare, deactivate, detach, with the backup file and crashes | - |
| `EngineEnrollment` | an enrollment of `EngineAdapter.c` over its globals, with the session of the algorithm library | - |
| `MilanTemplate` | the template of `AlgoMilan.c` from enrollment to study and candidate pass | - |
| `NbisTests` | `nbis-minutiae-test.c` and `nbis-bozorth3-test.c` | - |
| `TemplateProofs` | lemmas about the operators of `Template` and about sums over finite sets | `Template` |
| `EnrollmentProofs`, `VerificationProofs` | theorems about the two halves | the module, `TemplateProofs` |
| `SigfmBatchProofs` | theorems about the whole program | `SigfmBatch`, `INSTANCE EnrollmentProofs` |
| `ScriptProofs` | theorems about the two scripts | `DebugCapture`, `CaptureCorpus` |
| `EngineProofs` | theorems about the engine adapter | `EngineAdapter`, `EngineEnrollment` |
| `MilanTemplateProofs`, `NbisTestsProofs` | theorems about the module of that name | the module |
| `MCEnrollment`, `MCVerification`, `MCSigfmBatch`, `MCDebugCapture`, `MCCaptureCorpus`, `MCEngineAdapter`, `MCEngineEnrollment`, `MCMilanTemplate`, `MCNbisTests` | the small instances | |

### State and actions against the code

A pointer is an address of `Addr`; the heap maps an address to the image whose
features the block holds, or to `Free`. So a use after free, a double free and
a leak are all visible, and addresses are reused the way `malloc` may reuse
them. Features are opaque: an image is known by `Keypoints` and `MatchScore`,
which are constants, with nothing assumed but their types (in particular a
match may fail, and scores need not be symmetric).

`entries` and `scores` are the used part of the arrays of `Template`, so
`t->count` is `Len(entries)`; indices are one higher than in C. `phase` says
which loop of `main()` is running. Each action is one whole outcome of one loop
iteration, with the counters, the freeing and the CSV row that belong to it;
the early `continue`s of the code appear as guards in the order of the code
(`Unreadable`, `Flat`, `NoFeatures`, `TooFewKeypoints`, `Usable` in `Options`).
`sigfm_extract` also fails when no address is free.

* Enrollment loop: `RejectUnread`, `RejectFlat`, `RejectUnextracted`,
  `RejectFewKeypoints`, `Defer` (E6), `AddPlain` and `AddIgnored` (`template_add`
  with room and without), `RankFill`, `RankSkip`, `RankAppend`, `RankReplace`
  (`template_add_quality`, E4); `EnrollEnd`.
* Lenient phase: `LenientAdd`, `LenientIgnored`, `LenientSkip`; `Report` prints
  the statistics and stops if nothing was enrolled.
* Post-processing: `SortScore`, `SortExchange` (one iteration of the inner loop;
  `cursor` holds the two indices), `SortTruncate`, `SortSkip`; `PruneOne` (one
  removal, E5), `PruneEnd`.
* Verification: `BeginNothing`, `BeginVerify`, `ReadError`, `GateFlat`,
  `GateUnextracted`, `GateFewKeypoints`, `MatchError`, `Reject`, `AcceptOnly`,
  then for naive study `V1Idle`, `V1Refuse`, `V1Replace`, for study v2 `V2Idle`,
  `V2TooEarly`, `V2Refuse`, `V2Replace`; `Finish`.

`DebugCapture` gives each of the three processes its own program counter (`pc`,
`bin`, `tee`). Opening the FIFO for writing or reading waits until the other side
has arrived (`BinOpens`, `TeeOpens`); only then does `tee` open and so empty the
log. `Exit` is any way out after `mkfifo`, with the trap; `BinFailed` and
`Waited` are the two places where `set -e` ends the script. Ctrl-C ends the
binary (`BinExits`, `BinKilled`) or the waiting script (`Interrupt`), and `tee`,
a background job, ignores it. A binary killed before any reader came leaves `tee`
blocked for good on a FIFO without a name; the properties do not deny that, they
say the script ends and no opened log stays short.

`CaptureCorpus` keeps for each finger and number whether the file is absent,
empty or an image. One run of `img-capture` is an input: it writes an image,
leaves an empty file or does not touch the file, and its log has a keypoint line
or not. `Captured`, `CapturedWithoutKeypoints` and `Failed` are the three ends of
an iteration of `capture_finger`, `Ready`, `Stop` and `EndFinger` the loop over
fingers, `SingleEnd` the other mode. The initial content of the directories is
arbitrary.

`EngineAdapter`. The framework calls one handler at a time, so a handler is one
action up to the first disk operation; from there `pc` names the next one, and
`Crash` may come between any two. `Deactivate` goes on through `WriteBackup`,
`DeleteOld`, `AddNew`, `DropBackup`; `Activate` through `Restore` and
`DropRestored`. Each has the outcomes its code lets happen: a short write, a file
that did not open, an operation refused by the storage adapter. A record is a
finger, how often it was learned from, whether the blob is whole and whether its
last four bytes are the checksum of the rest. `CommitFinger` and `RemoveFinger`
are the framework's; the context has `cached` (the blob, its finger) and `dirty`.

`EngineEnrollment`. One action per outcome of `UpdateEnrollment`: `TipUpdate` (the
image overlaps too much), `GoodUpdate`, `BadUpdate`, `FatalUpdate` (the matcher's
error 0x83), `UpdateRefused`, `UpdateCrashes` (no session); `HoldTip`, `WeighTip`,
`RejoinTip`, `PlainTip` are what becomes of a tip. `gallery` is the matcher's
session: the images in it by the number of their touch, 0 for one of an earlier
enrollment. Overlaps are free choices, so every path of the thresholds is taken.
`gallery.odd` remembers what went wrong in a session, so that a property can say
under which accidents it holds; each of them is an outcome the code ignores. The
framework is as patient as `MayStart` and `MayUpdate` say and may discard, clear
or detach at any time.

`MilanTemplate`. Two families of sensors (`sensor`: types 9 and 10 keep geometry
between pairs of images, the others do not) and two callers: the engine adapter,
which unpacks the stored template for every comparison, and one that keeps the
template in memory. `tpl` has for each sub-template its age and where its row of
pair results starts, and the ranks of the cached candidates. `Growing`,
`Overwritten`, `Inserted`, `Taken` are the library's helpers; `PlainStudy` and
`PairedStudy` give the set of everything one study can do. The candidate pass is a
loop of its own (`TakeChanged`, `PassOver`, `StudyCandidate`, `EndPass`) over the
ring `pass`.

`NbisTests` names every block of memory by the variable that holds it and the image
it belongs to; each read, allocation and library call may fail, and the two
programs differ in what they then do. Where the code writes through a null
pointer the program ends with `Crash`.

History variables that the code does not have: `written` (what the capture
printed), `captured`, `left` and `clean` (what this session captured, the images
an earlier one left, whether the directories were clean), `registered` and
`revived` of `EngineAdapter` (what the user enrolled, what a backup brought
back), `good` and `startFailed` of `EngineEnrollment`, `newest` in a Milan
template, `pass.left`, `twice` and `partial` of `NbisTests`, `lost` (most
keypoints of a frame that ranking turned away), `okLines` (frames reported OK),
`strayStdout` (text printed on the stdout of CSV mode), `rows` (CSV rows by
result).

Names beginning with `Bug` are mutants: a definition changed the way a plausible
mistake would change it. No behaviour of the models uses them; `PROJECT.json`
says which property each one must break.

## 3. Runs

| Run | Checks | Instance |
|---|---|---|
| `enrollment` | ownership, leaks, which frames the OK lines stand for, what ranking, the strict core, sorting and pruning keep | 3 or 4 files, 3 slots, limits 1, 2 and 4, all 16 mixes of the four flags |
| `verification` | ownership, alignment and accounting of the study statistics, the lock, the rows, anchor protection, growth of cohesion | every template of 1 to 3 entries over 4 images, 4 files, no study / naive / v2 |
| `batch` | everything freed, refinement of `AdaptiveTemplate`, the end of every loop | up to 3 enrollment and 3 verification files, all flag mixes |
| `debug_capture` | the verdict on the complete log, the script ends, the log gets complete | a FIFO of 2 lines, a capture of up to 4, fairness |
| `capture_corpus` | counts against what was captured and what was left over, totals from clean directories | 2 fingers, 2 frames each, 3 file numbers, any earlier files |
| `engine_adapter` | whose template is cached, what a checksum is worth, where records come from, when a last copy is lost | 2 interchangeable fingers, restoring switched on, 2 learnings per template; any step on the disk may fail, the process may die between any two |
| `milan` | rows, search order, ages, ranks, reports of the study, why a cache is retired, completeness and end of a candidate pass | 3 sub-templates, a cache of 2, the cache is retired when the counter passes 1, both sensor families, both callers |
| `engine_enrollment` | the session and its flag, what may fill a session, that no enrolled image and no row of tips is lost | 3 images to enroll, up to 3 tips, 2 in a row, every image may be a tip, both switches on |
| `nbis` | what is left behind, what a verdict rests on | tables of 3 rows, a match needs 2, up to 4 minutiae per image |
| `csv_claim`, `sort_claim`, `capture_claim` | one documented claim each that the code does not keep (section 6) | as `enrollment` (two), `capture_corpus` |

A run takes minutes of a machine and shows an instance; where a property is
proved for every instance and no run is needed to believe it, only the theorem
is kept. This is so for the type invariants of all modules, and for
`CapacityRespected`, `ReadyTemplate`, `LockExact`, `FilesAccounted`,
`ScoreSummarySound`, `FifoRemoved`, `AnchorPresent`, `YoungestIsNewest`,
`EngineCacheUnused`, `NoImageTwice`, `ImagesCounted`, `PackedBelongs`,
`TouchesBounded` and `FreedOnce`.

The bounds are chosen so that every branch is taken.

* `sigfm-batch`. With three slots of `MAX_TEMPLATE_ENTRIES` four files overflow
  the array; a limit of 1 makes `min_fill` and `progressive_core` zero; a limit of
  4 lets the lenient phase meet the full array. Five addresses are one more than
  any state needs, so that replacement can choose between reuse and a fresh
  block, and exhaustion of memory also occurs. Study's constants are scaled down
  (two observations, one failure) so that four files pass the observation gate,
  update, fail and lock. Images are named by their keypoint count; the scores
  include ties, an asymmetric pair, a similarity that beats the keypoint order,
  and an image on which the matcher fails. Addresses are interchangeable and
  symmetric; no property or action tells them apart. `UpdateImprovesCohesion` is
  stated for symmetric matchers and its run uses one.
* `debug_capture`. A FIFO smaller than the output makes the binary block; two
  lines and four are the smallest pair where it blocks and both kinds of line may
  come before and after.
* `capture_corpus`. Two fingers and two frames are the smallest corpus with a
  count to carry over; the third file number is a file beyond the frames asked
  for.
* `engine_adapter`. Two fingers are the fewest with which the cache, the backup
  and the finger at the sensor may belong to different people. `MAX_LEARN` bounds
  how often one template is learned in a comparison; two tell a template learned
  once, learned on top of it, and one not learned apart.
* `milan`. A template of three has an oldest, a youngest and one in between, each
  of which may be replaced or be the anchor. A ring of two slots wraps around and,
  having no count, looks the same full and empty. Two reported replacements
  retire the cache, and learning goes on after them.
* `engine_enrollment`. Two tips in a row put an image in the backup and then weigh
  it; a third image after the row ends it; three to enroll let one session hold a
  complete row and still need images. Sessions follow each other, so that the
  second meets the image the first left behind.
* `nbis`. Up to four minutiae give a table with too few rows for a match, enough
  rows, a full one, and an image with more than the table takes. Every allocation,
  read and library call may fail.

Deadlock is not checked for the halves of `sigfm-batch` alone and for the
scripts because they stop: the last states are `phase = "enrolled"` (in
`Enrollment`), `"done"` and `pc = "done"`; that `debug-capture.sh` stops nowhere
else is what `ScriptEnds` checks. For the whole of `sigfm-batch` it is checked:
the run's specification `MCSpec` has the exit in phase `"done"` as a step
(`Exit`), so that any other state without a successor is reported. It is also
checked for the modules of the Windows driver and `NbisTests`: the engine
adapter, its enrollment and the library wait for the next call for ever, and
`NbisTests` states its own end as a step.

**Fairness and termination.** That `sigfm-batch` ends is stated without
fairness. `BatchAdvances` says that every step goes on to a later loop or lowers
`Left`, the pair of natural numbers that measures the present one, and that no
step goes back; so there are only finitely many steps. The deadlock check of the
run adds that they stop at the exit only. As a property of single steps it holds
under the run's symmetry, and it is proved. `debug_capture` assumes weak fairness of each of its three processes by itself, as a scheduler
gives it; a process blocked on the FIFO is not enabled. For the binary this
includes that a capture ends some day, for which the user has to touch the
sensor. Nothing makes the user press Ctrl-C. The modules of the Windows driver
assume no fairness, since nothing obliges a caller to make another call. That a
candidate pass of `MilanTemplate` ends is stated without fairness: `PassShrinks`
says every step of a pass lowers the work left, a natural number.

## 4. What `AdaptiveTemplate` promises

Without pointers or scores: a store of images is built (append, upgrade to an
image with more keypoints, drop or reorder), served, and discarded. While it
serves, a slot changes only to take in a probe that some entry recognises with
at least `threshold`, and never once `frozen`. `SigfmBatch!Implements` maps
`store` to the images behind `entries`, `stage` to `phase`, `frozen` to
`study.locked` or study being off, and `threshold` to the larger of the two
thresholds of the options. The sort and prune loops map to `Curate` steps.

## 5. Proofs

The constants are arbitrary under the named assumptions: `SigfmAssumption`
(keypoint counts are naturals, scores are ints), `OptionsAssumption` (the options
are what the argument loop can leave, with `max_subtemplates` at least 1),
`StudyAssumption`, `DebugCaptureAssumption`, `EngineAdapterAssumption` (a switch
and a bound), `EngineEnrollmentAssumption` (counts and the range of images in
which tips are recognised), `MilanAssumption` (room for a sub-template and
two candidates), `NbisAssumption` (a match needs no more rows than a table has). TLC
evaluates each on its instance.

`TemplateProofs` shows that the searches of `Template` find what they look for:
every non-empty set of naturals has a least element, hence the weakest entry is
an index with a smallest score, the redundant entry is an index of the template
with no more keypoints than its partner, the best index is an entry that reaches
the best score, and the replacement target of study v2 is never the anchor. Its
second half is about sums: `SumFunctionOnSet` over a finite set of naturals loses
one summand when an element is left out, grows with its summands, splits over
disjoint sets and does not depend on the names of the elements. The library's
induction theorems cannot be instantiated by these provers, so induction over a
finite set is stated first-order (`SubsetInduction`: a set of subsets closed under
adding an element holds them all), from the well-ordering of the naturals.

`EnrollmentProofs`. `PointersSound` is not inductive by itself: sorting swaps
entries by a cursor, and truncation is safe only if the cursor has stayed inside
the template. The invariant `TypeInv` adds that control information to `TypeOK`
(which phases have an empty deferred array, the range of the cursor, a template
with more than one entry while sorting). On top of it

* `PointersSound` is preserved action by action;
* `NoLeak` needs `Counted`: together, template and deferred array hold at most as
  many blocks as files were read, so with no more files than slots `template_add`
  cannot refuse;
* `CapacityRespected` uses the bound of `min_fill` for the unchecked first phase;
* `RankingKeepsBest` needs `RankInv`: the recorded scores are the keypoint counts
  of the entries and none is below what was turned away;
* `StrictCore` needs `CoreInv`: replacement by rank only ever raises an entry;
* `SortKeepsBestConnected` needs `SortInv`: the scores are still the averages of
  the entries they stand beside (an exchange renames the summands of each
  average), the places before the outer index hold the best of them in order,
  and the outer one the best of those compared so far;
* `PruneKeepsRichest` because the entry that goes has a partner with as many
  keypoints;
* `OkLinesAccounted` with the leaked blocks as a finite set that only
  `AddIgnored` and `LenientIgnored` enlarge, by one block each.

`VerificationProofs`. The invariant is `Sound`: types, ownership of the heap,
the lengths of the study arrays, and that study's state is unused unless v2 was
asked for. Every file step is shown to be one of three shapes (template
untouched, a v1 replacement, a v2 replacement), and for the counters one of five
kinds. `LockIsForever` then follows because a replacement requires an open lock;
`ScoreSummarySound` is strengthened with the start values of the statistics
(`Summed`), since before the first attempt the minimum is a sentinel.
`HitsAccounted` follows the sum of the hits: a match adds one, a replacement
takes the hits of a slot out. `AnchorSurvives` needs only that the target is not
the anchor and that the anchor's average is the highest. `UpdateImprovesCohesion`
splits the pairs into those with the replaced entry and the rest; that the rounded
average got larger means the sum of the former did. It assumes a symmetric
matcher, as its run does: without symmetry the statement is false, because the
code compares scores in one direction only.

`SigfmBatchProofs`. The invariant `BatchInv` takes the enrollment invariants over
while the template is built (`EnrollInv`) and from the handover on keeps what
verification needs: pointers live and distinct, nothing else live (`Served`), and
a study state that only v2 ever locks (`StudyInv`). `SigfmBatch` and the proofs have
an instance of `Enrollment` each, so the lemmas `Same...` first show that they are
one state machine. With that

* `NothingLeaked` covers the three ways to the end: nothing enrolled, nothing to
  verify, the loop is over;
* `Implements` is proved step by step: frames enroll or upgrade (for which the
  recorded scores must be the keypoint counts, `RankInv`), sorting and pruning
  curate (`Curated`: a one-to-one choice of old positions whose blocks are
  unharmed), files either leave the template alone, perhaps locking study, or
  replace one entry by a probe that an entry recognised with both thresholds;
* `BatchAdvances` needs the place of the sort's two indices and, for pruning, that
  a redundant pair exists; the verification files are counted from 0 (`FilesInv`);
* `SigfmBatchHandover` closes the gap between the halves: where `Verification`
  assumes any template enrollment could leave, enrollment does leave one of those;
* `SigfmBatchFrozenKept` draws from the refinement that a template which must not
  learn never changes again while it serves.

`ScriptProofs`. `MetricsReported` relates the end of the script to lines that
passed through the FIFO, so the invariant `IInv` says where the lines are at
every moment (`Flow`: in the FIFO until `tee` opens the log, then log followed
by FIFO is what was printed) and how far the three processes can be apart
(`Order`). The proof has one lemma for each of the three parts and one step per
action. For `capture-corpus.sh` the invariant is `CorpusInv`: success and
failure are the frames before the present one with and without an image on disk
(`ImagesCounted`), every image is one of this session or was left by an earlier
one, and what was captured lies behind and stays (`SessionInv`), from which
`CapturesAccounted` follows by counting two disjoint sets; the grand totals are
those of the fingers behind (`TotalsInv`, by counting the files of the
directories as a finite set), and in directories that were clean nothing lies at
or after the present frame (`CleanInv`).

`EngineProofs`. `SealMeansWhole` would break if a flush could seal a
template learned from a broken record; `CacheWhole` rules that out: what is
cached was learned from a whole template. `LastCopyKept` looks at one step, but
the steps of a flush depend on what the earlier ones did; `FlushOrder` says for
every program counter of the flush what store and backup hold by then.

What the user has touched in an enrollment is spread over the gallery of
the session, the image held back and what was thrown away. `GalleryInv` says that
the image held back is not in the gallery, that no image is there twice, and how
the number of images follows from those used; it excepts the image an earlier
session left behind. `RunInv` describes a row of tips from its first image to the
decision, `FlowInv` ties counters, flag, session and answer together.

`MilanTemplateProofs`. `Templates` says of the template in memory and of the one
stored that its ages, rows and order fit (`Good`, `Fits`); `Enrolling` and
`Quiet` say what cannot have happened yet; `PassOK` that the ring between head
and tail holds exactly what is left of the pass, which gives completeness
(`PassComplete`) and the variant of `PassShrinks`; `EngineOK` how the engine's
copy differs from the stored one. The theorem `MilanEngineCacheUnused` shows that
the driver never has a candidate to offer: packing drops the cache.
`OrderComplete` and `RanksCompact` rest on a second invariant, `ListInv`: the search
order reaches every sub-template and the ranks of n candidates are 0 to n - 1,
each once. Reordering keeps the first because a one-to-one function of a finite
set into itself is onto, studies insert, age and take ranks without a gap.

`NbisTestsProofs`. `HeldInv` and `RowsInv` say what is allocated and how full each
table is at every program counter; `LeftBehind`, `FreedOnce` and `VerdictFounded`
follow together with them, since each failure path frees by position.

Only model-checked: liveness (`ScriptEnds`, `LogCompletes`), which is out of the
prover's reach, that `sigfm-batch` is nowhere stuck before its exit, and the three
documented claims of section 6, which are false. Every other property of a run is a theorem.

## 6. What the code does differently from what it says

Each is a run that must find a violation of one claim; `PROJECT.json` quotes the
lines.

| Run | Claim | What the model shows |
|---|---|---|
| `csv_claim` | the stdout of CSV mode holds only CSV | sorting prints a line of text there, which the sweep counts as a failed attempt |
| `sort_claim` | `--sort-subtemplates` sorts by keypoint count and drops the frames with few (`analysis/15-advancement-strategy.md` 802, 838) | it sorts by the average score against the other entries (line 716) and frees a frame with more keypoints than one it keeps |
| `capture_claim` | success is that a valid PGM was produced (`capture-corpus.sh` 59) | success is that a file with content is there (line 61), which may be an image of an earlier session |

Seen while modelling, without a run of their own. In the tools:

* `--max-subtemplates` is described as the number of frames kept (line 465), but
  limits the template only with sorting or pruning (line 664 passes the array's
  own limit).
* A frame is reported OK before `template_add` is asked; when the array is full the
  frame is dropped and its features are leaked (line 664).
* The mean of the keypoints can exceed their maximum: its total counts rejected
  frames (lines 630 and 693).
* A capture without a keypoint line ends the session of `capture-corpus.sh` under
  `set -e` and `pipefail` (line 63) before line 65 can report it.
* The degradation lock of study v2 closes with failure `STUDY_MAX_FAILED` + 1
  (line 351 compares with `>`; `LockExact` states what the code does).
* Naive study compares the probe's average over all entries with the weakest
  entry's average over the others (lines 268 and 281): a near-duplicate of the
  weakest entry gets in although it may fit the rest less well.
* With progressive enrollment the lenient phase adds frames below those that
  quality ranking turned away (line 679).
* The grand total of `capture-corpus.sh` counts all capture files of a finger's
  directory (line 144), so it can differ from the sum of the figures per finger.
* `nbis-bozorth3-test.c` says a match needs about eight minutiae (line 160) and
  tests for three (line 163); its two tables are not freed when it gives up on
  lines 157-158; and it gives a verdict on an image of which only a part could be
  read (line 51 ignores what `fread` returns). `VerdictFounded` does not deny the
  last, it says that no other program does so.

In the Windows driver:

* A finger enrolled anew between a match and `Deactivate` is overwritten by the
  template learned from the old one (`EngineAdapter.c` 12571).
* A backup image survives the end of its enrollment and may enter the next one
  (12263-12273 against 14254).
* When `enrolStart` fails, Create leaves the in-progress flag set (12040); the next
  update then works on a null session.
* `analysis/15-advancement-strategy.md` line 384 describes deferred learning from
  candidates; in the driver it never takes effect, since packing a template drops
  its candidates (theorem `MilanEngineCacheUnused`). Its line 382 has the anchor
  protected; the code can replace it and then rebuilds the graph. Its line 380 mixes the
  order of the victim choice with that of the search.
* `analysis/15-advancement-strategy.md` line 383 and
  `analysis/13-windows-driver-algorithm-analysis.md` line 110 describe a degradation
  counter that locks the template. `template[0x2381]` counts reported replacements
  in paired types (`AlgoMilan.c` 18037-18048) and past its limit retires the
  candidate cache only; a later study still replaces a sub-template.
  `RetiredExplained` says what the flag means instead, in both sensor families.
* Images registered in pairs can end with several of age 0 once ages are closed up
  after a removal.

## 7. Plan

1. `Sigfm`, `Template`, `Options`, `Enrollment`, `Verification`, `SigfmBatch`,
   `AdaptiveTemplate` and the proofs of section 5 (done).
2. `DebugCapture` and `CaptureCorpus` with their proofs (done).
3. `EngineAdapter`, `EngineEnrollment`, `MilanTemplate`, `NbisTests` with their
   proofs (done).
4. `CommandLine`: the argument loop, its 512-file limit and the defaults of the
   thresholds. Property: the options reached are those `OptionsAssumption`
   allows, and which command lines fall outside.
5. `Sweep` and `StudyTest`: the scripts that read the CSV, line by line, composed
   with the rows `Verification` prints: rates over attempts only, windows, the
   impostor region taught by study.
6. `ReplayPipeline`: stretch, sharpen, crop as functions on small frames against
   reference definitions; the batch loop and its error paths.
7. `RunTests` and `Install`: splits, shuffles and totals; the package
   replacement.
8. The engine adapter over the template of `MilanTemplate`: the cached template as
   a template of the library, instead of its number of learnings.
9. Proofs: the accounting of the CSV consumers and the reachable options of the
   command line, once modelled.

## 8. Not modelled, and why

* SIGFM, the NBIS library and the Linux driver: not in this tree; `Sigfm` and the
  external operators of `NbisTests` are what the tools rely on.
* Pixels: `pixel_stddev` and `read_pgm` appear as attributes of a file.
* The 512-file limit and non-positive `--max-subtemplates`: not yet (plan, 4).
* A null result of `sigfm_copy_info`: the copy is assumed to succeed whenever an
  address is free, and a replacement is not taken otherwise.
* Numbers inside the algorithm library: hit counts, coverage and the geometry of a
  pair of sub-templates appear as the outcomes the code tells apart.
* The rest of the 195,000 decompiled lines of the Windows driver: extraction of
  features, the matcher's numerics, cryptography, compression, the C runtime and
  the sensor and storage adapters; most of it is straight-line arithmetic without
  a state to relate, or code of others. `CommitEnrollment` and `AcceptSampleData`
  are not in the file, and the retry loops around choosing an image are folded
  into one choice. The map therefore covers a small share of these two files.
* Python scripts and packaging recipes: straight-line programs without state that a
  model would explain.
