--------------------------- MODULE MilanTemplate ---------------------------
(***************************************************************************)
(* The fingerprint template of the Windows driver's algorithm library      *)
(* (analysis/win-decomp/AlgoMilan.c): images are registered and removed    *)
(* while it is enrolled, every comparison unpacks it, and a comparison that *)
(* matched studies it, so that it grows to MAX sub-templates and then       *)
(* replaces them.  Beside the sub-templates it keeps a cache of candidate   *)
(* images, ranked by age, that a study tries again (the candidate pass).    *)
(*                                                                         *)
(* Images are compared by external code: whether one matches, which slot it *)
(* names and whether it is good enough is chosen freely.  Sub-templates are *)
(* numbered from 1, the code numbers them from 0.                          *)
(***************************************************************************)
EXTENDS Integers, Sequences, FiniteSets

CONSTANTS
    MAX,            \* template[8]: how many sub-templates fit
    CACHE,          \* 20: candidates a template caches, and slots of the ring
    RETIRE_AFTER    \* 50: study points after which the cache is retired

ASSUME MilanAssumption ==
    MAX \in Nat \ {0} /\ CACHE \in Nat \ {0, 1} /\ RETIRE_AFTER \in Nat

VARIABLES
    sensor,     \* "paired" for sensor types 9 and 10, "plain" for the others
    caller,     \* "engine": unpacks for every comparison; "resident": once
    phase,      \* what the library was last asked to do
    tpl,        \* the template in memory
    stored,     \* the packed template
    probe,      \* what the study did with the probe
    nUpdate,    \* what templateStudy will report
    pass        \* the candidate pass: its ring of changed sub-templates

vars == <<sensor, caller, phase, tpl, stored, probe, nUpdate, pass>>

Slot == 1..MAX
Candidate == 1..CACHE

\* age, row: of each sub-template, its age and where its row of pair results
\* starts; rows: pair results used; order: the order recognition tries them in;
\* rank: age rank of each candidate, -1 when empty; newest: history, the
\* sub-template written last.
Template ==
    [age : Seq(Nat), row : Seq(Nat), rows : Nat, order : [Slot -> 0..MAX],
     anchor : 0..MAX, rank : [Candidate -> -1..(CACHE - 1)], retired : BOOLEAN,
     counter : Nat, newest : 0..MAX]

Empty == [c \in Candidate |-> -1]

NewTemp ==
    [age |-> <<>>, row |-> <<>>, rows |-> 0, order |-> [i \in Slot |-> 0],
     anchor |-> 0, rank |-> Empty, retired |-> FALSE, counter |-> 0, newest |-> 0]

Count(t) == Len(t.age)

NoPass == [ring |-> [i \in 0..(CACHE - 1) |-> 0], head |-> 0, tail |-> 0,
           current |-> 0, next |-> 0, left |-> 0, result |-> 0]

Init ==
    /\ sensor \in {"paired", "plain"}
    /\ caller \in {"engine", "resident"}
    /\ phase = "enrol"
    /\ tpl = NewTemp
    /\ stored = NewTemp
    /\ probe = "none"
    /\ nUpdate = 0
    /\ pass = NoPass

-----------------------------------------------------------------------------
(* Enrolment.                                                              *)

\* Entries of a row: one for each sub-template before it; the first has one.
RowLength(k) == IF k = 1 THEN 1 ELSE k - 1

\* One more sub-template, with a row of its own behind the others.  The first
\* keeps the offset its feature came with, which is 0.
Grown(t, order, anchor) ==
    LET n == Count(t) + 1
    IN [t EXCEPT !.age = Append(@, n - 1),
                 !.row = Append(@, IF n = 1 THEN 0 ELSE t.rows),
                 !.rows = @ + RowLength(n),
                 !.order = order,
                 !.anchor = anchor,
                 !.newest = n]

\* The first pair that fits makes its earlier image the anchor of the graph.
Register ==
    /\ phase = "enrol"
    /\ Count(tpl) < MAX
    /\ \E a \in IF tpl.anchor = 0 THEN 0..Count(tpl) ELSE {tpl.anchor} :
          tpl' = Grown(tpl, [i \in Slot |-> IF i <= Count(tpl) + 1 THEN i ELSE 0], a)
    /\ UNCHANGED <<sensor, caller, phase, stored, probe, nUpdate, pass>>

\* Mutant: the rows in use are not taken back.
BugShrunk(t, anchor) ==
    [t EXCEPT !.age = SubSeq(@, 1, Count(t) - 1), !.row = SubSeq(@, 1, Count(t) - 1),
              !.anchor = anchor, !.newest = Count(t) - 1]

Shrunk(t, anchor) ==
    LET n == Count(t)
    IN [t EXCEPT !.age = SubSeq(@, 1, n - 1),
                 !.row = SubSeq(@, 1, n - 1),
                 !.rows = t.row[n],
                 !.anchor = anchor,
                 !.newest = n - 1]

\* Removing the anchor dissolves the graph.
RemoveLast ==
    /\ phase = "enrol"
    /\ Count(tpl) > 0
    /\ tpl' = Shrunk(tpl, IF tpl.anchor = Count(tpl) THEN 0 ELSE tpl.anchor)
    /\ UNCHANGED <<sensor, caller, phase, stored, probe, nUpdate, pass>>

\* The packed form has the sub-templates and their numbers, not the candidates.
Packed(t) == [t EXCEPT !.rank = Empty]

\* enrolGetTemplate, templatePack, enrolFinish.
PackEnrolled ==
    /\ phase = "enrol"
    /\ Count(tpl) > 0
    /\ stored' = Packed(tpl)
    /\ tpl' = NewTemp
    /\ phase' = "closed"
    /\ UNCHANGED <<sensor, caller, probe, nUpdate, pass>>

-----------------------------------------------------------------------------
(* The candidate cache.                                                    *)

\* The first of the lowest, and the highest rank: empty candidates are lowest.
IsLowest(rank, c) == \A d \in Candidate : rank[c] < rank[d] \/ (rank[c] = rank[d] /\ c <= d)
IsHighest(rank, top) ==
    /\ \E c \in Candidate : rank[c] = top
    /\ \A c \in Candidate : rank[c] <= top

\* Mutant: a full cache does not age.
BugRanked(rank, c, top) == [rank EXCEPT ![c] = IF top = CACHE - 1 THEN top ELSE top + 1]

\* An image takes the lowest place and the rank above the highest; a full cache
\* ages by one first.
Ranked(rank, c, top) ==
    IF top = CACHE - 1
      THEN [d \in Candidate |-> IF d = c THEN top
                                ELSE IF rank[d] = -1 THEN -1 ELSE rank[d] - 1]
      ELSE [rank EXCEPT ![c] = top + 1]

\* What inserting an image can make of the cache: until the cache is retired an
\* image too much like the newest one is dropped.
Inserted(t) ==
    {[t EXCEPT !.rank = Ranked(@, c, top)] :
        c \in {d \in Candidate : IsLowest(t.rank, d)},
        top \in {r \in -1..(CACHE - 1) : IsHighest(t.rank, r)}}
    \union {u \in {t} : ~t.retired /\ t.rank # Empty}

\* Mutant: the candidate stays.
BugTaken(t, c) == t

\* Taking an image out closes the gap above it.
Taken(t, c) ==
    [t EXCEPT !.rank = [d \in Candidate |->
        IF d = c THEN -1 ELSE IF @[d] > @[c] THEN @[d] - 1 ELSE @[d]]]

Retired(t) == [t EXCEPT !.retired = TRUE, !.rank = Empty]

-----------------------------------------------------------------------------
(* Study of one image: what it can do to the template, the sub-template it  *)
(* changed (0: none) and the number it reports.                            *)

Outcome == [tpl : Template, at : 0..MAX, n : 0..5]

Refused(t) == [tpl |-> t, at |-> 0, n |-> 0]

\* Mutant: the search order is forgotten.
BugGrowing(t, anchors) ==
    {[tpl |-> Grown(t, t.order, a), at |-> Count(t) + 1, n |-> 1] : a \in anchors}

\* Appended with an anchor out of the given ones.
Growing(t, anchors) ==
    {[tpl |-> Grown(t, [t.order EXCEPT ![Count(t) + 1] = Count(t) + 1], a),
      at |-> Count(t) + 1, n |-> 1] : a \in anchors}

\* Mutant: the age is cleared first, whatever the type.
BugOverwrittenAge(t, s, since) ==
    [t EXCEPT !.age = [i \in 1..Count(t) |->
                          IF i = s THEN MAX - 1
                          ELSE IF t.age[i] > 0 THEN t.age[i] - 1 ELSE 0],
              !.newest = s]

\* The image takes the place of sub-template s and becomes the youngest; those
\* older than "since" move down.
Overwritten(t, s, since) ==
    [t EXCEPT !.age = [i \in 1..Count(t) |->
                          IF i = s THEN MAX - 1
                          ELSE IF t.age[i] > since THEN t.age[i] - 1 ELSE t.age[i]],
              !.newest = s]

\* Sensor types 0 to 8, 0x3e and 0x3f.  Without a graph the sub-template that
\* matched becomes its anchor.  A full template moves down what is younger than
\* the sub-template replaced, and may name one without replacing it.
PlainStudy(t) ==
    IF Count(t) < MAX
      THEN {Refused(t)} \union Growing(t, IF t.anchor = 0 THEN 1..Count(t) ELSE {t.anchor})
      ELSE {Refused(t)}
           \union {[tpl |-> t, at |-> s, n |-> 0] : s \in Slot}
           \union {[tpl |-> Overwritten(t, s, t.age[s]), at |-> s, n |-> n] : s \in Slot, n \in 2..4}

\* The graph is rebuilt when there is none or its anchor was replaced.
Rebuilt(o) ==
    {[o EXCEPT !.tpl.anchor = a] :
        a \in IF o.tpl.anchor \in {0, o.at} THEN 0..Count(o.tpl) ELSE {o.tpl.anchor}}

\* Once the cache is retired it takes what is replaced, or the image refused.
Kept(t) == IF t.retired THEN Inserted(t) ELSE {t}

\* Mutant: a replacement of the matched sub-template is not reported.
BugPairedStudy(t) ==
    UNION {Rebuilt(o) : o \in
        IF Count(t) < MAX
          THEN Growing(t, {t.anchor})
          ELSE {Refused(t)} \union {Refused(u) : u \in Kept(t)}
               \union {[tpl |-> Overwritten(u, s, 0), at |-> s, n |-> n] :
                          u \in Kept(t), s \in Slot, n \in {0, 4}}}

\* Sensor types 9 and 10.  The copy clears the age of the sub-template replaced
\* before the others are compared with it: all but the oldest move down.
PairedStudy(t) ==
    UNION {Rebuilt(o) : o \in
        IF Count(t) < MAX
          THEN Growing(t, {t.anchor})
          ELSE {Refused(t)} \union {Refused(u) : u \in Kept(t)}
               \union {[tpl |-> Overwritten(u, s, 0), at |-> s, n |-> n] :
                          u \in Kept(t), s \in Slot, n \in {3, 4}}}

Study(t) == IF sensor = "paired" THEN PairedStudy(t) ELSE PlainStudy(t)

-----------------------------------------------------------------------------
(* A comparison.                                                           *)

Unpack ==
    /\ phase = "closed"
    /\ tpl' = stored
    /\ phase' = "open"
    /\ UNCHANGED <<sensor, caller, stored, probe, nUpdate, pass>>

\* The order recognition tries the sub-templates in is sorted after a match.
Resorted(t) ==
    {[t EXCEPT !.order = [i \in Slot |-> IF i <= Count(t) THEN t.order[p[i]] ELSE t.order[i]]] :
        p \in {q \in [1..Count(t) -> 1..Count(t)] :
                  \A i, j \in 1..Count(t) : q[i] = q[j] => i = j}}

\* A match that may be studied.
Match ==
    /\ phase = "open"
    /\ tpl' \in Resorted(tpl)
    /\ probe' = "good"
    /\ phase' = "matched"
    /\ UNCHANGED <<sensor, caller, stored, nUpdate, pass>>

\* A match that may not be studied; plain types may have cached the probe.  A
\* paired template whose cache is retired may owe the match to a candidate.
MatchOnly ==
    /\ phase = "open"
    /\ \E u \in {tpl} \union (IF sensor = "plain" /\ ~tpl.retired THEN Inserted(tpl) ELSE {}) :
          tpl' \in Resorted(u)
    /\ probe' = "skipped"
    /\ phase' = "matched"
    /\ UNCHANGED <<sensor, caller, stored, nUpdate, pass>>

\* The engine frees the template; a resident one may have cached the probe.
NoMatch ==
    /\ phase = "open"
    /\ IF caller = "engine"
         THEN tpl' = NewTemp /\ phase' = "closed"
         ELSE tpl' \in {tpl} \union (IF tpl.retired THEN {} ELSE Inserted(tpl)) /\ UNCHANGED phase
    /\ UNCHANGED <<sensor, caller, stored, probe, nUpdate, pass>>

After(i) == (i + 1) % CACHE

\* Mutant: the tail stays.
BugQueued(p, s) == [p EXCEPT !.ring[p.tail] = s, !.left = @ + 1]

\* A changed sub-template waits for its turn.
Queued(p, s) == [p EXCEPT !.ring[p.tail] = s, !.tail = After(@), !.left = @ + 1]

\* templateStudy: the probe itself first.  A changed sub-template starts the
\* candidate pass until the cache is retired, unless the parameters of the
\* comparison cannot be set up.
StudyProbe ==
    /\ phase = "matched"
    /\ probe = "good"
    /\ \E o \in Study(tpl) :
          /\ tpl' = o.tpl
          /\ nUpdate' = o.n
          /\ probe' = IF o.at = 0 THEN "refused" ELSE "used"
          /\ \/ /\ phase' = "settle"
                /\ UNCHANGED pass
             \/ /\ o.at # 0 /\ ~o.tpl.retired
                /\ phase' = "pass"
                /\ pass' = Queued(NoPass, o.at)
    /\ UNCHANGED <<sensor, caller, stored>>

\* A match that may not be studied, or (plain) too poor an image.
SkipProbe ==
    /\ phase = "matched"
    /\ probe = "skipped" \/ sensor = "plain"
    /\ probe' = "skipped"
    /\ phase' = "settle"
    /\ UNCHANGED <<sensor, caller, tpl, stored, nUpdate, pass>>

-----------------------------------------------------------------------------
(* The candidate pass: every changed sub-template is offered every candidate *)
(* left; a candidate that is used changes a sub-template again.             *)

\* The loop tests its condition after the first round.
TakeChanged ==
    /\ phase = "pass"
    /\ pass.next = 0
    /\ pass.head # pass.tail
    /\ pass' = [pass EXCEPT !.current = pass.ring[pass.head], !.head = After(@), !.next = 1,
                            !.left = @ - 1]
    /\ UNCHANGED <<sensor, caller, phase, tpl, stored, probe, nUpdate>>

Following == IF pass.next = CACHE THEN 0 ELSE pass.next + 1

\* Empty, or not alike, or (plain) refused.
PassOver ==
    /\ phase = "pass"
    /\ pass.next # 0
    /\ pass' = [pass EXCEPT !.next = Following]
    /\ UNCHANGED <<sensor, caller, phase, tpl, stored, probe, nUpdate>>

\* A candidate alike is studied and leaves the cache; (paired) also when it is
\* refused.  The scan starts anew when the current sub-template changed again.
StudyCandidate ==
    /\ phase = "pass"
    /\ pass.next # 0
    /\ tpl.rank[pass.next] # -1
    /\ \E o \in Study(tpl) :
          /\ o.at # 0 \/ sensor = "paired"
          /\ tpl' = Taken(o.tpl, pass.next)
          /\ pass' = IF o.at = 0
                       THEN [pass EXCEPT !.result = 0, !.next = Following]
                       ELSE [Queued(pass, o.at) EXCEPT
                                !.result = 5,
                                !.next = IF o.at = pass.current THEN 0 ELSE Following]
    /\ UNCHANGED <<sensor, caller, phase, stored, probe, nUpdate>>

EndPass ==
    /\ phase = "pass"
    /\ pass.next = 0
    /\ pass.head = pass.tail
    /\ phase' = "settle"
    /\ pass' = [NoPass EXCEPT !.result = pass.result]
    /\ UNCHANGED <<sensor, caller, tpl, stored, probe, nUpdate>>

-----------------------------------------------------------------------------
(* The end of the study, and what the caller makes of it.                  *)

Result == IF pass.result = 5 THEN 5 ELSE nUpdate

\* Mutant: the limit itself will do.
BugLimitPassed(counter) == counter >= RETIRE_AFTER

LimitPassed(counter) == counter > RETIRE_AFTER

\* Study points count replacements of another sub-template than the matched one.
SettlePaired ==
    /\ phase = "settle"
    /\ sensor = "paired"
    /\ LET more == IF tpl.retired \/ Result <= 3 THEN 0 ELSE IF Result = 5 THEN 2 ELSE 1
           t == [tpl EXCEPT !.counter = @ + more]
       IN tpl' = IF more > 0 /\ LimitPassed(t.counter) THEN Retired(t) ELSE t
    /\ nUpdate' = Result
    /\ phase' = "studied"
    /\ UNCHANGED <<sensor, caller, stored, probe, pass>>

\* A full template needs no candidates; a template that is not takes a probe
\* that was refused as one.
SettlePlain ==
    /\ phase = "settle"
    /\ sensor = "plain"
    /\ LET full == Count(tpl) = MAX /\ ~tpl.retired
           t == IF full THEN Retired(tpl) ELSE tpl
       IN \E u \in IF probe = "refused" /\ ~t.retired THEN Inserted(t) ELSE {t} :
             tpl' \in Resorted(u)
    /\ nUpdate' = Result
    /\ phase' = "studied"
    /\ UNCHANGED <<sensor, caller, stored, probe, pass>>

\* The engine packs what a study reports to have changed, and frees the rest.
Finish ==
    /\ phase = "studied"
    /\ IF caller = "engine"
         THEN /\ stored' = IF nUpdate > 0 THEN Packed(tpl) ELSE stored
              /\ tpl' = NewTemp
              /\ phase' = "closed"
         ELSE /\ phase' = "open"
              /\ UNCHANGED <<stored, tpl>>
    /\ probe' = "none"
    /\ nUpdate' = 0
    /\ pass' = NoPass
    /\ UNCHANGED <<sensor, caller>>

Next ==
    \/ Register \/ RemoveLast \/ PackEnrolled
    \/ Unpack \/ Match \/ MatchOnly \/ NoMatch
    \/ StudyProbe \/ SkipProbe
    \/ TakeChanged \/ PassOver \/ StudyCandidate \/ EndPass
    \/ SettlePaired \/ SettlePlain
    \/ Finish

Spec == Init /\ [][Next]_vars

-----------------------------------------------------------------------------
(* Properties.                                                             *)

\* Type correctness of a template: one age and one row per sub-template.
TemplateOK(t) ==
    /\ t \in Template
    /\ Count(t) <= MAX
    /\ Len(t.row) = Count(t)
    /\ t.newest <= Count(t)

TypeOK ==
    /\ sensor \in {"paired", "plain"}
    /\ caller \in {"engine", "resident"}
    /\ phase \in {"enrol", "closed", "open", "matched", "pass", "settle", "studied"}
    /\ TemplateOK(tpl)
    /\ TemplateOK(stored)
    /\ probe \in {"none", "good", "skipped", "refused", "used"}
    /\ nUpdate \in 0..5
    /\ pass.ring \in [0..(CACHE - 1) -> 0..MAX]
    /\ {pass.head, pass.tail} \subseteq 0..(CACHE - 1)
    /\ pass.current \in 0..MAX
    /\ pass.next \in 0..CACHE
    /\ pass.left \in Nat
    /\ pass.result \in {0, 5}

\* The rows of pair results follow each other without gap or overlap, through
\* any series of registrations, removals (which take back a row) and studies.
RowsTile(t) ==
    /\ Count(t) > 0 => t.row[1] = 0
    /\ \A k \in 1..(Count(t) - 1) : t.row[k + 1] = t.row[k] + RowLength(k)
    /\ t.rows = IF Count(t) = 0 THEN 0 ELSE t.row[Count(t)] + RowLength(Count(t))

RowsTiled == RowsTile(tpl) /\ RowsTile(stored)

\* The graph hangs on a sub-template that is there, although the last one can
\* be removed while it is the anchor and any can be replaced.
AnchorPresent == tpl.anchor <= Count(tpl)

\* Recognition tries every sub-template once: the first entries of the search
\* order are all of them, although removal leaves the order alone.
OrderComplete == {tpl.order[i] : i \in 1..Count(tpl)} = 1..Count(tpl)

\* The sub-template written last is the youngest, and the only one of its age.
NewestYoungest(t) ==
    \A i \in 1..Count(t) : i # t.newest => t.age[i] < t.age[t.newest]

YoungestIsNewest == NewestYoungest(tpl)

\* Ages of a plain template stay a numbering of its sub-templates; those of a
\* paired one do not, whose replacements leave several of age 0.
AgesNumber(t) ==
    \A i, j \in 1..Count(t) : t.age[i] < Count(t) /\ (t.age[i] = t.age[j] => i = j)

PlainAgesDistinct == sensor = "plain" => AgesNumber(tpl)

\* The ranks of n cached candidates are 0 to n - 1, each once, through inserts,
\* ageing of a full cache and candidates taken from the middle.
RanksCompact ==
    \A c \in Candidate :
       /\ tpl.rank[c] > 0 => \E d \in Candidate : tpl.rank[d] = tpl.rank[c] - 1
       /\ tpl.rank[c] >= 0 => \A d \in Candidate : tpl.rank[d] = tpl.rank[c] => d = c

\* The ring has as many slots as there are candidates, so that full looks like
\* empty; the pass still ends only when every changed sub-template has had its
\* turn or no candidate is left to offer.
PassComplete ==
    phase = "pass" /\ pass.next = 0 /\ pass.head = pass.tail =>
       pass.left = 0 \/ tpl.rank = Empty

\* What the candidates are kept for never happens in the driver: the engine
\* unpacks for every comparison, and the packed form has no candidates, so that
\* a study finds the cache empty.
EngineCacheUnused ==
    caller = "engine" /\ phase = "matched" /\ probe = "good" => tpl.rank = Empty

\* The sub-templates change only in a study that reports it, so that the engine
\* packs whatever was learned.
LearnedIsReported ==
    caller = "engine" /\ phase = "studied" /\ nUpdate = 0 =>
       tpl.age = stored.age /\ tpl.newest = stored.newest

\* Why a cache is retired, kept through packing and the growth of a pass: a
\* plain template is full, a paired one has been replaced often enough.
RetiredExplained ==
    tpl.retired => IF sensor = "plain" THEN Count(tpl) = MAX ELSE tpl.counter > RETIRE_AFTER

\* Every step of a candidate pass brings its end nearer, although a candidate
\* that is used queues a sub-template again and starts the scan anew.
CachedIn(t) == {c \in Candidate : t.rank[c] # -1}
Cached == Cardinality(CachedIn(tpl))
ToScan == IF pass.next = 0 THEN 0 ELSE CACHE + 1 - pass.next
PassWork == (2 * Cached + pass.left) * (CACHE + 1) + ToScan
PassShrinks == [][phase = "pass" /\ phase' = "pass" => PassWork' < PassWork]_vars
=============================================================================
