------------------------------ MODULE Template ------------------------------
(***************************************************************************)
(* The decisions tools/benchmark/sigfm-batch.c takes about a template:     *)
(* which entry matches a probe best, which one is the weakest, which one   *)
(* is redundant, which one a study step may replace.  A template is the    *)
(* sequence t of the images its entries hold (entry k of the model is      *)
(* t->entries[k-1]); the pointers to them belong to the state machines     *)
(* that use this module.  Nothing here changes state.                      *)
(***************************************************************************)
EXTENDS Sigfm, Sequences, FiniteSetsExt, Functions

\* Scores are clamped at zero wherever they are averaged.
Similarity(p, q) == IF MatchScore(p, q) < 0 THEN 0 ELSE MatchScore(p, q)

\* Sum of the scores of the entries at the positions in I against a probe.
TotalScore(t, I, probe) ==
    SumFunctionOnSet([k \in DOMAIN t |-> Similarity(t[k], probe)], I)

\* Average score of entry k against the rest of the template.
CrossAverage(t, k) ==
    SumFunctionOnSet([j \in DOMAIN t |-> Similarity(t[k], t[j])], DOMAIN t \ {k})
        \div (Len(t) - 1)

CrossAverages(t) == [k \in DOMAIN t |-> CrossAverage(t, k)]

-----------------------------------------------------------------------------
(* template_match *)

BestScore(t, probe) == Max({-1} \cup {MatchScore(t[k], probe) : k \in DOMAIN t})

\* The first entry that reaches the best score; 0 stands for the C's -1.
BestIndex(t, probe) ==
    IF BestScore(t, probe) = -1
      THEN 0
      ELSE Min({k \in DOMAIN t : MatchScore(t[k], probe) = BestScore(t, probe)})

-----------------------------------------------------------------------------
(* template_add_quality: the first entry with the smallest recorded score *)

WeakestIndex(s) == Min({k \in DOMAIN s : \A j \in DOMAIN s : s[k] <= s[j]})

-----------------------------------------------------------------------------
(* template_diversity_prune *)

Pairs(n) == {pair \in (1 .. n) \X (1 .. n) : pair[1] < pair[2]}

PairScore(t, pair) == MatchScore(t[pair[1]], t[pair[2]])

\* The first pair, in the order of the two loops, with the highest score;
\* the pair the loops start from when no score exceeds -1.
MostSimilarPair(t) ==
    LET best  == Max({-1} \cup {PairScore(t, p) : p \in Pairs(Len(t))})
        top   == {p \in Pairs(Len(t)) : PairScore(t, p) = best}
        first == Min({p[1] : p \in top})
    IN  IF best = -1 THEN <<1, 2>>
        ELSE <<first, Min({p[2] : p \in {q \in top : q[1] = first}})>>

\* Mutant: the comparison is the wrong way round.
BugRedundantIndex(t) ==
    LET pair == MostSimilarPair(t)
    IN  IF Keypoints(t[pair[1]]) >= Keypoints(t[pair[2]]) THEN pair[1] ELSE pair[2]

\* Of that pair, the entry with fewer keypoints goes, the first one on a tie.
RedundantIndex(t) ==
    LET pair == MostSimilarPair(t)
    IN  IF Keypoints(t[pair[1]]) <= Keypoints(t[pair[2]]) THEN pair[1] ELSE pair[2]

-----------------------------------------------------------------------------
(* template_study (v1) *)

ProbeAverage(t, probe) == TotalScore(t, DOMAIN t, probe) \div Len(t)

StudyVictim(t) == WeakestIndex(CrossAverages(t))

StudyAccepts(t, probe) ==
    ProbeAverage(t, probe) > CrossAverage(t, StudyVictim(t))

-----------------------------------------------------------------------------
(* template_study_v2 *)

\* Layer 3: the best-connected entry, the first one on a tie.
AnchorIndex(t) ==
    Min({k \in DOMAIN t : \A j \in DOMAIN t : CrossAverage(t, j) <= CrossAverage(t, k)})

\* Mutant: the anchor is not skipped.
BugTargetIndex(t, hits) ==
    LET rare == {k \in DOMAIN t : \A j \in DOMAIN t : hits[k] <= hits[j]}
    IN  Min({k \in rare : \A j \in rare : CrossAverage(t, k) <= CrossAverage(t, j)})

\* Layer 4: of the other entries, the one matched least often, then the one
\* worst connected, then the first.
TargetIndex(t, hits) ==
    LET others == DOMAIN t \ {AnchorIndex(t)}
        rare   == {k \in others : \A j \in others : hits[k] <= hits[j]}
    IN  Min({k \in rare : \A j \in rare : CrossAverage(t, k) <= CrossAverage(t, j)})

\* Layer 2: the probe has at least 60% of the target's recorded keypoints.
QualityComparable(probe, targetKp) == Keypoints(probe) * 10 >= targetKp * 6

\* Mutant: an equally good probe is accepted.
BugBeatsTarget(t, k, probe) ==
    TotalScore(t, DOMAIN t \ {k}, probe) \div (Len(t) - 1) >= CrossAverage(t, k)

\* Final check: the probe does better than the target against the others.
BeatsTarget(t, k, probe) ==
    TotalScore(t, DOMAIN t \ {k}, probe) \div (Len(t) - 1) > CrossAverage(t, k)
=============================================================================
