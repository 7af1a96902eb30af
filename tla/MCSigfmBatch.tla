---------------------------- MODULE MCSigfmBatch ----------------------------
(* The whole program on a small instance: up to three enrollment files,    *)
(* three verification files, two template slots asked for.                 *)
EXTENDS SigfmBatch, TLC

CONSTANTS a1, a2, a3, a4

MCAddr == {a1, a2, a3, a4}
AddrSymmetry == Permutations(MCAddr)

\* Images are named by their keypoint count; 20 falls to the keypoint gate.
MCImage == {20, 30, 40, 50}
MCKeypoints(p) == p

\* 30 resembles 40 and 50, which have little in common.
MCMatchScore(p, q) ==
    IF p = q THEN 9 ELSE IF 30 \in {p, q} THEN 6 ELSE 2

Good(p) == [readable |-> TRUE, stddev |-> 30, extracts |-> TRUE, image |-> p]

MCFrame == {Good(p) : p \in MCImage} \cup {[Good(30) EXCEPT !.readable = FALSE]}

Base == [nEnroll |-> 3, nVerify |-> 3, qualityGate |-> 25, stddevGate |-> 25,
         scoreThreshold |-> 6, studyThreshold |-> 8, progressiveStrict |-> 40,
         templateStudy |-> TRUE, studyV2 |-> FALSE, csv |-> FALSE, sort |-> FALSE,
         qualityEnroll |-> FALSE, diversityPrune |-> FALSE, progressive |-> FALSE,
         maxSubtemplates |-> 2]

MCOptions ==
    {[Base EXCEPT !.studyV2 = w, !.sort = s, !.qualityEnroll = q,
                  !.diversityPrune = d, !.progressive = g] :
        w \in BOOLEAN, s \in BOOLEAN, q \in BOOLEAN, d \in BOOLEAN, g \in BOOLEAN}
    \cup {[Base EXCEPT !.nVerify = 0], [Base EXCEPT !.studyThreshold = 5]}

\* The program stops in phase "done" and nowhere else: with this step in place
\* of the exit, any other state without a successor is a deadlock.
Exit == phase = "done" /\ UNCHANGED vars

MCSpec == Init /\ [][Next \/ Exit]_vars
=============================================================================
