---------------------------- MODULE MCEnrollment ----------------------------
(* Enrollment on a small instance: four or fewer files, frames of four     *)
(* qualities, a template of three slots.                                   *)
EXTENDS Enrollment, TLC

CONSTANTS a1, a2, a3, a4, a5

MCAddr == {a1, a2, a3, a4, a5}
AddrSymmetry == Permutations(MCAddr)

\* Images are named by their keypoint count; 20 falls to the keypoint gate.
MCImage == {20, 30, 40, 50}
MCKeypoints(p) == p

\* 30 and 50 are alike; the matcher fails on 40 against 40.
MCMatchScore(p, q) ==
    IF p = 40 /\ q = 40 THEN -1
    ELSE IF p = q THEN 9
    ELSE IF {p, q} = {30, 50} THEN 6
    ELSE IF p < q THEN 3 ELSE 1

Good(p) == [readable |-> TRUE, stddev |-> 30, extracts |-> TRUE, image |-> p]

MCFrame ==
    {Good(p) : p \in MCImage}
        \cup {[Good(30) EXCEPT !.readable = FALSE],
              [Good(30) EXCEPT !.stddev = 10],
              [Good(30) EXCEPT !.extracts = FALSE]}

Base == [nEnroll |-> 3, nVerify |-> 0, qualityGate |-> 25, stddevGate |-> 25,
         scoreThreshold |-> 6, studyThreshold |-> 6, progressiveStrict |-> 40,
         templateStudy |-> FALSE, studyV2 |-> FALSE, csv |-> FALSE, sort |-> FALSE,
         qualityEnroll |-> FALSE, diversityPrune |-> FALSE, progressive |-> FALSE,
         maxSubtemplates |-> 2]

\* Every mix of the enrollment flags, and of few and many slots.
MCOptions ==
    {[Base EXCEPT !.nEnroll = n, !.sort = s, !.qualityEnroll = q,
                  !.diversityPrune = d, !.progressive = g, !.maxSubtemplates = m] :
        n \in {3, 4}, s \in BOOLEAN, q \in BOOLEAN, d \in BOOLEAN,
        g \in BOOLEAN, m \in {1, 2, 4}}

\* CSV mode only changes where the messages go.
MCCsvOptions == {[o EXCEPT !.csv = TRUE] : o \in MCOptions}
=============================================================================
