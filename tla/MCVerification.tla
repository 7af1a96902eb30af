--------------------------- MODULE MCVerification ---------------------------
(* Verification on a small instance: templates of up to three entries over *)
(* four images, and the thresholds of study v2 scaled down so that a short *)
(* run passes the observation gate and reaches the degradation lock.       *)
EXTENDS Verification, TLC

CONSTANTS a1, a2, a3, a4, a5

MCAddr == {a1, a2, a3, a4, a5}
AddrSymmetry == Permutations(MCAddr)

\* Images are named by their keypoint count.  30 is below STUDY_MIN_KP, 35 is
\* less than 60% of 60.
MCImage == {30, 35, 50, 60}
MCKeypoints(p) == p

\* Symmetric; 30 is an image the matcher fails on.
MCMatchScore(p, q) ==
    CASE 30 \in {p, q}        -> IF p = q THEN 20 ELSE -1
      [] p = q                -> 17
      [] {p, q} = {35, 50}    -> 5
      [] {p, q} = {50, 60}    -> 8
      [] {p, q} = {35, 60}    -> 13

Good(p) == [readable |-> TRUE, stddev |-> 30, extracts |-> TRUE, image |-> p]

MCFrame ==
    {Good(p) : p \in MCImage}
        \cup {[Good(30) EXCEPT !.readable = FALSE],
              [Good(30) EXCEPT !.stddev = 10],
              [Good(30) EXCEPT !.extracts = FALSE]}

Base == [nEnroll |-> 3, nVerify |-> 4, qualityGate |-> 25, stddevGate |-> 25,
         scoreThreshold |-> 6, studyThreshold |-> 6, progressiveStrict |-> 40,
         templateStudy |-> FALSE, studyV2 |-> FALSE, csv |-> TRUE, sort |-> FALSE,
         qualityEnroll |-> FALSE, diversityPrune |-> FALSE, progressive |-> FALSE,
         maxSubtemplates |-> 2]

\* No study, naive study, study v2; the study threshold at or above the
\* match threshold; a keypoint gate that bites.
MCOptions ==
    {[Base EXCEPT !.nVerify = 0],
     Base,
     [Base EXCEPT !.templateStudy = TRUE],
     [Base EXCEPT !.templateStudy = TRUE, !.studyThreshold = 10],
     [Base EXCEPT !.templateStudy = TRUE, !.studyV2 = TRUE],
     [Base EXCEPT !.templateStudy = TRUE, !.studyV2 = TRUE, !.studyThreshold = 9],
     [Base EXCEPT !.qualityGate = 40, !.csv = FALSE]}
=============================================================================
