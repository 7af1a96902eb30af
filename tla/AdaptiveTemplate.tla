-------------------------- MODULE AdaptiveTemplate --------------------------
(***************************************************************************)
(* What sigfm-batch promises about its template, without pointers, gates,  *)
(* rankings or scores: it is built from enrollment frames, served to the   *)
(* verification loop, and while it serves, a slot changes only by taking   *)
(* in a probe that some entry recognised with a high enough score; once    *)
(* frozen it does not change at all.                                       *)
(***************************************************************************)
EXTENDS Integers, Sequences

CONSTANTS Image, Keypoints(_), MatchScore(_, _)

VARIABLES
    stage,      \* "building", "serving" or "gone"
    store,      \* the images in the template, in order
    frozen,     \* study is off, or has locked itself
    threshold   \* the score a probe needs to be learnt

vars == <<stage, store, frozen, threshold>>

Init ==
    /\ stage = "building"
    /\ store = <<>>
    /\ frozen \in BOOLEAN
    /\ threshold \in Int

Enroll(p) ==
    /\ stage = "building"
    /\ store' = Append(store, p)
    /\ UNCHANGED <<stage, frozen, threshold>>

\* A ranked enrollment may give a slot to a frame with more keypoints.
Upgrade(k, p) ==
    /\ stage = "building"
    /\ Keypoints(p) > Keypoints(store[k])
    /\ store' = [store EXCEPT ![k] = p]
    /\ UNCHANGED <<stage, frozen, threshold>>

\* Sorting and pruning rearrange and drop entries; they never duplicate one.
Curate ==
    /\ stage = "building"
    /\ \E n \in 0 .. Len(store) :
          \E from \in [1 .. n -> DOMAIN store] :
             /\ \A j, k \in 1 .. n : j # k => from[j] # from[k]
             /\ store' = [k \in 1 .. n |-> store[from[k]]]
    /\ UNCHANGED <<stage, frozen, threshold>>

Serve ==
    /\ stage = "building"
    /\ store # <<>>
    /\ stage' = "serving"
    /\ UNCHANGED <<store, frozen, threshold>>

Recognised(p) == \E j \in DOMAIN store : MatchScore(store[j], p) >= threshold

Absorb(k, p) ==
    /\ stage = "serving"
    /\ ~frozen
    /\ Recognised(p)
    /\ store' = [store EXCEPT ![k] = p]
    /\ UNCHANGED <<stage, frozen, threshold>>

Freeze ==
    /\ stage = "serving"
    /\ frozen' = TRUE
    /\ UNCHANGED <<stage, store, threshold>>

Discard ==
    /\ stage # "gone"
    /\ stage' = "gone"
    /\ store' = <<>>
    /\ UNCHANGED <<frozen, threshold>>

Next ==
    \/ \E p \in Image : Enroll(p)
    \/ \E k \in DOMAIN store, p \in Image : Upgrade(k, p) \/ Absorb(k, p)
    \/ Curate
    \/ Serve
    \/ Freeze
    \/ Discard

Spec == Init /\ [][Next]_vars
=============================================================================
