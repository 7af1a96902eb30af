-------------------------------- MODULE Sigfm --------------------------------
(***************************************************************************)
(* The SIGFM library as sigfm-batch.c uses it.  sigfm.c itself lives in    *)
(* the libfprint-fork submodule, which the repository leaves empty, so     *)
(* this module is external: an opaque SigfmImgInfo is an address of the    *)
(* C heap that holds the feature set (here: the image) it was extracted    *)
(* from.  Every pointer bug of the caller is then visible: an address that *)
(* is used while Free, freed twice, or never freed.                        *)
(***************************************************************************)
EXTENDS Integers

CONSTANTS
    Image,              \* feature sets sigfm_extract can produce
    Addr,               \* addresses malloc can return
    Free,               \* content of an address that is not allocated
    Keypoints(_),       \* sigfm_keypoints_count
    MatchScore(_, _),   \* sigfm_match_score(entry, probe); negative on error
    INT_MAX             \* the largest int, and so the largest score

ASSUME SigfmAssumption ==
    /\ \A p \in Image : Keypoints(p) \in Nat
    /\ \A p, q \in Image : MatchScore(p, q) \in Int /\ MatchScore(p, q) <= INT_MAX
    /\ INT_MAX \in Nat
    /\ Free \notin Image

Heap == [Addr -> Image \cup {Free}]

Allocated(h) == {a \in Addr : h[a] # Free}

\* sigfm_extract, sigfm_copy_info: a block holding image p appears at a.
AllocInfo(h, a, p) == [h EXCEPT ![a] = p]

\* sigfm_free_info.
FreeInfo(h, a) == [h EXCEPT ![a] = Free]
=============================================================================
