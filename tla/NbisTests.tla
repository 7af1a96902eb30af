----------------------------- MODULE NbisTests -----------------------------
(***************************************************************************)
(* The two NBIS viability tests (tools/nbis-test): nbis-minutiae-test      *)
(* detects the minutiae of one image, nbis-bozorth3-test those of two      *)
(* images and matches them.  Both read a PGM file, may scale it up and     *)
(* call the NBIS library; they differ in what they check on the way and in *)
(* what they clean up.                                                     *)
(*                                                                         *)
(* An object is a piece of memory, named for the variable that holds it    *)
(* and the image it belongs to.                                            *)
(***************************************************************************)
EXTENDS Integers

CONSTANTS
    MAX_ROWS,       \* MAX_BOZORTH_MINUTIAE
    MIN_ROWS,       \* minutiae needed for a match
    MAX_MINUTIAE    \* bound: what the library detects in one image

ASSUME NbisAssumption ==
    /\ MIN_ROWS \in Nat /\ MAX_ROWS \in Nat /\ MAX_MINUTIAE \in Nat
    /\ MIN_ROWS <= MAX_ROWS

VARIABLES
    prog,       \* the program that runs
    scale,      \* the image is to be scaled up
    pc,
    at,         \* the image in hand
    held,       \* objects allocated and not freed
    twice,      \* history: objects freed that were not allocated
    partial,    \* history: images read in part only and used all the same
    found,      \* minutiae of each image that was extracted
    rows,       \* rows in each image's table
    ret,        \* what the library returned
    verdict,
    exit        \* the exit code, 139 for a crash

vars == <<prog, scale, pc, at, held, twice, partial, found, rows, ret, verdict, exit>>

data == <<found, rows, ret, verdict>>
run == <<prog, scale>>

Running == -1
Crash == 139

Last == IF prog = "bozorth3" THEN 2 ELSE 1

Outputs == {"minutiae", "maps", "bdata"}
Object == (Outputs \union {"img", "work", "xyt"}) \X (1..2)

\* free() on each of S; a null pointer is left alone.
Free(S) ==
    /\ held' = held \ S
    /\ twice' = twice \union (S \ held)

Exit(code) ==
    /\ pc' = "ended"
    /\ exit' = code

\* What main or image_to_xyt points at: the scaled image or the image itself.
Work == IF scale THEN <<"work", at>> ELSE <<"img", at>>

Init ==
    /\ prog \in {"minutiae", "bozorth3"}
    /\ scale \in BOOLEAN
    /\ pc = "start"
    /\ at = 1
    /\ held = {}
    /\ twice = {}
    /\ partial = {}
    /\ found = [i \in 1..2 |-> 0]
    /\ rows = [i \in 1..2 |-> 0]
    /\ ret = 0
    /\ verdict = "none"
    /\ exit = Running

-----------------------------------------------------------------------------
TooFewArguments ==
    /\ pc = "start"
    /\ Exit(1)
    /\ UNCHANGED <<run, at, held, twice, partial, data>>

\* The tables of nbis-bozorth3-test are allocated and not looked at.
Begin ==
    /\ pc = "start"
    /\ pc' = "read"
    /\ held' \in IF prog = "bozorth3" THEN SUBSET ({"xyt"} \X (1..2)) ELSE {{}}
    /\ UNCHANGED <<run, at, twice, partial, data, exit>>

\* The file cannot be opened or its header is refused: nothing is held of it,
\* but the tables are not freed.
ReadFails ==
    /\ pc = "read"
    /\ Exit(1)
    /\ UNCHANGED <<run, at, held, twice, partial, data>>

ReadWhole ==
    /\ pc = "read"
    /\ held' = held \union {<<"img", at>>}
    /\ pc' = IF scale THEN "upscale" ELSE "detect"
    /\ UNCHANGED <<run, at, twice, partial, data, exit>>

\* The file is shorter than its header says.  nbis-minutiae-test frees the
\* buffer and gives up; nbis-bozorth3-test goes on with what is in it.
ReadShort ==
    /\ pc = "read"
    /\ IF prog = "minutiae"
       THEN /\ Exit(1)
            /\ UNCHANGED <<held, partial>>
       ELSE /\ held' = held \union {<<"img", at>>}
            /\ partial' = partial \union {at}
            /\ pc' = IF scale THEN "upscale" ELSE "detect"
            /\ UNCHANGED exit
    /\ UNCHANGED <<run, at, twice, data>>

\* No memory for the image: one gives up, the other reads into a null pointer.
ReadNoMemory ==
    /\ pc = "read"
    /\ Exit(IF prog = "minutiae" THEN 1 ELSE Crash)
    /\ UNCHANGED <<run, at, held, twice, partial, data>>

Upscale ==
    /\ pc = "upscale"
    /\ held' = held \union {<<"work", at>>}
    /\ pc' = "detect"
    /\ UNCHANGED <<run, at, twice, partial, data, exit>>

\* Mutant: the image is not freed.
BugUpscaleNoMemory ==
    /\ pc = "upscale"
    /\ Exit(IF prog = "minutiae" THEN 1 ELSE Crash)
    /\ UNCHANGED <<run, at, held, twice, partial, data>>

UpscaleNoMemory ==
    /\ pc = "upscale"
    /\ IF prog = "minutiae"
       THEN Exit(1) /\ Free({<<"img", at>>})
       ELSE Exit(Crash) /\ UNCHANGED <<held, twice>>
    /\ UNCHANGED <<run, at, partial, data>>

\* The library fails, with any of its outputs set.
DetectFails ==
    /\ pc = "detect"
    /\ \E set \in SUBSET Outputs : held' = held \union (set \X {at})
    /\ ret' = 1
    /\ pc' = "detected"
    /\ UNCHANGED <<run, at, twice, partial, found, rows, verdict, exit>>

Detect(n) ==
    /\ pc = "detect"
    /\ held' = held \union (Outputs \X {at})
    /\ found' = [found EXCEPT ![at] = n]
    /\ ret' = 0
    /\ pc' = "detected"
    /\ UNCHANGED <<run, at, twice, partial, rows, verdict, exit>>

-----------------------------------------------------------------------------
(* After detection: nbis-minutiae-test cleans up and ends.                 *)

\* The outputs that are set, the scaled image if there is one, the image.
Cleanup ==
    /\ pc = "detected"
    /\ prog = "minutiae"
    /\ Free((held \intersect (Outputs \X {1})) \union {Work, <<"img", 1>>})
    /\ Exit(IF ret = 0 THEN 0 ELSE 1)
    /\ UNCHANGED <<run, at, partial, data>>

(* nbis-bozorth3-test frees the images first.                              *)

ExtractFails ==
    /\ pc = "detected"
    /\ prog = "bozorth3"
    /\ ret # 0
    /\ Free({Work, <<"img", at>>})
    /\ Exit(1)
    /\ UNCHANGED <<run, at, partial, data>>

\* The table takes MAX_ROWS rows at most.
RowsOf(n) == IF n < MAX_ROWS THEN n ELSE MAX_ROWS

Extract ==
    /\ pc = "detected"
    /\ prog = "bozorth3"
    /\ ret = 0
    /\ <<"xyt", at>> \in held
    /\ Free({Work, <<"img", at>>} \union (Outputs \X {at}))
    /\ rows' = [rows EXCEPT ![at] = RowsOf(found[at])]
    /\ IF at < Last
       THEN at' = at + 1 /\ pc' = "read"
       ELSE at' = at /\ pc' = "match"
    /\ UNCHANGED <<run, partial, found, ret, verdict, exit>>

\* The table was not allocated: its row count is written through a null pointer.
ExtractNoTable ==
    /\ pc = "detected"
    /\ prog = "bozorth3"
    /\ ret = 0
    /\ <<"xyt", at>> \notin held
    /\ Exit(Crash)
    /\ UNCHANGED <<run, at, held, twice, partial, data>>

Skip ==
    /\ pc = "match"
    /\ \E i \in 1..2 : found[i] < MIN_ROWS
    /\ verdict' = "not viable"
    /\ Free({"xyt"} \X (1..2))
    /\ Exit(0)
    /\ UNCHANGED <<run, at, partial, found, rows, ret>>

\* Mutant: one image with enough minutiae will do.
BugMatch ==
    /\ pc = "match"
    /\ \E i \in 1..2 : found[i] >= MIN_ROWS
    /\ verdict' \in {"above", "below"}
    /\ Free({"xyt"} \X (1..2))
    /\ Exit(0)
    /\ UNCHANGED <<run, at, partial, found, rows, ret>>

Match ==
    /\ pc = "match"
    /\ \A i \in 1..2 : found[i] >= MIN_ROWS
    /\ verdict' \in {"above", "below"}
    /\ Free({"xyt"} \X (1..2))
    /\ Exit(0)
    /\ UNCHANGED <<run, at, partial, found, rows, ret>>

Ended ==
    /\ pc = "ended"
    /\ UNCHANGED vars

Next ==
    \/ TooFewArguments
    \/ Begin
    \/ ReadFails
    \/ ReadWhole
    \/ ReadShort
    \/ ReadNoMemory
    \/ Upscale
    \/ UpscaleNoMemory
    \/ DetectFails
    \/ \E n \in 0..MAX_MINUTIAE : Detect(n)
    \/ Cleanup
    \/ ExtractFails
    \/ Extract
    \/ ExtractNoTable
    \/ Skip
    \/ Match
    \/ Ended

Spec == Init /\ [][Next]_vars

-----------------------------------------------------------------------------
(* What holds.                                                             *)

TypeOK ==
    /\ prog \in {"minutiae", "bozorth3"}
    /\ scale \in BOOLEAN
    /\ pc \in {"start", "read", "upscale", "detect", "detected", "match", "ended"}
    /\ at \in 1..Last
    /\ held \subseteq Object
    /\ twice \subseteq Object
    /\ partial \subseteq 1..Last
    /\ found \in [1..2 -> 0..MAX_MINUTIAE]
    /\ rows \in [1..2 -> 0..MAX_ROWS]
    /\ ret \in {0, 1}
    /\ verdict \in {"none", "not viable", "above", "below"}
    /\ exit \in {Running, 0, 1, Crash}

\* Whichever step fails, nothing is freed that is not held: not the image when it
\* is also the working copy, no output of the library, no table.
FreedOnce == twice = {}

\* nbis-minutiae-test leaves nothing behind on any path; nbis-bozorth3-test only
\* where it fails, and then at most its tables and the outputs of that image.
LeftBehind ==
    pc = "ended" /\ exit # Crash
        => /\ prog = "minutiae" \/ exit = 0 => held = {}
           /\ held \subseteq ({"xyt"} \X (1..2)) \union (Outputs \X {at})

\* A verdict rests on two tables, each as full as its image allows; no verdict is
\* given on a failure, and nbis-minutiae-test never analyses half an image.
VerdictFounded ==
    /\ verdict \in {"above", "below"} =>
        \A i \in 1..2 : rows[i] >= MIN_ROWS /\ rows[i] = RowsOf(found[i])
    /\ exit \in {1, Crash} => verdict = "none"
    /\ prog = "bozorth3" /\ exit = 0 => verdict # "none"
    /\ partial # {} => prog = "bozorth3"
=============================================================================
