-------------------------- MODULE NbisTestsProofs --------------------------
(***************************************************************************)
(* Proofs about NbisTests for tables of any size: what is held at each     *)
(* step of either program, and from that what is freed and left behind.    *)
(***************************************************************************)
EXTENDS NbisTests, TLAPS

USE NbisAssumption

Tables == {"xyt"} \X (1..2)
Image(i) == <<"img", i>>
Made(i) == Outputs \X {i}

\* What is held at each step.
HeldInv ==
    /\ prog = "minutiae" => held \intersect Tables = {}
    /\ pc = "start" => held = {} /\ at = 1
    /\ pc # "start" /\ at = 2 /\ exit = Running => <<"xyt", 1>> \in held
    /\ pc = "read" => held \subseteq Tables
    /\ pc = "upscale" => scale /\ Image(at) \in held
                               /\ held \subseteq Tables \union {Image(at)}
    /\ pc \in {"detect", "detected"} => Image(at) \in held /\ Work \in held
    /\ pc = "detect" => held \subseteq Tables \union {Image(at), Work}
    /\ pc = "detected" => held \subseteq Tables \union {Image(at), Work} \union Made(at)
    /\ pc = "detected" /\ ret = 0 => Made(at) \subseteq held
    /\ pc = "match" => held = Tables /\ prog = "bozorth3"

\* What the tables hold, and when a verdict is given.
RowsInv ==
    /\ pc # "ended" => verdict = "none" /\ exit = Running
    /\ pc # "ended" /\ at = 2 => rows[1] = RowsOf(found[1])
    /\ pc = "match" => \A i \in 1..2 : rows[i] = RowsOf(found[i])

IInv == TypeOK /\ FreedOnce /\ LeftBehind /\ VerdictFounded /\ HeldInv /\ RowsInv

LEMMA InitIInv == Init => IInv
  BY DEF Init, IInv, TypeOK, FreedOnce, LeftBehind, VerdictFounded, HeldInv,
         RowsInv, Running, Crash, Last, Object, Tables

LEMMA AtType ==
    ASSUME TypeOK
    PROVE  /\ Last \in {1, 2} /\ at \in {1, 2}
           /\ prog = "bozorth3" => Last = 2
           /\ prog = "minutiae" => at = 1
<1>1. CASE prog = "bozorth3"
  <2>1. Last = 2
    BY <1>1 DEF Last
  <2>2. at \in 1..2
    BY <2>1 DEF TypeOK
  <2> QED BY <1>1, <2>1, <2>2
<1>2. CASE prog = "minutiae"
  <2>1. Last = 1
    BY <1>2 DEF Last
  <2>2. at \in 1..1
    BY <2>1 DEF TypeOK
  <2> QED BY <1>2, <2>1, <2>2
<1> QED BY <1>1, <1>2 DEF TypeOK

\* The next two say what a step that goes on, and one that ends, must keep.
LEMMA OngoingIInv ==
    ASSUME IInv, TypeOK', twice' = twice, pc # "ended", pc' # "ended",
           UNCHANGED <<verdict, exit>>, UNCHANGED prog, HeldInv', RowsInv',
           partial' # {} => prog = "bozorth3"
    PROVE  IInv'
  BY DEF IInv, FreedOnce, LeftBehind, VerdictFounded, RowsInv, Running, Crash

LEMMA FailedIInv ==
    ASSUME IInv, TypeOK', twice' = {}, pc' = "ended", exit' \in {1, Crash},
           UNCHANGED <<verdict, prog, partial>>, pc # "ended",
           prog = "minutiae" => held' \intersect Tables = {},
           exit' = 1 => /\ prog = "minutiae" => held' = {}
                        /\ held' \subseteq Tables \union Made(at')
    PROVE  IInv'
  BY DEF IInv, FreedOnce, LeftBehind, VerdictFounded, HeldInv, RowsInv, Running,
         Crash, Tables, Made

-----------------------------------------------------------------------------
(* The steps that go on.                                                   *)

LEMMA BeginIInv ==
    ASSUME IInv, Begin
    PROVE  IInv'
<1>1. /\ pc = "start" /\ pc' = "read" /\ held = {} /\ at = 1 /\ at' = 1
      /\ held' \subseteq Tables
      /\ prog = "minutiae" => held' = {}
      /\ UNCHANGED <<prog, scale, twice, partial, found, rows, ret, verdict, exit>>
  BY DEF Begin, run, data, IInv, HeldInv, Tables
<1>2. TypeOK'
  BY <1>1 DEF IInv, TypeOK, Object, Tables, Last
<1>3. HeldInv' /\ RowsInv'
  BY <1>1 DEF IInv, HeldInv, RowsInv
<1>4. partial' # {} => prog = "bozorth3"
  BY <1>1 DEF IInv, VerdictFounded
<1> QED BY <1>1, <1>2, <1>3, <1>4, OngoingIInv

LEMMA ReadIInv ==
    ASSUME IInv, ReadWhole \/ (ReadShort /\ prog # "minutiae")
    PROVE  IInv'
<1>1. /\ pc = "read" /\ held' = held \union {Image(at)}
      /\ pc' = IF scale THEN "upscale" ELSE "detect"
      /\ partial' = partial \/ (partial' = partial \union {at} /\ prog # "minutiae")
      /\ UNCHANGED <<prog, scale, at, twice, found, rows, ret, verdict, exit>>
  BY DEF ReadWhole, ReadShort, run, data, Image
<1>2. prog \in {"minutiae", "bozorth3"} /\ at \in 1..Last /\ at \in {1, 2}
  BY AtType DEF IInv, TypeOK
<1>3. TypeOK'
  <2>1. Image(at) \in Object
    BY <1>2 DEF Image, Object
  <2>2. held' \subseteq Object /\ partial' \subseteq 1..Last'
    BY <1>1, <1>2, <2>1 DEF IInv, TypeOK, Last
  <2> QED BY <1>1, <2>2 DEF IInv, TypeOK, Last
<1>4. HeldInv'
  BY <1>1, <1>2 DEF IInv, HeldInv, Image, Tables, Work
<1>5. RowsInv'
  BY <1>1 DEF IInv, RowsInv
<1>6. partial' # {} => prog = "bozorth3"
  BY <1>1, <1>2 DEF IInv, VerdictFounded
<1> QED BY <1>1, <1>3, <1>4, <1>5, <1>6, OngoingIInv

LEMMA UpscaleIInv ==
    ASSUME IInv, Upscale
    PROVE  IInv'
<1>1. /\ pc = "upscale" /\ pc' = "detect" /\ held' = held \union {<<"work", at>>}
      /\ UNCHANGED <<prog, scale, at, twice, partial, found, rows, ret, verdict, exit>>
  BY DEF Upscale, run, data
<1>2. TypeOK'
  <2>1. <<"work", at>> \in Object
    BY AtType DEF IInv, Object
  <2> QED BY <1>1, <2>1 DEF IInv, TypeOK, Last
<1>3. HeldInv'
  BY <1>1 DEF IInv, HeldInv, Image, Tables, Work
<1>4. RowsInv'
  BY <1>1 DEF IInv, RowsInv
<1>5. partial' # {} => prog = "bozorth3"
  BY <1>1 DEF IInv, VerdictFounded
<1> QED BY <1>1, <1>2, <1>3, <1>4, <1>5, OngoingIInv

LEMMA DetectIInv ==
    ASSUME IInv, DetectFails \/ \E n \in 0..MAX_MINUTIAE : Detect(n)
    PROVE  IInv'
<1>1. /\ pc = "detect" /\ pc' = "detected"
      /\ held \subseteq held' /\ held' \subseteq held \union Made(at)
      /\ ret' \in {0, 1}
      /\ ret' = 0 => Made(at) \subseteq held'
      /\ found' = found \/ \E n \in 0..MAX_MINUTIAE : found' = [found EXCEPT ![at] = n]
      /\ UNCHANGED <<prog, scale, at, twice, partial, rows, verdict, exit>>
  BY DEF DetectFails, Detect, run, Made
<1>2. at \in {1, 2}
  BY AtType DEF IInv
<1>3. TypeOK'
  <2>1. Made(at) \subseteq Object
    BY <1>2 DEF Made, Object
  <2>2. found' \in [1..2 -> 0..MAX_MINUTIAE]
    BY <1>1, <1>2 DEF IInv, TypeOK
  <2> QED BY <1>1, <2>1, <2>2 DEF IInv, TypeOK, Last
<1>4. HeldInv'
  <2>1. Work' = Work
    BY <1>1 DEF Work
  <2>2. held \subseteq Tables \union {Image(at), Work} /\ Image(at) \in held /\ Work \in held
    BY <1>1 DEF IInv, HeldInv
  <2>3. prog = "minutiae" => held' \intersect Tables = {}
    <3>1. Made(at) \intersect Tables = {}
      BY DEF Made, Tables, Outputs
    <3> QED BY <1>1, <3>1 DEF IInv, HeldInv
  <2> QED BY <1>1, <2>1, <2>2, <2>3 DEF IInv, HeldInv
<1>5. RowsInv'
  <2>1. at = 2 => found'[1] = found[1]
    <3>1. ASSUME NEW n \in 0..MAX_MINUTIAE, found' = [found EXCEPT ![at] = n], at = 2
          PROVE  found'[1] = found[1]
      <4>1. found \in [1..2 -> 0..MAX_MINUTIAE]
        BY DEF IInv, TypeOK
      <4> QED BY <3>1, <4>1
    <3> QED BY <1>1, <3>1
  <2> QED BY <1>1, <2>1 DEF IInv, RowsInv
<1>6. partial' # {} => prog = "bozorth3"
  BY <1>1 DEF IInv, VerdictFounded
<1> QED BY <1>1, <1>3, <1>4, <1>5, <1>6, OngoingIInv

LEMMA RowsOfType ==
    ASSUME NEW n \in 0..MAX_MINUTIAE
    PROVE  RowsOf(n) \in 0..MAX_ROWS /\ (n >= MIN_ROWS => RowsOf(n) >= MIN_ROWS)
  BY DEF RowsOf

LEMMA ExtractIInv ==
    ASSUME IInv, Extract
    PROVE  IInv'
<1>1. /\ pc = "detected" /\ prog = "bozorth3" /\ ret = 0 /\ <<"xyt", at>> \in held
      /\ held' = held \ ({Work, Image(at)} \union Made(at))
      /\ twice' = twice \union (({Work, Image(at)} \union Made(at)) \ held)
      /\ rows' = [rows EXCEPT ![at] = RowsOf(found[at])]
      /\ at' = IF at < Last THEN at + 1 ELSE at
      /\ pc' = IF at < Last THEN "read" ELSE "match"
      /\ UNCHANGED <<prog, scale, partial, found, ret, verdict, exit>>
  BY DEF Extract, run, Free, Made, Image
<1>2. Last = 2 /\ at \in {1, 2}
  BY <1>1, AtType DEF IInv
<1>3. /\ held \subseteq Tables \union {Image(at), Work} \union Made(at)
      /\ Made(at) \subseteq held /\ Image(at) \in held /\ Work \in held
      /\ at = 2 => <<"xyt", 1>> \in held
  BY <1>1 DEF IInv, HeldInv, RowsInv
<1>4. twice' = twice /\ held' \subseteq Tables
  BY <1>1, <1>3
<1>5. \A i \in 1..2 : <<"xyt", i>> \in held => <<"xyt", i>> \in held'
  BY <1>1 DEF Work, Image, Made, Outputs
<1>6. RowsOf(found[at]) \in 0..MAX_ROWS
  BY <1>2, RowsOfType DEF IInv, TypeOK
<1>7. TypeOK'
  <2>1. held' \subseteq Object
    BY <1>1 DEF IInv, TypeOK
  <2>2. rows' \in [1..2 -> 0..MAX_ROWS]
    BY <1>1, <1>2, <1>6 DEF IInv, TypeOK
  <2>3. at' \in 1..Last' /\ Last' = Last
    BY <1>1, <1>2 DEF Last
  <2> QED BY <1>1, <1>4, <2>1, <2>2, <2>3 DEF IInv, TypeOK
<1>8. HeldInv'
  <2>1. CASE at = 1
    BY <1>1, <1>2, <1>4, <1>5, <2>1 DEF HeldInv
  <2>2. CASE at = 2
    <3>1. held' = Tables
      BY <1>1, <1>3, <1>4, <1>5, <2>2 DEF Tables
    <3> QED BY <1>1, <1>2, <2>2, <3>1 DEF HeldInv, Tables
  <2> QED BY <1>2, <2>1, <2>2
<1>9. RowsInv'
  BY <1>1, <1>2 DEF IInv, RowsInv, TypeOK
<1>10. partial' # {} => prog = "bozorth3"
  BY <1>1
<1> QED BY <1>1, <1>2, <1>4, <1>7, <1>8, <1>9, <1>10, OngoingIInv

-----------------------------------------------------------------------------
(* The steps that end.                                                     *)

\* Giving up before anything of this image is held.
LEMMA EarlyFailureIInv ==
    ASSUME IInv, \/ TooFewArguments
                 \/ ReadFails
                 \/ ReadShort /\ prog = "minutiae"
                 \/ ReadNoMemory
    PROVE  IInv'
<1>1. /\ pc \in {"start", "read"} /\ pc' = "ended" /\ exit' \in {1, Crash}
      /\ UNCHANGED <<prog, scale, at, held, twice, partial, found, rows, ret, verdict>>
  BY DEF TooFewArguments, ReadFails, ReadShort, ReadNoMemory, Exit, run, data
<1>2. TypeOK'
  BY <1>1 DEF IInv, TypeOK, Last
<1>3. held \subseteq Tables /\ (prog = "minutiae" => held = {}) /\ twice = {}
  BY <1>1 DEF IInv, HeldInv, FreedOnce
<1> QED BY <1>1, <1>2, <1>3, FailedIInv

LEMMA UpscaleFailureIInv ==
    ASSUME IInv, UpscaleNoMemory
    PROVE  IInv'
<1>1. /\ pc = "upscale" /\ pc' = "ended" /\ exit' \in {1, Crash}
      /\ exit' = 1 => prog = "minutiae" /\ held' = held \ {Image(at)}
      /\ held' \subseteq held
      /\ twice' = twice \/ twice' = twice \union ({Image(at)} \ held)
      /\ UNCHANGED <<prog, scale, at, partial, found, rows, ret, verdict>>
  BY DEF UpscaleNoMemory, Exit, Free, run, data, Crash, Image
<1>2. /\ Image(at) \in held /\ held \subseteq Tables \union {Image(at)}
      /\ prog = "minutiae" => held \intersect Tables = {}
      /\ twice = {}
  BY <1>1 DEF IInv, HeldInv, FreedOnce
<1>3. twice' = {}
  BY <1>1, <1>2
<1>4. TypeOK'
  BY <1>1, <1>3 DEF IInv, TypeOK, Last
<1> QED BY <1>1, <1>2, <1>3, <1>4, FailedIInv

LEMMA ExtractFailureIInv ==
    ASSUME IInv, ExtractFails \/ ExtractNoTable
    PROVE  IInv'
<1>1. /\ pc = "detected" /\ prog = "bozorth3" /\ pc' = "ended" /\ exit' \in {1, Crash}
      /\ exit' = 1 => held' = held \ {Work, Image(at)}
      /\ held' \subseteq held
      /\ twice' = twice \/ twice' = twice \union ({Work, Image(at)} \ held)
      /\ UNCHANGED <<prog, scale, at, partial, found, rows, ret, verdict>>
  BY DEF ExtractFails, ExtractNoTable, Exit, Free, run, data, Crash, Image
<1>2. /\ Image(at) \in held /\ Work \in held
      /\ held \subseteq Tables \union {Image(at), Work} \union Made(at)
      /\ twice = {}
  BY <1>1 DEF IInv, HeldInv, FreedOnce
<1>3. twice' = {}
  BY <1>1, <1>2
<1>4. TypeOK'
  BY <1>1, <1>3 DEF IInv, TypeOK, Last
<1>5. exit' = 1 => held' \subseteq Tables \union Made(at')
  BY <1>1, <1>2, <1>3
<1> QED BY <1>1, <1>3, <1>4, <1>5, FailedIInv

LEMMA CleanupIInv ==
    ASSUME IInv, Cleanup
    PROVE  IInv'
<1> DEFINE S == (held \intersect (Outputs \X {1})) \union {Work, Image(1)}
<1>1. /\ pc = "detected" /\ prog = "minutiae" /\ pc' = "ended" /\ exit' \in {0, 1}
      /\ held' = held \ S
      /\ twice' = twice \union (S \ held)
      /\ UNCHANGED <<prog, scale, at, partial, found, rows, ret, verdict>>
  BY DEF Cleanup, Exit, Free, run, data, Image
<1>2. /\ at = 1 /\ Image(1) \in held /\ Work \in held
      /\ held \subseteq Tables \union {Image(1), Work} \union Made(1)
      /\ held \intersect Tables = {}
      /\ twice = {}
      /\ verdict = "none"
  BY <1>1, AtType DEF IInv, HeldInv, FreedOnce, RowsInv
<1>3. twice' = {} /\ held' = {}
  BY <1>1, <1>2 DEF Made
<1>4. TypeOK'
  BY <1>1, <1>3 DEF IInv, TypeOK, Last
<1> QED BY <1>1, <1>2, <1>3, <1>4
     DEF IInv, FreedOnce, LeftBehind, VerdictFounded, HeldInv, RowsInv, Running, Crash

LEMMA VerdictIInv ==
    ASSUME IInv, Skip \/ Match
    PROVE  IInv'
<1>1. /\ pc = "match" /\ pc' = "ended" /\ exit' = 0
      /\ held' = held \ Tables /\ twice' = twice \union (Tables \ held)
      /\ verdict' \in {"not viable", "above", "below"}
      /\ verdict' \in {"above", "below"} => \A i \in 1..2 : found[i] >= MIN_ROWS
      /\ UNCHANGED <<prog, scale, at, partial, found, rows, ret>>
  BY DEF Skip, Match, Exit, Free, run, Tables
<1>a. exit' = 0
  BY DEF Skip, Match, Exit
<1>b. exit' # Running /\ exit' \notin {1, Crash}
  BY <1>a DEF Running, Crash
<1>c. verdict' # "none" /\ prog' = prog
  BY DEF Skip, Match, run
<1>2. /\ held = Tables /\ prog = "bozorth3" /\ twice = {}
      /\ \A i \in 1..2 : rows[i] = RowsOf(found[i])
      /\ \A i \in 1..2 : found[i] \in 0..MAX_MINUTIAE
  BY <1>1 DEF IInv, HeldInv, FreedOnce, RowsInv, TypeOK
<1>3. twice' = {} /\ held' = {}
  BY <1>1, <1>2
<1>4. TypeOK'
  BY <1>1, <1>3 DEF IInv, TypeOK, Last
<1>5. VerdictFounded'
  <2>1. verdict' \in {"above", "below"} =>
            \A i \in 1..2 : rows[i] >= MIN_ROWS /\ rows[i] = RowsOf(found[i])
    BY <1>1, <1>2, RowsOfType
  <2>2. \A i \in 1..2 : rows'[i] = rows[i] /\ RowsOf(found'[i]) = RowsOf(found[i])
    BY <1>1
  <2>3. verdict' \in {"above", "below"} =>
            \A i \in 1..2 : rows'[i] >= MIN_ROWS /\ rows'[i] = RowsOf(found'[i])
    BY <2>1, <2>2
  <2>4. exit' \notin {1, Crash} /\ verdict' # "none" /\ prog' = "bozorth3"
    BY <1>2, <1>b, <1>c
  <2> QED BY <2>3, <2>4 DEF VerdictFounded
<1>6. HeldInv'
  <2>1. pc' = "ended" /\ held' = {}
    BY <1>1, <1>3
  <2> QED BY <2>1, <1>b DEF HeldInv
<1>7. RowsInv' /\ FreedOnce' /\ LeftBehind'
  BY <1>1, <1>3 DEF RowsInv, FreedOnce, LeftBehind
<1> QED BY <1>4, <1>5, <1>6, <1>7 DEF IInv

-----------------------------------------------------------------------------
LEMMA NextIInv == IInv /\ [Next]_vars => IInv'
<1> SUFFICES ASSUME IInv, [Next]_vars PROVE IInv'
  OBVIOUS
<1>1. prog \in {"minutiae", "bozorth3"}
  BY DEF IInv, TypeOK
<1>2. CASE UNCHANGED vars
  <2>1. UNCHANGED <<prog, scale, pc, at, held, twice, partial, found, rows, ret, verdict, exit>>
    BY <1>2 DEF vars
  <2>2. Last' = Last /\ Work' = Work
    BY <2>1 DEF Last, Work
  <2>3. TypeOK' /\ FreedOnce'
    BY <2>1, <2>2 DEF IInv, TypeOK, FreedOnce
  <2>4. LeftBehind' /\ VerdictFounded'
    BY <2>1 DEF IInv, LeftBehind, VerdictFounded
  <2>5. HeldInv'
    BY <2>1, <2>2 DEF IInv, HeldInv
  <2>6. RowsInv'
    BY <2>1 DEF IInv, RowsInv
  <2> QED BY <2>3, <2>4, <2>5, <2>6 DEF IInv
<1>3. CASE Next
  <2>1. CASE Begin
    BY <2>1, BeginIInv
  <2>2. CASE ReadWhole \/ ReadShort
    <3>1. CASE ReadShort /\ prog = "minutiae"
      BY <3>1, EarlyFailureIInv
    <3>2. CASE ReadShort /\ prog # "minutiae"
      BY <3>2, ReadIInv
    <3>3. CASE ReadWhole
      BY <3>3, ReadIInv
    <3> QED BY <2>2, <3>1, <3>2, <3>3
  <2>3. CASE Upscale
    BY <2>3, UpscaleIInv
  <2>4. CASE DetectFails \/ \E n \in 0..MAX_MINUTIAE : Detect(n)
    BY <2>4, DetectIInv
  <2>5. CASE Extract
    BY <2>5, ExtractIInv
  <2>6. CASE TooFewArguments \/ ReadFails \/ ReadNoMemory
    BY <2>6, EarlyFailureIInv
  <2>7. CASE UpscaleNoMemory
    BY <2>7, UpscaleFailureIInv
  <2>8. CASE ExtractFails \/ ExtractNoTable
    BY <2>8, ExtractFailureIInv
  <2>9. CASE Cleanup
    BY <2>9, CleanupIInv
  <2>10. CASE Skip \/ Match
    BY <2>10, VerdictIInv
  <2>11. CASE Ended
    BY <2>11, <1>2 DEF Ended
  <2> QED BY <1>3, <2>1, <2>2, <2>3, <2>4, <2>5, <2>6, <2>7, <2>8, <2>9, <2>10, <2>11
       DEF Next
<1> QED BY <1>2, <1>3

\* The inductive invariant holds throughout both programs.
THEOREM NbisInvariant == Spec => []IInv
  BY InitIInv, NextIInv, PTL DEF Spec

\* Every variable keeps its type: no table is filled beyond its size.
THEOREM NbisTyped == Spec => []TypeOK
<1>1. IInv => TypeOK
  BY DEF IInv
<1> QED BY <1>1, NbisInvariant, PTL

\* Nothing is freed that is not held, whichever step fails.
THEOREM NbisFreedOnce == Spec => []FreedOnce
<1>1. IInv => FreedOnce
  BY DEF IInv
<1> QED BY <1>1, NbisInvariant, PTL

\* What either program leaves behind when it ends.
THEOREM NbisLeftBehind == Spec => []LeftBehind
<1>1. IInv => LeftBehind
  BY DEF IInv
<1> QED BY <1>1, NbisInvariant, PTL

\* A verdict rests on two tables with enough rows.
THEOREM NbisVerdictFounded == Spec => []VerdictFounded
<1>1. IInv => VerdictFounded
  BY DEF IInv
<1> QED BY <1>1, NbisInvariant, PTL

=============================================================================
