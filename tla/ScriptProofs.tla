---------------------------- MODULE ScriptProofs ----------------------------
(***************************************************************************)
(* The two capture scripts.  debug-capture.sh reports on exactly what the  *)
(* capture printed, for any size of the FIFO and any number of lines.      *)
(* capture-corpus.sh counts the frames on disk finger by finger, for any   *)
(* number of fingers and frames, and its grand total is what the session   *)
(* captured when the directories were clean.                               *)
(***************************************************************************)
EXTENDS DebugCapture, CaptureCorpus, FiniteSetTheorems, FunctionTheorems,
        SequenceTheorems, TLAPS

-----------------------------------------------------------------------------
(* debug-capture.sh.                                                       *)

\* Where the printed lines are: in the FIFO until tee has opened its log, then
\* in the log and the FIFO together.
Flow ==
    /\ tee \in {"absent", "forked", "opening"} => pipe = written
    /\ tee \in {"copying", "ok"} /\ logOpen => log \o pipe = written
    /\ tee = "ok" => logOpen /\ pipe = <<>> /\ bin \in {"ok", "failed"}

\* Where the script is against the other two.
Order ==
    /\ pc = "start" => bin = "absent" /\ tee = "absent"
    /\ bin = "absent" => tee = "absent"
    /\ pc = "wait" => bin = "ok"
    /\ pc = "parse" => bin = "ok" /\ tee = "ok"
    /\ pc = "done" => ~fifo /\ bin \in {"absent", "ok", "failed", "killed"}
    /\ exitCode = 0 => pc = "done" /\ tee = "ok" /\ (shown <=> HasMetric(log))

IInv == TypeOK /\ Flow /\ Order

-----------------------------------------------------------------------------
\* Moving the first line from the FIFO to the end of the log keeps both
\* together what they were (TeeCopies).
LEMMA MoveHead ==
    ASSUME NEW S, NEW a \in Seq(S), NEW b \in Seq(S), b # <<>>
    PROVE  /\ Head(b) \in S
           /\ Tail(b) \in Seq(S)
           /\ Len(Tail(b)) <= Len(b)
           /\ Append(a, Head(b)) \in Seq(S)
           /\ Append(a, Head(b)) \o Tail(b) = a \o b
<1>1. Head(b) \in S /\ Tail(b) \in Seq(S) /\ Len(Tail(b)) = Len(b) - 1 /\ Len(b) \in Nat
  BY HeadTailProperties
<1>2. Append(a, Head(b)) \in Seq(S)
  BY <1>1, AppendProperties
<1>3. Append(a, Head(b)) \o Tail(b) = a \o b
  BY <1>1
<1> QED BY <1>1, <1>2, <1>3

\* Appending a line to the FIFO appends it to log and FIFO together (BinWrites).
LEMMA AppendBehind ==
    ASSUME NEW S, NEW a \in Seq(S), NEW b \in Seq(S), NEW x \in S
    PROVE  a \o Append(b, x) = Append(a \o b, x)
  OBVIOUS

LEMMA DebugCaptureInit == Init => IInv
<1> SUFFICES ASSUME Init PROVE IInv
  OBVIOUS
<1>1. <<>> \in Seq(Line) /\ <<"metric">> \in Seq(Line) /\ Len(<<>>) = 0
  <2>1. "metric" \in Line
    BY DEF Line
  <2> QED BY <2>1
<1>2. TypeOK
  <2>1. Len(pipe) <= PIPE_CAP
    BY DebugCaptureAssumption DEF Init, DebugCaptureAssumption
  <2>2. pipe \in Seq(Line) /\ log \in Seq(Line) /\ written \in Seq(Line)
    BY <1>1 DEF Init
  <2> QED BY <2>1, <2>2 DEF Init, TypeOK
<1>3. Flow
  BY DEF Init, Flow
<1>4. Order
  BY DEF Init, Order
<1> QED BY <1>2, <1>3, <1>4 DEF IInv

\* Every step keeps the types; only BinWrites and TeeCopies move lines.
LEMMA TypeOKStep == IInv /\ [Next]_vars => TypeOK'
<1> SUFFICES ASSUME TypeOK, Flow, Order, [Next]_vars PROVE TypeOK'
  BY DEF IInv
<1>1. CASE Refuse
  BY <1>1 DEF Refuse, Exit, TypeOK
<1>2. CASE Launch
  BY <1>2 DEF Launch, TypeOK
<1>3. CASE BinFailed
  BY <1>3 DEF BinFailed, Exit, TypeOK
<1>4. CASE BinReturned
  BY <1>4 DEF BinReturned, TypeOK
<1>5. CASE Waited
  <2>1. CASE tee = "ok"
    BY <1>5, <2>1 DEF Waited, TypeOK
  <2>2. CASE tee = "failed"
    BY <1>5, <2>2 DEF Waited, Exit, TypeOK
  <2> QED BY <1>5, <2>1, <2>2 DEF Waited
<1>6. CASE Interrupt
  BY <1>6 DEF Interrupt, Exit, TypeOK
<1>7. CASE Parse
  <2>1. shown' \in BOOLEAN
    BY <1>7 DEF Parse, HasMetric
  <2> QED BY <1>7, <2>1 DEF Parse, Exit, TypeOK
<1>8. CASE BinArrives
  BY <1>8 DEF BinArrives, scriptVars, TypeOK
<1>9. CASE BinOpens
  BY <1>9 DEF BinOpens, scriptVars, TypeOK
<1>10. CASE BinKilled
  BY <1>10 DEF BinKilled, scriptVars, TypeOK
<1>11. CASE BinExits
  BY <1>11 DEF BinExits, scriptVars, TypeOK
<1>12. CASE \E line \in Line : BinWrites(line)
  <2> PICK line \in Line : BinWrites(line)
    BY <1>12
  <2>1. Len(pipe') <= PIPE_CAP /\ pipe' \in Seq(Line) /\ written' \in Seq(Line)
    BY DebugCaptureAssumption DEF BinWrites, TypeOK, DebugCaptureAssumption
  <2> QED BY <2>1 DEF BinWrites, scriptVars, TypeOK
<1>13. CASE TeeArrives
  BY <1>13 DEF TeeArrives, scriptVars, TypeOK
<1>14. CASE TeeOpens
  <2>1. log' \in Seq(Line)
    BY <1>14 DEF TeeOpens, TypeOK
  <2> QED BY <1>14, <2>1 DEF TeeOpens, scriptVars, TypeOK
<1>15. CASE TeeCopies
  <2>1. /\ Tail(pipe) \in Seq(Line)
        /\ Len(Tail(pipe)) <= Len(pipe)
        /\ Append(log, Head(pipe)) \in Seq(Line)
    BY <1>15, MoveHead DEF TeeCopies, TypeOK
  <2>2. Len(pipe) \in Nat /\ Len(Tail(pipe)) \in Nat
    BY <2>1, LenProperties DEF TypeOK
  <2>3. Len(pipe') <= PIPE_CAP /\ pipe' \in Seq(Line) /\ log' \in Seq(Line)
    BY <1>15, <2>1, <2>2, DebugCaptureAssumption DEF TeeCopies, TypeOK, DebugCaptureAssumption
  <2> QED BY <1>15, <2>3 DEF TeeCopies, scriptVars, TypeOK
<1>16. CASE TeeEnds
  BY <1>16 DEF TeeEnds, scriptVars, TypeOK
<1>17. CASE UNCHANGED vars
  BY <1>17 DEF vars, TypeOK
<1> QED
  BY <1>1, <1>2, <1>3, <1>4, <1>5, <1>6, <1>7, <1>8, <1>9, <1>10, <1>11, <1>12, <1>13, <1>14, <1>15, <1>16, <1>17
  DEF Next, Script, Bin, Tee

\* Every step keeps track of the lines printed.
LEMMA FlowStep == IInv /\ [Next]_vars => Flow'
<1> SUFFICES ASSUME TypeOK, Flow, Order, [Next]_vars PROVE Flow'
  BY DEF IInv
<1>1. CASE Refuse
  BY <1>1 DEF Refuse, Exit, Flow
<1>2. CASE Launch
  BY <1>2 DEF Launch, Flow, Order
<1>3. CASE BinFailed
  BY <1>3 DEF BinFailed, Exit, Flow
<1>4. CASE BinReturned
  BY <1>4 DEF BinReturned, Flow
<1>5. CASE Waited
  BY <1>5 DEF Waited, Exit, Flow
<1>6. CASE Interrupt
  BY <1>6 DEF Interrupt, Exit, Flow
<1>7. CASE Parse
  BY <1>7 DEF Parse, Exit, Flow
<1>8. CASE BinArrives
  BY <1>8 DEF BinArrives, scriptVars, Flow
<1>9. CASE BinOpens
  BY <1>9 DEF BinOpens, scriptVars, Flow
<1>10. CASE BinKilled
  BY <1>10 DEF BinKilled, scriptVars, Flow
<1>11. CASE BinExits
  BY <1>11 DEF BinExits, scriptVars, Flow
<1>12. CASE \E line \in Line : BinWrites(line)
  <2> PICK line \in Line : BinWrites(line)
    BY <1>12
  <2>1. log \o Append(pipe, line) = Append(log \o pipe, line)
    BY AppendBehind DEF TypeOK
  <2> QED BY <2>1 DEF BinWrites, scriptVars, Flow
<1>13. CASE TeeArrives
  BY <1>13 DEF TeeArrives, scriptVars, Flow
<1>14. CASE TeeOpens
  <2>1. pipe = written /\ <<>> \o pipe = pipe
    BY <1>14 DEF TeeOpens, TypeOK, Flow
  <2> QED BY <1>14, <2>1 DEF TeeOpens, scriptVars, Flow
<1>15. CASE TeeCopies
  <2>1. Append(log, Head(pipe)) \o Tail(pipe) = log \o pipe
    BY <1>15, MoveHead DEF TeeCopies, TypeOK
  <2> QED BY <1>15, <2>1 DEF TeeCopies, scriptVars, Flow
<1>16. CASE TeeEnds
  BY <1>16 DEF TeeEnds, scriptVars, Flow
<1>17. CASE UNCHANGED vars
  BY <1>17 DEF vars, Flow
<1> QED
  BY <1>1, <1>2, <1>3, <1>4, <1>5, <1>6, <1>7, <1>8, <1>9, <1>10, <1>11, <1>12, <1>13, <1>14, <1>15, <1>16, <1>17
  DEF Next, Script, Bin, Tee

\* Every step keeps script, binary and tee in order.
LEMMA OrderStep == IInv /\ [Next]_vars => Order'
<1> SUFFICES ASSUME TypeOK, Flow, Order, [Next]_vars PROVE Order'
  BY DEF IInv
<1>1. CASE Refuse
  BY <1>1 DEF Refuse, Exit, HasMetric, Order
<1>2. CASE Launch
  BY <1>2 DEF Launch, HasMetric, Order
<1>3. CASE BinFailed
  BY <1>3 DEF BinFailed, Exit, HasMetric, Order
<1>4. CASE BinReturned
  BY <1>4 DEF BinReturned, HasMetric, Order
<1>5. CASE Waited
  BY <1>5 DEF Waited, Exit, HasMetric, Order
<1>6. CASE Interrupt
  BY <1>6 DEF Interrupt, Exit, HasMetric, Order
<1>7. CASE Parse
  <2>1. shown' <=> HasMetric(log')
    BY <1>7 DEF Parse, HasMetric
  <2> QED BY <1>7, <2>1 DEF Parse, Exit, Order
<1>8. CASE BinArrives
  BY <1>8 DEF BinArrives, scriptVars, HasMetric, Order
<1>9. CASE BinOpens
  BY <1>9 DEF BinOpens, scriptVars, HasMetric, Order
<1>10. CASE BinKilled
  BY <1>10 DEF BinKilled, scriptVars, HasMetric, Order
<1>11. CASE BinExits
  BY <1>11 DEF BinExits, scriptVars, HasMetric, Order
<1>12. CASE \E line \in Line : BinWrites(line)
  BY <1>12 DEF BinWrites, scriptVars, Order
<1>13. CASE TeeArrives
  BY <1>13 DEF TeeArrives, scriptVars, HasMetric, Order
<1>14. CASE TeeOpens
  BY <1>14 DEF TeeOpens, scriptVars, HasMetric, Order
<1>15. CASE TeeCopies
  BY <1>15 DEF TeeCopies, scriptVars, HasMetric, Order
<1>16. CASE TeeEnds
  BY <1>16 DEF TeeEnds, scriptVars, HasMetric, Order
<1>17. CASE UNCHANGED vars
  BY <1>17 DEF vars, HasMetric, Order
<1> QED
  BY <1>1, <1>2, <1>3, <1>4, <1>5, <1>6, <1>7, <1>8, <1>9, <1>10, <1>11, <1>12, <1>13, <1>14, <1>15, <1>16, <1>17
  DEF Next, Script, Bin, Tee

LEMMA DebugCaptureStep == IInv /\ [Next]_vars => IInv'
  BY TypeOKStep, FlowStep, OrderStep DEF IInv

LEMMA DebugCaptureInv == Spec => []IInv
  BY DebugCaptureInit, DebugCaptureStep, PTL DEF Spec

-----------------------------------------------------------------------------
\* The variables keep their types and the FIFO its capacity.
THEOREM DebugCaptureTypeCorrect == Spec => []TypeOK
<1>1. IInv => TypeOK
  BY DEF IInv
<1> QED BY <1>1, DebugCaptureInv, PTL

\* A capture reported as complete comes with the verdict on all of its output,
\* and on nothing else.
THEOREM DebugCaptureMetricsReported == Spec => []MetricsReported
<1>1. IInv => MetricsReported
  <2> SUFFICES ASSUME IInv, exitCode = 0
               PROVE  log = written /\ (shown <=> HasMetric(written))
    BY DEF MetricsReported
  <2>1. tee = "ok" /\ (shown <=> HasMetric(log))
    BY DEF IInv, Order
  <2>2. pipe = <<>> /\ log \o pipe = written
    BY <2>1 DEF IInv, Flow
  <2>3. log \o <<>> = log
    BY DEF IInv, TypeOK
  <2> QED BY <2>1, <2>2, <2>3
<1> QED BY <1>1, DebugCaptureInv, PTL

\* On every way out the FIFO is gone and the capture binary is no longer there
\* to look for it.
THEOREM DebugCaptureFifoRemoved == Spec => []FifoRemoved
<1>1. IInv => FifoRemoved
  BY DEF IInv, Order, FifoRemoved
<1> QED BY <1>1, DebugCaptureInv, PTL

-----------------------------------------------------------------------------
(* capture-corpus.sh.                                                      *)

\* The fingers the loop is through with, while it goes on.
Behind == 1 .. finger - 1

\* The capture files of some fingers.
OnDisk(F) == {o \in F \X (1 .. MAX_FILES) : file[o] # "absent"}

\* The two counts tell the frames with an image on disk from those without.
ImagesCounted ==
    stage = "capture" =>
        /\ success + fail = frame - 1
        /\ success = Cardinality({k \in 1 .. frame - 1 : file[<<finger, k>>] = "image"})

\* An image on disk is one of this session or of an earlier one; the frames
\* captured are those behind, and their files stay.
SessionInv ==
    /\ \A o \in captured : file[o] = "image"
    /\ \A o \in Outfile : file[o] = "image" => o \in captured \cup left
    /\ stage = "prompt" => \A o \in captured : o[1] < finger
    /\ stage = "capture" =>
          \A o \in captured : o[1] < finger \/ (o[1] = finger /\ o[2] < frame)

\* The totals are those of the fingers behind.
TotalsInv ==
    /\ exitStatus = -1 <=> stage # "done"
    /\ multi /\ stage # "done" =>
          /\ grandSuccess = Cardinality(OnDisk(Behind))
          /\ grandSuccess + grandFail = N_FRAMES * (finger - 1)

\* In directories that were clean, an image is one of this session, and there
\* is no file yet at or after the frame at hand.
CleanInv ==
    clean =>
        /\ \A o \in Outfile : file[o] = "image" <=> o \in captured
        /\ stage = "prompt" => \A o \in Outfile : file[o] # "absent" => o[1] < finger
        /\ stage = "capture" =>
              \A o \in Outfile :
                 file[o] # "absent" => o[1] < finger \/ (o[1] = finger /\ o[2] < frame)
        /\ multi /\ exitStatus = 0 => grandSuccess = Cardinality(OnDisk(Fingers))

CorpusInv == CorpusTypeOK /\ ImagesCounted /\ SessionInv /\ TotalsInv /\ CleanInv

-----------------------------------------------------------------------------
\* The files of the fingers are finitely many.
LEMMA OnDiskFinite ==
    ASSUME CorpusTypeOK, NEW F, F \subseteq Fingers
    PROVE  /\ OnDisk(F) \subseteq Outfile
           /\ IsFiniteSet(OnDisk(F))
           /\ Cardinality(OnDisk(F)) \in Nat
<1>1. OnDisk(F) \subseteq Outfile
  BY DEF OnDisk, Outfile
<1>2. IsFiniteSet(Fingers) /\ IsFiniteSet(1 .. MAX_FILES)
  BY FS_Interval, CaptureCorpusAssumption DEF CaptureCorpusAssumption, Fingers
<1>3. IsFiniteSet(Outfile)
  BY <1>2, FS_Product DEF Outfile
<1>4. IsFiniteSet(OnDisk(F))
  BY <1>1, <1>3, FS_Subset
<1> QED BY <1>1, <1>4, FS_CardinalityType

\* find ... | wc -l counts the files of one finger (capture-corpus.sh:144).
LEMMA FilesOfCounts ==
    ASSUME CorpusTypeOK, NEW f \in Fingers
    PROVE  /\ FilesOf(f) \in Nat
           /\ FilesOf(f) = Cardinality(OnDisk({f}))
<1> DEFINE K == {k \in 1 .. MAX_FILES : file[<<f, k>>] # "absent"}
<1> DEFINE b == [k \in K |-> <<f, k>>]
<1>1. IsFiniteSet(K)
  <2>1. IsFiniteSet(1 .. MAX_FILES)
    BY FS_Interval, CaptureCorpusAssumption DEF CaptureCorpusAssumption
  <2> QED BY <2>1, FS_Subset
<1>2. b \in Bijection(K, OnDisk({f}))
  <2>1. b \in [K -> OnDisk({f})]
    BY DEF OnDisk
  <2>2. \A x, y \in K : b[x] = b[y] => x = y
    OBVIOUS
  <2>3. \A o \in OnDisk({f}) : \E k \in K : b[k] = o
    BY DEF OnDisk
  <2> HIDE DEF b, K
  <2>4. b \in Injection(K, OnDisk({f}))
    BY <2>1, <2>2, Fun_IsInj
  <2>5. b \in Surjection(K, OnDisk({f}))
    BY <2>1, <2>3, Fun_IsSurj
  <2> QED BY <2>4, <2>5 DEF Bijection
<1>3. ExistsBijection(K, OnDisk({f}))
  BY <1>2 DEF ExistsBijection
<1>4. Cardinality(OnDisk({f})) = Cardinality(K) /\ Cardinality(K) \in Nat
  BY <1>1, <1>3, FS_Bijection, FS_CardinalityType
<1> QED BY <1>4 DEF FilesOf

\* Passing a finger adds its files to those behind (EndFinger).
LEMMA BehindGrows ==
    ASSUME CorpusTypeOK
    PROVE  /\ Cardinality(OnDisk(Behind)) \in Nat
           /\ Cardinality(OnDisk(1 .. finger)) = Cardinality(OnDisk(Behind)) + FilesOf(finger)
<1>1. finger \in Fingers /\ finger \in Nat /\ TOTAL_FINGERS \in Nat
  BY CaptureCorpusAssumption DEF CorpusTypeOK, CaptureCorpusAssumption, Fingers
<1>2. Behind \subseteq Fingers /\ {finger} \subseteq Fingers
  BY <1>1 DEF Behind, Fingers
<1>3. /\ IsFiniteSet(OnDisk(Behind)) /\ Cardinality(OnDisk(Behind)) \in Nat
      /\ IsFiniteSet(OnDisk({finger})) /\ Cardinality(OnDisk({finger})) \in Nat
  BY <1>2, OnDiskFinite
<1>4. OnDisk(1 .. finger) = OnDisk(Behind) \cup OnDisk({finger})
  <2>1. 1 .. finger = Behind \cup {finger}
    BY <1>1 DEF Behind, Fingers
  <2> QED BY <2>1 DEF OnDisk
<1>5. OnDisk(Behind) \cap OnDisk({finger}) = {}
  BY <1>1 DEF OnDisk, Behind
<1>6. Cardinality(OnDisk(Behind) \cup OnDisk({finger}))
        = Cardinality(OnDisk(Behind)) + Cardinality(OnDisk({finger})) - Cardinality({})
  BY <1>3, <1>5, FS_Union
<1>7. Cardinality({}) = 0
  BY FS_EmptySet
<1>8. FilesOf(finger) = Cardinality(OnDisk({finger}))
  BY <1>1, FilesOfCounts
<1>9. Cardinality(OnDisk(1 .. finger))
        = Cardinality(OnDisk(Behind)) + Cardinality(OnDisk({finger})) - 0
  BY <1>4, <1>6, <1>7
<1> QED BY <1>3, <1>8, <1>9

\* Nothing of the capture files changed.
LEMMA SameDisk ==
    ASSUME file' = file, NEW F
    PROVE  OnDisk(F)' = OnDisk(F)
  BY DEF OnDisk

-----------------------------------------------------------------------------
LEMMA CorpusInitInv == CorpusInit => CorpusInv
<1> SUFFICES ASSUME CorpusInit PROVE CorpusInv
  OBVIOUS
<1> USE CaptureCorpusAssumption DEF CaptureCorpusAssumption
<1>1. CorpusTypeOK
  BY DEF CorpusInit, CorpusTypeOK, Fingers
<1>2. ImagesCounted
  <2>1. {k \in 1 .. frame - 1 : file[<<finger, k>>] = "image"} = {}
    BY DEF CorpusInit
  <2>2. Cardinality({}) = 0
    BY FS_EmptySet
  <2> QED BY <2>1, <2>2 DEF CorpusInit, ImagesCounted
<1>3. TotalsInv
  <2>1. OnDisk(Behind) = {}
    BY DEF CorpusInit, OnDisk, Behind
  <2>2. Cardinality({}) = 0
    BY FS_EmptySet
  <2> QED BY <2>1, <2>2 DEF CorpusInit, TotalsInv
<1>4. CleanInv
  <2> SUFFICES ASSUME clean PROVE CleanInv
    BY DEF CleanInv
  <2>1. \A o \in Outfile : file[o] = "absent"
    BY DEF CorpusInit
  <2>2. captured = {} /\ exitStatus # 0
    BY DEF CorpusInit
  <2> QED BY <2>1, <2>2 DEF CleanInv
<1>5. SessionInv
  BY DEF CorpusInit, SessionInv
<1> QED BY <1>1, <1>2, <1>3, <1>4, <1>5 DEF CorpusInv

\* The file of the frame at hand is written or not; no other file changes.
LEMMA CaptureWrites ==
    ASSUME CorpusTypeOK, NEW outcome \in {"untouched", "empty", "image"}, Capture(outcome)
    PROVE  /\ <<finger, frame>> \in Outfile
           /\ file' \in [Outfile -> Content]
           /\ \A o \in Outfile : o # <<finger, frame>> => file'[o] = file[o]
           /\ file'[<<finger, frame>>] =
                 IF outcome = "untouched" THEN file[<<finger, frame>>] ELSE outcome
           /\ captured' \subseteq Outfile
           /\ Judged(outcome) <=> file'[<<finger, frame>>] = "image"
           /\ OnDisk(Behind)' = OnDisk(Behind)
<1>1. <<finger, frame>> \in Outfile
  BY CaptureCorpusAssumption DEF Capture, CorpusTypeOK, CaptureCorpusAssumption, Outfile, Fingers
<1>2. /\ file' \in [Outfile -> Content]
      /\ \A o \in Outfile : o # <<finger, frame>> => file'[o] = file[o]
      /\ file'[<<finger, frame>>] =
            IF outcome = "untouched" THEN file[<<finger, frame>>] ELSE outcome
  BY <1>1 DEF Capture, Written, CorpusTypeOK, Content
<1>3. captured' \subseteq Outfile
  BY <1>1 DEF Capture, CorpusTypeOK
<1>4. Judged(outcome) <=> file'[<<finger, frame>>] = "image"
  BY DEF Judged, Capture
<1>5. OnDisk(Behind)' = OnDisk(Behind)
  <2>1. finger' = finger /\ finger \in Int
    BY DEF Capture, CorpusTypeOK, Fingers
  <2>2. \A o \in Behind \X (1 .. MAX_FILES) : file'[o] = file[o]
    <3> SUFFICES ASSUME NEW o \in Behind \X (1 .. MAX_FILES)
                 PROVE  file'[o] = file[o]
      OBVIOUS
    <3> PICK f \in Behind, k \in 1 .. MAX_FILES : o = <<f, k>>
      OBVIOUS
    <3>1. f \in Fingers /\ f # finger
      BY <2>1, CaptureCorpusAssumption
      DEF Behind, CorpusTypeOK, Fingers, CaptureCorpusAssumption
    <3>2. o \in Outfile /\ o # <<finger, frame>>
      BY <3>1 DEF Outfile
    <3> QED BY <1>2, <3>2
  <2> QED BY <2>1, <2>2 DEF OnDisk, Behind
<1> QED BY <1>1, <1>2, <1>3, <1>4, <1>5

\* The images among the frames passed so far are finitely many, and the frame
\* at hand adds itself if it is one.
LEMMA FrameCounted ==
    ASSUME CorpusTypeOK, NEW outcome \in {"untouched", "empty", "image"}, Capture(outcome)
    PROVE  /\ Cardinality({k \in 1 .. frame - 1 : file[<<finger, k>>] = "image"}) \in Nat
           /\ Cardinality({k \in 1 .. frame : file'[<<finger, k>>] = "image"})
                = Cardinality({k \in 1 .. frame - 1 : file[<<finger, k>>] = "image"})
                    + (IF Judged(outcome) THEN 1 ELSE 0)
<1> DEFINE B == {k \in 1 .. frame - 1 : file[<<finger, k>>] = "image"}
<1> DEFINE N == {k \in 1 .. frame : file'[<<finger, k>>] = "image"}
<1>1. frame \in Nat /\ frame >= 1 /\ frame <= MAX_FILES
  BY CaptureCorpusAssumption DEF Capture, CorpusTypeOK, CaptureCorpusAssumption
<1>2. IsFiniteSet(B)
  <2>1. IsFiniteSet(1 .. frame - 1)
    BY <1>1, FS_Interval
  <2> QED BY <2>1, FS_Subset
<1>3. \A k \in 1 .. frame - 1 : file'[<<finger, k>>] = file[<<finger, k>>]
  <2> SUFFICES ASSUME NEW k \in 1 .. frame - 1
               PROVE  file'[<<finger, k>>] = file[<<finger, k>>]
    OBVIOUS
  <2>1. <<finger, k>> \in Outfile /\ k # frame
    BY <1>1, CaptureCorpusAssumption DEF CorpusTypeOK, Outfile, CaptureCorpusAssumption
  <2>2. <<finger, k>> # <<finger, frame>>
    BY <2>1
  <2> QED BY <2>1, <2>2, CaptureWrites
<1>4. frame \notin B
  BY <1>1
<1>5. Judged(outcome) <=> file'[<<finger, frame>>] = "image"
  BY CaptureWrites
<1>6. N = IF Judged(outcome) THEN B \cup {frame} ELSE B
  <2>1. \A k : k \in 1 .. frame <=> k \in 1 .. frame - 1 \/ k = frame
    BY <1>1
  <2> QED BY <1>3, <1>5, <2>1
<1> HIDE DEF B, N
<1>7. Cardinality(B) \in Nat
  BY <1>2, FS_CardinalityType
<1>8. Cardinality(B \cup {frame}) = Cardinality(B) + 1
  BY <1>2, <1>4, FS_AddElement
<1>9. Cardinality(N) = Cardinality(B) + (IF Judged(outcome) THEN 1 ELSE 0)
  BY <1>6, <1>7, <1>8
<1> QED BY <1>7, <1>9 DEF B, N

\* What one run of img-capture does to the files of clean directories.
LEMMA CaptureClean ==
    ASSUME CorpusTypeOK, CleanInv, clean,
           NEW outcome \in {"untouched", "empty", "image"}, Capture(outcome)
    PROVE  /\ \A o \in Outfile : file'[o] = "image" <=> o \in captured'
           /\ \A o \in Outfile :
                 file'[o] # "absent" => o[1] < finger \/ (o[1] = finger /\ o[2] < frame + 1)
<1>1. /\ \A o \in Outfile : file[o] = "image" <=> o \in captured
      /\ \A o \in Outfile :
            file[o] # "absent" => o[1] < finger \/ (o[1] = finger /\ o[2] < frame)
  BY DEF CleanInv, Capture
<1>2. finger \in Int /\ frame \in Int
  BY CaptureCorpusAssumption DEF CorpusTypeOK, Fingers, CaptureCorpusAssumption
<1>3. <<finger, frame>> \in Outfile
  BY CaptureWrites
<1>4. file[<<finger, frame>>] = "absent" /\ <<finger, frame>> \notin captured
  BY <1>1, <1>2, <1>3
<1>5. /\ \A o \in Outfile : o # <<finger, frame>> => file'[o] = file[o]
      /\ file'[<<finger, frame>>] =
            IF outcome = "untouched" THEN file[<<finger, frame>>] ELSE outcome
  BY CaptureWrites
<1>6. captured' = IF outcome = "image" THEN captured \cup {<<finger, frame>>} ELSE captured
  BY DEF Capture
<1>7. ASSUME NEW o \in Outfile
      PROVE  /\ file'[o] = "image" <=> o \in captured'
             /\ file'[o] # "absent" => o[1] < finger \/ (o[1] = finger /\ o[2] < frame + 1)
  <2>1. o[1] \in Int /\ o[2] \in Int
    BY <1>7 DEF Outfile, Fingers
  <2>2. CASE o = <<finger, frame>>
    <3>1. file'[o] = "image" <=> o \in captured'
      BY <1>4, <1>5, <1>6, <2>2
    <3>2. o[1] = finger /\ o[2] < frame + 1
      BY <1>2, <2>2
    <3> QED BY <3>1, <3>2
  <2>3. CASE o # <<finger, frame>>
    <3>1. file'[o] = file[o]
      BY <1>5, <2>3, <1>7
    <3>2. o \in captured' <=> o \in captured
      BY <1>6, <2>3
    <3>3. file'[o] = "image" <=> o \in captured'
      BY <1>1, <1>7, <3>1, <3>2
    <3>4. file'[o] # "absent" => o[1] < finger \/ (o[1] = finger /\ o[2] < frame + 1)
      BY <1>1, <1>7, <1>2, <2>1, <3>1
    <3> QED BY <3>3, <3>4
  <2> QED BY <2>2, <2>3
<1> QED BY <1>7

\* A run of img-capture on the frame at hand adds at most that frame.
LEMMA CaptureSession ==
    ASSUME CorpusTypeOK, SessionInv,
           NEW outcome \in {"untouched", "empty", "image"}, Capture(outcome)
    PROVE  /\ \A o \in captured' : file'[o] = "image"
           /\ \A o \in Outfile : file'[o] = "image" => o \in captured' \cup left
           /\ \A o \in captured' :
                 o[1] < finger \/ (o[1] = finger /\ o[2] < frame + 1)
<1>1. /\ \A o \in captured : file[o] = "image"
      /\ \A o \in Outfile : file[o] = "image" => o \in captured \cup left
      /\ \A o \in captured : o[1] < finger \/ (o[1] = finger /\ o[2] < frame)
  BY DEF SessionInv, Capture
<1>2. finger \in Int /\ frame \in Int
  BY CaptureCorpusAssumption DEF CorpusTypeOK, Fingers, CaptureCorpusAssumption
<1>3. <<finger, frame>> \notin captured
  BY <1>1, <1>2
<1>4. /\ <<finger, frame>> \in Outfile
      /\ \A o \in Outfile : o # <<finger, frame>> => file'[o] = file[o]
      /\ file'[<<finger, frame>>] =
            IF outcome = "untouched" THEN file[<<finger, frame>>] ELSE outcome
      /\ captured \subseteq Outfile
  BY CaptureWrites DEF CorpusTypeOK
<1>5. captured' = IF outcome = "image" THEN captured \cup {<<finger, frame>>} ELSE captured
  BY DEF Capture
<1>6. ASSUME NEW o \in captured'
      PROVE  /\ file'[o] = "image"
             /\ o[1] < finger \/ (o[1] = finger /\ o[2] < frame + 1)
  <2>1. CASE o \in captured
    <3>1. o \in Outfile /\ o # <<finger, frame>> /\ file'[o] = "image"
      BY <1>1, <1>3, <1>4, <2>1
    <3>2. o[1] \in Int /\ o[2] \in Int
      BY <3>1 DEF Outfile, Fingers
    <3> QED BY <1>1, <1>2, <2>1, <3>1, <3>2
  <2>2. CASE o = <<finger, frame>> /\ outcome = "image"
    BY <1>2, <1>4, <2>2
  <2> QED BY <1>5, <1>6, <2>1, <2>2
<1>7. ASSUME NEW o \in Outfile, file'[o] = "image" PROVE o \in captured' \cup left
  <2>1. CASE o # <<finger, frame>>
    BY <1>1, <1>4, <1>5, <1>7, <2>1
  <2>2. CASE o = <<finger, frame>>
    BY <1>1, <1>4, <1>5, <1>7, <2>2
  <2> QED BY <2>1, <2>2
<1> QED BY <1>6, <1>7

-----------------------------------------------------------------------------
\* The prompt: a finger starts with its counts at zero, or the user stops.
LEMMA ReadyStep == CorpusInv /\ Ready => CorpusInv'
<1> SUFFICES ASSUME CorpusInv, Ready PROVE CorpusInv'
  OBVIOUS
<1> USE DEF CorpusInv
<1>1. CorpusTypeOK'
  BY CaptureCorpusAssumption DEF Ready, totals, CorpusTypeOK, CaptureCorpusAssumption
<1>2. ImagesCounted'
  <2>1. {k \in 1 .. frame' - 1 : file'[<<finger', k>>] = "image"} = {}
    BY DEF Ready
  <2>2. Cardinality({}) = 0
    BY FS_EmptySet
  <2> QED BY <2>1, <2>2 DEF Ready, ImagesCounted
<1>3. TotalsInv'
  BY DEF Ready, totals, TotalsInv, OnDisk, Behind
<1>4. CleanInv'
  <2>1. exitStatus = -1
    BY DEF Ready, TotalsInv
  <2> QED BY <2>1 DEF Ready, totals, CleanInv
<1>5. SessionInv'
  BY DEF Ready, SessionInv
<1> QED BY <1>1, <1>2, <1>3, <1>4, <1>5

LEMMA StopStep ==
    ASSUME CorpusInv, NEW status \in {0, 1}, Stop(status) PROVE CorpusInv'
<1> USE DEF CorpusInv
<1>1. CorpusTypeOK'
  BY DEF Stop, totals, CorpusTypeOK
<1>2. ImagesCounted'
  BY DEF Stop, ImagesCounted
<1>3. TotalsInv'
  BY DEF Stop, totals, TotalsInv
<1>4. CleanInv'
  <2> SUFFICES ASSUME clean' PROVE CleanInv'
    BY DEF CleanInv
  <2>1. UNCHANGED <<multi, finger, file, grandSuccess, captured, clean>> /\ stage' = "done"
    BY DEF Stop, totals
  <2>2. \A o \in Outfile : file[o] # "absent" => o[1] < finger
    BY <2>1 DEF CleanInv, Stop
  <2>3. finger \in Int /\ finger \in Fingers
    BY DEF CorpusTypeOK, Fingers
  <2>4. OnDisk(Fingers) = OnDisk(Behind)
    <3>1. OnDisk(Behind) \subseteq OnDisk(Fingers)
      BY <2>3, CaptureCorpusAssumption DEF OnDisk, Behind, Fingers, CaptureCorpusAssumption
    <3>2. OnDisk(Fingers) \subseteq OnDisk(Behind)
      <4> SUFFICES ASSUME NEW o \in OnDisk(Fingers) PROVE o \in OnDisk(Behind)
        OBVIOUS
      <4>1. o \in Outfile /\ file[o] # "absent"
        BY DEF OnDisk, Outfile
      <4> PICK f \in Fingers, k \in 1 .. MAX_FILES : o = <<f, k>>
        BY <4>1 DEF Outfile
      <4>2. f < finger
        BY <2>2, <4>1
      <4>3. f \in Behind
        BY <2>3, <4>2 DEF Behind, Fingers
      <4> QED BY <4>1, <4>3 DEF OnDisk
    <3> QED BY <3>1, <3>2
  <2>5. multi => grandSuccess = Cardinality(OnDisk(Behind))
    BY DEF TotalsInv, Stop
  <2>6. OnDisk(Fingers)' = OnDisk(Fingers)
    BY <2>1 DEF OnDisk
  <2>7. \A o \in Outfile : file'[o] = "image" <=> o \in captured'
    BY <2>1 DEF CleanInv
  <2> QED BY <2>1, <2>4, <2>5, <2>6, <2>7 DEF CleanInv
<1>5. SessionInv'
  BY DEF Stop, SessionInv
<1> QED BY <1>1, <1>2, <1>3, <1>4, <1>5

\* The three outcomes of a capture.
LEMMA CaptureStep ==
    ASSUME CorpusInv, NEW outcome \in {"untouched", "empty", "image"},
           Captured(outcome) \/ CapturedWithoutKeypoints(outcome) \/ Failed(outcome)
    PROVE  CorpusInv'
<1> USE DEF CorpusInv
<1>1. /\ Capture(outcome)
      /\ UNCHANGED <<multi, finger, grandSuccess, grandFail, clean, left>>
      /\ stage = "capture" /\ frame <= N_FRAMES
  BY DEF Captured, CapturedWithoutKeypoints, Failed, Capture, totals
<1>2. /\ success + fail = frame - 1
      /\ success = Cardinality({k \in 1 .. frame - 1 : file[<<finger, k>>] = "image"})
  BY <1>1 DEF ImagesCounted
<1>3. success \in Nat /\ fail \in Nat /\ frame \in Nat /\ N_FRAMES \in Nat
  BY CaptureCorpusAssumption DEF CorpusTypeOK, CaptureCorpusAssumption
<1>4. /\ file' \in [Outfile -> Content]
      /\ captured' \subseteq Outfile
      /\ OnDisk(Behind)' = OnDisk(Behind)
  BY <1>1, CaptureWrites
<1>5. exitStatus = -1
  BY <1>1 DEF TotalsInv
<1>6. \/ stage' = "capture" /\ exitStatus' = exitStatus /\ frame' = frame + 1
      \/ stage' = "done" /\ exitStatus' = 1
  BY <1>1 DEF Captured, CapturedWithoutKeypoints, Failed
<1>7. CorpusTypeOK'
  <2>1. success' \in 0 .. N_FRAMES /\ fail' \in 0 .. N_FRAMES /\ frame' \in 1 .. N_FRAMES + 1
    <3>1. CASE Captured(outcome)
      BY <1>1, <1>2, <1>3, <3>1 DEF Captured, CorpusTypeOK
    <3>2. CASE CapturedWithoutKeypoints(outcome)
      BY <3>2 DEF CapturedWithoutKeypoints, CorpusTypeOK
    <3>3. CASE Failed(outcome)
      BY <1>1, <1>2, <1>3, <3>3 DEF Failed, CorpusTypeOK
    <3> QED BY <3>1, <3>2, <3>3
  <2>2. stage' \in {"prompt", "capture", "done"} /\ exitStatus' \in {-1, 0, 1}
    BY <1>5, <1>6
  <2> QED BY <1>1, <1>4, <2>1, <2>2 DEF CorpusTypeOK
<1>8. ImagesCounted'
  <2> SUFFICES ASSUME stage' = "capture"
               PROVE  /\ success' + fail' = frame' - 1
                      /\ success' = Cardinality({k \in 1 .. frame' - 1 :
                                                    file'[<<finger', k>>] = "image"})
    BY DEF ImagesCounted
  <2>1. success' = success + (IF Judged(outcome) THEN 1 ELSE 0)
    BY <1>3 DEF Captured, CapturedWithoutKeypoints, Failed
  <2>2. success' + fail' = success + fail + 1 /\ frame' = frame + 1
    BY <1>3 DEF Captured, CapturedWithoutKeypoints, Failed
  <2>3. frame' - 1 = frame /\ finger' = finger
    BY <1>1, <1>3, <2>2
  <2>4. Cardinality({k \in 1 .. frame : file'[<<finger, k>>] = "image"})
           = success + (IF Judged(outcome) THEN 1 ELSE 0)
    BY <1>1, <1>2, FrameCounted
  <2>5. success' = Cardinality({k \in 1 .. frame' - 1 : file'[<<finger', k>>] = "image"})
    BY <2>1, <2>3, <2>4
  <2>6. success' + fail' = frame' - 1
    BY <1>2, <1>3, <2>2
  <2> QED BY <2>5, <2>6
<1>9. TotalsInv'
  BY <1>1, <1>4, <1>5, <1>6 DEF TotalsInv
<1>10. CleanInv'
  <2> SUFFICES ASSUME clean PROVE CleanInv'
    BY <1>1 DEF CleanInv
  <2>1. /\ \A o \in Outfile : file'[o] = "image" <=> o \in captured'
        /\ \A o \in Outfile :
              file'[o] # "absent" => o[1] < finger \/ (o[1] = finger /\ o[2] < frame + 1)
    BY <1>1, CaptureClean
  <2>2. exitStatus' # 0
    BY <1>5, <1>6
  <2> QED BY <1>1, <1>6, <2>1, <2>2 DEF CleanInv
<1>11. SessionInv'
  BY <1>1, <1>6, CaptureSession DEF SessionInv
<1> QED BY <1>7, <1>8, <1>9, <1>10, <1>11

LEMMA SingleEndStep == CorpusInv /\ SingleEnd => CorpusInv'
<1> SUFFICES ASSUME CorpusInv, SingleEnd PROVE CorpusInv'
  OBVIOUS
<1> USE DEF CorpusInv
<1>1. CorpusTypeOK'
  BY DEF SingleEnd, totals, CorpusTypeOK
<1>2. ImagesCounted'
  BY DEF SingleEnd, ImagesCounted
<1>3. TotalsInv'
  BY DEF SingleEnd, totals, TotalsInv
<1>4. CleanInv'
  BY DEF SingleEnd, totals, CleanInv
<1>5. SessionInv'
  BY DEF SingleEnd, SessionInv
<1> QED BY <1>1, <1>2, <1>3, <1>4, <1>5

\* The files of the finger are added to the totals.
LEMMA EndFingerStep == CorpusInv /\ EndFinger => CorpusInv'
<1> SUFFICES ASSUME CorpusInv, EndFinger PROVE CorpusInv'
  OBVIOUS
<1> USE DEF CorpusInv
<1>1. /\ stage = "capture" /\ multi /\ exitStatus = -1
      /\ UNCHANGED <<multi, frame, file, success, fail, clean, left, captured>>
      /\ \/ finger < TOTAL_FINGERS /\ finger' = finger + 1 /\ stage' = "prompt" /\ exitStatus' = -1
         \/ finger = TOTAL_FINGERS /\ stage' = "done" /\ exitStatus' = 0 /\ finger' = finger
  BY DEF EndFinger, TotalsInv
<1>2. /\ finger \in Nat /\ finger \in Fingers /\ TOTAL_FINGERS \in Nat /\ N_FRAMES \in Nat
      /\ finger >= 1 /\ finger <= TOTAL_FINGERS
  BY CaptureCorpusAssumption DEF CorpusTypeOK, Fingers, CaptureCorpusAssumption
<1>3. FilesOf(finger) \in Nat
  BY <1>2, FilesOfCounts
<1>4. /\ grandSuccess = Cardinality(OnDisk(Behind))
      /\ grandSuccess + grandFail = N_FRAMES * (finger - 1)
      /\ grandSuccess \in Nat /\ grandFail \in Int
  BY <1>1 DEF TotalsInv, CorpusTypeOK
<1>5. /\ grandSuccess' = grandSuccess + FilesOf(finger)
      /\ grandFail' = grandFail + (N_FRAMES - FilesOf(finger))
  BY DEF EndFinger
<1>6. grandSuccess' = Cardinality(OnDisk(1 .. finger))
  BY <1>4, <1>5, BehindGrows
<1>7. grandSuccess' + grandFail' = N_FRAMES * finger
  <2>1. grandSuccess' + grandFail' = (grandSuccess + grandFail) + N_FRAMES
    <3>1. grandSuccess \in Int /\ grandFail \in Int
      BY <1>4
    <3> QED BY <1>2, <1>3, <1>5, <3>1
  <2>2. N_FRAMES * (finger - 1) + N_FRAMES = N_FRAMES * finger
    BY <1>2
  <2> QED BY <1>4, <2>1, <2>2
<1>8. grandSuccess' \in Nat /\ grandFail' \in Int
  BY <1>2, <1>3, <1>4, <1>5
<1>9. CorpusTypeOK'
  <2>1. finger' \in Fingers
    BY <1>1, <1>2 DEF Fingers
  <2> QED BY <1>1, <1>8, <2>1 DEF CorpusTypeOK
<1>10. ImagesCounted'
  BY <1>1 DEF ImagesCounted
<1>11. TotalsInv'
  <2>1. CASE finger < TOTAL_FINGERS
    <3>1. finger' = finger + 1 /\ stage' = "prompt" /\ exitStatus' = -1
      BY <1>1, <1>2, <2>1
    <3>2. finger' - 1 = finger
      BY <1>2, <3>1
    <3>3. OnDisk(Behind)' = OnDisk(1 .. finger)
      BY <1>1, <3>2 DEF OnDisk, Behind
    <3> QED BY <1>6, <1>7, <3>1, <3>2, <3>3 DEF TotalsInv
  <2>2. CASE finger = TOTAL_FINGERS
    BY <1>1, <1>2, <2>2 DEF TotalsInv
  <2> QED BY <1>2, <2>1, <2>2
<1>12. CleanInv'
  <2> SUFFICES ASSUME clean PROVE CleanInv'
    BY <1>1 DEF CleanInv
  <2>1. /\ \A o \in Outfile : file[o] = "image" <=> o \in captured
        /\ \A o \in Outfile :
              file[o] # "absent" => o[1] < finger \/ (o[1] = finger /\ o[2] < frame)
    BY <1>1 DEF CleanInv
  <2>2. CASE finger < TOTAL_FINGERS
    <3>1. finger' = finger + 1 /\ stage' = "prompt" /\ exitStatus' # 0
      BY <1>1, <1>2, <2>2
    <3>2. ASSUME NEW o \in Outfile, file'[o] # "absent" PROVE o[1] < finger'
      <4>1. o[1] \in Int
        BY DEF Outfile, Fingers
      <4>2. o[1] < finger \/ o[1] = finger
        BY <1>1, <2>1, <3>2
      <4> QED BY <1>2, <3>1, <4>1, <4>2
    <3> QED BY <1>1, <2>1, <3>1, <3>2 DEF CleanInv
  <2>3. CASE finger = TOTAL_FINGERS
    <3>1. stage' = "done"
      BY <1>1, <1>2, <2>3
    <3>2. OnDisk(Fingers)' = OnDisk(1 .. finger)
      BY <1>1, <2>3 DEF OnDisk, Fingers
    <3> QED BY <1>1, <1>6, <2>1, <3>1, <3>2 DEF CleanInv
  <2> QED BY <1>2, <2>2, <2>3
<1>13. SessionInv'
  <2>1. \A o \in captured : o[1] < finger \/ o[1] = finger
    BY <1>1 DEF SessionInv
  <2>2. \A o \in captured : o[1] \in Int
    BY DEF CorpusTypeOK, Outfile, Fingers
  <2>3. stage' = "prompt" => \A o \in captured : o[1] < finger'
    BY <1>1, <1>2, <2>1, <2>2
  <2> QED BY <1>1, <2>3 DEF SessionInv
<1> QED BY <1>9, <1>10, <1>11, <1>12, <1>13

LEMMA CorpusStep == CorpusInv /\ [CorpusNext]_corpusVars => CorpusInv'
<1> SUFFICES ASSUME CorpusInv, [CorpusNext]_corpusVars PROVE CorpusInv'
  OBVIOUS
<1>1. CASE Ready
  BY <1>1, ReadyStep
<1>2. CASE \E status \in {0, 1} : Stop(status)
  BY <1>2, StopStep
<1>3. CASE \E outcome \in {"untouched", "empty", "image"} :
              Captured(outcome) \/ CapturedWithoutKeypoints(outcome) \/ Failed(outcome)
  BY <1>3, CaptureStep
<1>4. CASE SingleEnd
  BY <1>4, SingleEndStep
<1>5. CASE EndFinger
  BY <1>5, EndFingerStep
<1>6. CASE UNCHANGED corpusVars
  <2> USE <1>6 DEF corpusVars
  <2>1. CorpusTypeOK' /\ ImagesCounted'
    BY DEF CorpusInv, CorpusTypeOK, ImagesCounted
  <2>4. SessionInv'
    BY DEF CorpusInv, SessionInv
  <2>2. TotalsInv'
    BY DEF CorpusInv, TotalsInv, OnDisk, Behind
  <2>3. CleanInv'
    BY DEF CorpusInv, CleanInv, OnDisk
  <2> QED BY <2>1, <2>2, <2>3, <2>4 DEF CorpusInv
<1> QED BY <1>1, <1>2, <1>3, <1>4, <1>5, <1>6 DEF CorpusNext

LEMMA CorpusAlways == CorpusSpec => []CorpusInv
  BY CorpusInitInv, CorpusStep, PTL DEF CorpusSpec

-----------------------------------------------------------------------------
\* The counts of a finger stay within the frames asked for.
THEOREM CorpusTypeCorrect == CorpusSpec => []CorpusTypeOK
<1>1. CorpusInv => CorpusTypeOK
  BY DEF CorpusInv
<1> QED BY <1>1, CorpusAlways, PTL

\* The counts of capture_finger tell the frames captured, and those with an image
\* of an earlier session, from the others.
THEOREM CorpusCapturesAccounted == CorpusSpec => []CapturesAccounted
<1>1. CorpusInv => CapturesAccounted
  <2> SUFFICES ASSUME CorpusInv, stage = "capture"
               PROVE  /\ success + fail = frame - 1
                      /\ success = Cardinality(Produced) + Cardinality(Mistaken)
    BY DEF CapturesAccounted
  <2> DEFINE B == {k \in 1 .. frame - 1 : file[<<finger, k>>] = "image"}
  <2>1. success + fail = frame - 1 /\ success = Cardinality(B)
    BY DEF CorpusInv, ImagesCounted
  <2>2. frame \in Nat /\ frame - 1 <= MAX_FILES /\ finger \in Fingers
    BY CaptureCorpusAssumption DEF CorpusInv, CorpusTypeOK, CaptureCorpusAssumption
  <2>3. \A k \in 1 .. frame - 1 : <<finger, k>> \in Outfile
    BY <2>2, CaptureCorpusAssumption DEF Outfile, CaptureCorpusAssumption
  <2>4. B = Produced \cup Mistaken
    BY <2>3 DEF Produced, Mistaken, CorpusInv, SessionInv
  <2>5. Produced \cap Mistaken = {}
    BY DEF Produced, Mistaken
  <2>6. IsFiniteSet(Produced) /\ IsFiniteSet(Mistaken)
    <3>1. IsFiniteSet(1 .. frame - 1)
      BY <2>2, FS_Interval
    <3> QED BY <3>1, FS_Subset DEF Produced, Mistaken
  <2>7. Cardinality(B) = Cardinality(Produced) + Cardinality(Mistaken) - Cardinality({})
    <3>1. Cardinality(Produced \cup Mistaken)
            = Cardinality(Produced) + Cardinality(Mistaken) - Cardinality(Produced \cap Mistaken)
      BY <2>6, FS_Union
    <3> HIDE DEF B
    <3> QED BY <2>4, <2>5, <3>1
  <2>8. /\ Cardinality({}) = 0
        /\ Cardinality(Produced) \in Nat /\ Cardinality(Mistaken) \in Nat
    BY <2>6, FS_EmptySet, FS_CardinalityType
  <2> QED BY <2>1, <2>7, <2>8
<1> QED BY <1>1, CorpusAlways, PTL

\* From clean directories the grand total is what this session captured.
THEOREM CorpusCleanTotalsExact == CorpusSpec => []CleanTotalsExact
<1>1. CorpusInv => CleanTotalsExact
  <2> SUFFICES ASSUME CorpusInv, multi, clean, \A o \in Outfile : file[o] # "empty"
               PROVE  /\ stage = "prompt" \/ exitStatus = 0
                           => grandSuccess = Cardinality(captured)
                      /\ stage = "prompt" => grandSuccess + grandFail = N_FRAMES * (finger - 1)
    BY DEF CleanTotalsExact
  <2> USE DEF CorpusInv
  <2>1. \A o \in Outfile : file[o] # "absent" <=> o \in captured
    <3>1. \A o \in Outfile : file[o] \in Content
      BY DEF CorpusTypeOK
    <3> QED BY <3>1 DEF CleanInv, Content
  <2>2. captured = OnDisk(Fingers)
    BY <2>1 DEF OnDisk, Outfile, CorpusTypeOK
  <2>3. exitStatus = 0 => grandSuccess = Cardinality(captured)
    BY <2>2 DEF CleanInv
  <2>4. ASSUME stage = "prompt"
        PROVE  /\ grandSuccess = Cardinality(captured)
               /\ grandSuccess + grandFail = N_FRAMES * (finger - 1)
    <3>1. finger \in Fingers /\ finger \in Int
      BY DEF CorpusTypeOK, Fingers
    <3>2. OnDisk(Behind) \subseteq captured
      BY <2>2, <3>1, CaptureCorpusAssumption
      DEF OnDisk, Behind, Fingers, CaptureCorpusAssumption
    <3>3. captured \subseteq OnDisk(Behind)
      <4> SUFFICES ASSUME NEW o \in captured PROVE o \in OnDisk(Behind)
        OBVIOUS
      <4>1. o \in Outfile /\ file[o] # "absent"
        BY <2>1 DEF CorpusTypeOK
      <4> PICK f \in Fingers, k \in 1 .. MAX_FILES : o = <<f, k>>
        BY <4>1 DEF Outfile
      <4>2. f < finger
        BY <2>4, <4>1 DEF CleanInv
      <4>3. f \in Behind
        BY <3>1, <4>2 DEF Behind, Fingers
      <4> QED BY <4>1, <4>3 DEF OnDisk
    <3>4. /\ grandSuccess = Cardinality(OnDisk(Behind))
          /\ grandSuccess + grandFail = N_FRAMES * (finger - 1)
      BY <2>4 DEF TotalsInv
    <3> QED BY <3>2, <3>3, <3>4
  <2> QED BY <2>3, <2>4
<1> QED BY <1>1, CorpusAlways, PTL
=============================================================================
