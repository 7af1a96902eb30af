---------------------------- MODULE DebugCapture ----------------------------
(***************************************************************************)
(* tools/scripts/debug-capture.sh: the script runs a capture binary whose  *)
(* output goes through a FIFO to a background tee, which writes the log;   *)
(* when both are done it looks for SIGFM metrics in the log.  Three        *)
(* processes: the script, the binary, tee.  Under "set -e" every command   *)
(* that fails ends the script, and the EXIT trap removes the FIFO.         *)
(***************************************************************************)
EXTENDS Integers, Sequences

CONSTANTS
    PIPE_CAP,       \* lines a FIFO holds before the writer blocks
    MAX_LINES       \* bound: lines the binary prints

ASSUME DebugCaptureAssumption == PIPE_CAP \in Nat \ {0} /\ MAX_LINES \in Nat

VARIABLES
    pc,         \* where the script is
    exitCode,   \* its exit status, -1 while running
    runnable,   \* CAPTURE_MODE is known and its binary executable
    fifo,       \* the FIFO's name exists
    pipe,       \* lines in the FIFO
    bin,        \* the binary
    tee,        \* the background tee
    logOpen,    \* tee could open the log for writing
    log,        \* the log file
    written,    \* history: what the binary printed
    shown       \* metrics were printed

vars == <<pc, exitCode, runnable, fifo, pipe, bin, tee, logOpen, log, written, shown>>

scriptVars == <<pc, exitCode, runnable, fifo, shown>>

\* A line of the log either carries a SIGFM metric or does not.
Line == {"metric", "other"}

\* The log may still be there from an earlier capture.
Init ==
    /\ pc = "start"
    /\ exitCode = -1
    /\ runnable \in BOOLEAN
    /\ fifo = FALSE
    /\ pipe = <<>>
    /\ bin = "absent"
    /\ tee = "absent"
    /\ logOpen = FALSE
    /\ log \in {<<>>, <<"metric">>}
    /\ written = <<>>
    /\ shown = FALSE

-----------------------------------------------------------------------------
(* The script.                                                             *)

\* Any exit after mkfifo runs the trap.
Exit(status) ==
    /\ pc' = "done"
    /\ exitCode' = status
    /\ fifo' = FALSE

Refuse ==
    /\ pc = "start"
    /\ ~runnable
    /\ Exit(1)
    /\ UNCHANGED <<runnable, pipe, bin, tee, logOpen, log, written, shown>>

\* Mutant: tee is started in the foreground.
BugLaunch ==
    /\ pc = "start"
    /\ runnable
    /\ pc' = "run"
    /\ fifo' = TRUE
    /\ tee' = "forked"
    /\ UNCHANGED <<exitCode, runnable, pipe, bin, logOpen, log, written, shown>>

\* mkfifo, trap, tee in the background, the binary in the foreground.
Launch ==
    /\ pc = "start"
    /\ runnable
    /\ pc' = "run"
    /\ fifo' = TRUE
    /\ tee' = "forked"
    /\ bin' = "forked"
    /\ UNCHANGED <<exitCode, runnable, pipe, logOpen, log, written, shown>>

BinFailed ==
    /\ pc = "run"
    /\ bin \in {"failed", "killed"}
    /\ Exit(1)
    /\ UNCHANGED <<runnable, pipe, bin, tee, logOpen, log, written, shown>>

\* Mutant: the script does not wait for tee.
BugBinReturned ==
    /\ pc = "run"
    /\ bin = "ok"
    /\ pc' = "parse"
    /\ UNCHANGED <<exitCode, runnable, fifo, pipe, bin, tee, logOpen, log, written, shown>>

BinReturned ==
    /\ pc = "run"
    /\ bin = "ok"
    /\ pc' = "wait"
    /\ UNCHANGED <<exitCode, runnable, fifo, pipe, bin, tee, logOpen, log, written, shown>>

\* wait returns tee's exit status, which "set -e" looks at.
Waited ==
    /\ pc = "wait"
    /\ \/ tee = "ok" /\ pc' = "parse" /\ UNCHANGED <<exitCode, fifo>>
       \/ tee = "failed" /\ Exit(1)
    /\ UNCHANGED <<runnable, pipe, bin, tee, logOpen, log, written, shown>>

\* Ctrl-C while the script waits; tee, in the background, ignores it.
Interrupt ==
    /\ pc = "wait"
    /\ Exit(130)
    /\ UNCHANGED <<runnable, pipe, bin, tee, logOpen, log, written, shown>>

HasMetric(lines) == \E k \in DOMAIN lines : lines[k] = "metric"

\* parse_metrics, called as a condition, cannot end the script.
Parse ==
    /\ pc = "parse"
    /\ shown' = HasMetric(log)
    /\ Exit(0)
    /\ UNCHANGED <<runnable, pipe, bin, tee, logOpen, log, written>>

-----------------------------------------------------------------------------
(* The binary.  Opening the FIFO waits until a reader has arrived.         *)

BinArrives ==
    /\ bin = "forked"
    /\ bin' = "opening"
    /\ UNCHANGED <<scriptVars, pipe, tee, logOpen, log, written>>

BinOpens ==
    /\ bin = "opening"
    /\ tee # "forked"
    /\ bin' = "writing"
    /\ UNCHANGED <<scriptVars, pipe, tee, logOpen, log, written>>

\* Ctrl-C before the FIFO has a reader: no writer ever opened it.
BinKilled ==
    /\ bin = "opening"
    /\ tee = "forked"
    /\ bin' = "killed"
    /\ UNCHANGED <<scriptVars, pipe, tee, logOpen, log, written>>

BinWrites(line) ==
    /\ bin = "writing"
    /\ Len(pipe) < PIPE_CAP
    /\ Len(written) < MAX_LINES
    /\ pipe' = Append(pipe, line)
    /\ written' = Append(written, line)
    /\ UNCHANGED <<scriptVars, bin, tee, logOpen, log>>

\* The capture ends, fails, or is interrupted.
BinExits ==
    /\ bin = "writing"
    /\ bin' \in {"ok", "failed"}
    /\ UNCHANGED <<scriptVars, pipe, tee, logOpen, log, written>>

-----------------------------------------------------------------------------
(* tee.                                                                    *)

TeeArrives ==
    /\ tee = "forked"
    /\ tee' = "opening"
    /\ UNCHANGED <<scriptVars, pipe, bin, logOpen, log, written>>

\* Once a writer has arrived tee opens, and so empties, the log; when it
\* cannot, it goes on copying to the terminal.
TeeOpens ==
    /\ tee = "opening"
    /\ bin \in {"opening", "writing", "ok", "failed"}
    /\ tee' = "copying"
    /\ logOpen' \in BOOLEAN
    /\ log' = IF logOpen' THEN <<>> ELSE log
    /\ UNCHANGED <<scriptVars, pipe, bin, written>>

TeeCopies ==
    /\ tee = "copying"
    /\ pipe # <<>>
    /\ pipe' = Tail(pipe)
    /\ log' = IF logOpen THEN Append(log, Head(pipe)) ELSE log
    /\ UNCHANGED <<scriptVars, bin, tee, logOpen, written>>

\* Mutant: tee stops at the first moment the FIFO is empty.
BugTeeEnds ==
    /\ tee = "copying"
    /\ pipe = <<>>
    /\ tee' = IF logOpen THEN "ok" ELSE "failed"
    /\ UNCHANGED <<scriptVars, pipe, bin, logOpen, log, written>>

\* End of file: the FIFO is empty and the writer has closed it.
TeeEnds ==
    /\ tee = "copying"
    /\ pipe = <<>>
    /\ bin \in {"ok", "failed"}
    /\ tee' = IF logOpen THEN "ok" ELSE "failed"
    /\ UNCHANGED <<scriptVars, pipe, bin, logOpen, log, written>>

-----------------------------------------------------------------------------
Script == Refuse \/ Launch \/ BinFailed \/ BinReturned \/ Waited \/ Parse

Bin == BinArrives \/ BinOpens \/ (\E line \in Line : BinWrites(line)) \/ BinExits

Tee == TeeArrives \/ TeeOpens \/ TeeCopies \/ TeeEnds

Next == Script \/ Interrupt \/ BinKilled \/ Bin \/ Tee

Spec == Init /\ [][Next]_vars

\* Each process gets its turns, and the capture ends some day, which the user
\* at the sensor has to see to.  Nobody has to press Ctrl-C.
FairSpec == Spec /\ WF_vars(Script) /\ WF_vars(Tee) /\ WF_vars(Bin)

-----------------------------------------------------------------------------
(* Properties                                                              *)

\* The processes are where they can be, and the FIFO keeps its capacity.
TypeOK ==
    /\ pc \in {"start", "run", "wait", "parse", "done"}
    /\ exitCode \in {-1, 0, 1, 130}
    /\ runnable \in BOOLEAN /\ fifo \in BOOLEAN
    /\ logOpen \in BOOLEAN /\ shown \in BOOLEAN
    /\ bin \in {"absent", "forked", "opening", "writing", "ok", "failed", "killed"}
    /\ tee \in {"absent", "forked", "opening", "copying", "ok", "failed"}
    /\ Len(pipe) <= PIPE_CAP
    /\ pipe \in Seq(Line) /\ log \in Seq(Line) /\ written \in Seq(Line)

\* debug-capture.sh reports success only with the verdict on exactly what this
\* capture printed: no line still in the FIFO is missed, and no line of an
\* earlier log is taken for one of this capture.
MetricsReported ==
    exitCode = 0 => /\ log = written
                    /\ shown <=> HasMetric(written)

\* However the script ends, the FIFO does not outlive it; no process opens it
\* any more once its name is gone.
FifoRemoved ==
    pc = "done" => /\ ~fifo
                   /\ bin \in {"absent", "ok", "failed", "killed"}

\* The script ends: opening the FIFO from both ends, filling it and waiting
\* for tee never leaves everyone waiting.
ScriptEnds == <>(pc = "done")

\* Also when a failed or interrupted capture ends the script before tee, the
\* log gets every line in the end.
LogCompletes == [](pc = "done" /\ logOpen => <>(log = written))
=============================================================================
