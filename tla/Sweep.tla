-------------------------------- MODULE Sweep --------------------------------
(***************************************************************************)
(* A sweep: run_case and the main loop of sweep_amd_all.sh and of          *)
(* sweep_intel_all.sh, the guard that moves the loop count, the case file  *)
(* they read and rewrite, and the collector: for AMD with a profiler that  *)
(* the workload starts and ends by signals, for Intel with one (of several *)
(* alike) that samples from the first moment on.                           *)
(*                                                                         *)
(* A crash (the machine or the job is killed) may come at any step: files  *)
(* stay as they are, processes are gone, and the sweep is started again.   *)
(***************************************************************************)
EXTENDS Integers, SequencesExt

CONSTANTS
  Cases,      \* names of the enabled cases, in the order of the case file
  LoopCounts, \* the values of loopCount the case file may start with
  MinCount, MaxCount,  \* minLoopCount and maxLoopCount
  Grow, Shrink,        \* growFactor and shrinkFactor
  Setups,     \* [driver, maxAttempts, waitBounded], see Setup
  Crashes     \* how many crashes at most

\* maxAttempts 0 is no limit, waitBounded is AMDPROF_WAIT_TIMEOUT_SEC > 0.
Setup == [driver : {"amd", "intel"}, maxAttempts : Nat, waitBounded : BOOLEAN]

ASSUME CasesAssumption == Cases \in Seq(ToSet(Cases))
ASSUME SweepAssumption ==
  /\ Setups \subseteq Setup
  /\ MinCount \in Nat \ {0} /\ MaxCount \in Nat /\ MinCount <= MaxCount
  /\ LoopCounts \subseteq MinCount .. MaxCount
  /\ Grow \in Nat \ {0, 1} /\ Shrink \in Nat \ {0, 1}
  /\ Crashes \in Nat

VARIABLES
  setup,
  file,      \* the case file: compact (buffers and tunes are still to be expanded),
             \* expanded, or torn (emptied by an open for writing, not written yet),
             \* and the loop counts its last reader has
  dirs,      \* the output directory of each case
  pc,
  todo,      \* the cases still to run, with the loop counts read at the start
  attempt, count, seen,  \* locals of run_case: seen is loop_count_seen
  failed,    \* what the sweep exits with
  profiler,  \* AMDuProfPcm, or one of the PCM tools and nvidia-smi
  outcome,   \* how the attempt went
  crashes

vars == <<setup, file, dirs, pc, todo, attempt, count, seen, failed, profiler, outcome, crashes>>

Name == Head(todo).name
AllCases == ToSet(Cases)
Outcomes == {"good", "short", "long", "broken"}

Goto(label) == pc' = label

Init ==
  /\ setup \in Setups
  /\ file \in [state : {"compact", "expanded"}, counts : [AllCases -> LoopCounts]]
  /\ dirs = [c \in AllCases |-> "none"]
  /\ pc = "start"
  /\ todo = <<>> /\ attempt = 1 /\ count = MinCount /\ seen = <<>>
  /\ failed = FALSE
  /\ profiler = "none"
  /\ outcome = "none"
  /\ crashes = 0

-------------------------------------------------------------------------------
(***************************************************************************)
(* The driver.                                                             *)
(***************************************************************************)
\* json_expand_cases, which rewrites the file in place.
ExpandOpen ==
  /\ pc = "start" /\ file.state = "compact"
  /\ file' = [file EXCEPT !.state = "torn"]
  /\ Goto("expand")
  /\ UNCHANGED <<setup, dirs, todo, attempt, count, seen, failed, profiler, outcome, crashes>>

ExpandDump ==
  /\ pc = "expand"
  /\ file' = [file EXCEPT !.state = "expanded"]
  /\ Goto("start")
  /\ UNCHANGED <<setup, dirs, todo, attempt, count, seen, failed, profiler, outcome, crashes>>

\* json_emit_cases: from a torn file come no cases, and its error is ignored.
Emitted ==
  IF file.state = "torn" THEN <<>>
  ELSE [i \in DOMAIN Cases |-> [name |-> Cases[i], count |-> file.counts[Cases[i]]]]

Start ==
  /\ pc = "start" /\ file.state # "compact"
  /\ todo' = Emitted
  /\ failed' = FALSE
  /\ Goto("case")
  /\ UNCHANGED <<setup, file, dirs, attempt, count, seen, profiler, outcome, crashes>>

\* A case that is done is skipped, what is left of another one is removed.
\* (Mutant: a directory is enough.)
DirectoryExists == dirs[Name] # "none"
Completed == dirs[Name] = "ok"

SkipCase ==
  /\ pc = "case" /\ todo # <<>>
  /\ Completed
  /\ todo' = Tail(todo)
  /\ UNCHANGED <<setup, file, dirs, pc, attempt, count, seen, failed, profiler, outcome, crashes>>

BeginCase ==
  /\ pc = "case" /\ todo # <<>>
  /\ ~Completed
  /\ attempt' = 1 /\ count' = Head(todo).count /\ seen' = <<>>
  /\ dirs' = [dirs EXCEPT ![Name] = "partial"]
  /\ Goto("attempt")
  /\ UNCHANGED <<setup, file, todo, failed, profiler, outcome, crashes>>

FailCase ==
  /\ failed' = TRUE
  /\ todo' = Tail(todo)
  /\ Goto("case")
  /\ UNCHANGED <<attempt, count, seen>>

OutOfAttempts ==
  /\ pc = "attempt"
  /\ setup.maxAttempts > 0 /\ attempt > setup.maxAttempts
  /\ FailCase
  /\ UNCHANGED <<setup, file, dirs, profiler, outcome, crashes>>

\* The directory is emptied and the collector started, with its profiler (on
\* Intel, start_collector skips one that is not installed) and the workload.
Launch ==
  /\ pc = "attempt"
  /\ setup.maxAttempts = 0 \/ attempt <= setup.maxAttempts
  /\ dirs' = [dirs EXCEPT ![Name] = "partial"]
  /\ outcome' = "none"
  /\ IF setup.driver = "amd"
     THEN Goto("delay") /\ profiler' = "booting"
     ELSE Goto("run") /\ profiler' \in {"sampling", "none"}
  /\ UNCHANGED <<setup, file, todo, attempt, count, seen, failed, crashes>>

\* The loop count for the next attempt.  Where the guard has no advice (it is
\* at a limit already, or on Intel the workload failed) run_case grows it.
Grown == Min({MaxCount, Max({MinCount, count * Grow})})
Shrunk == Max({MinCount, Min({MaxCount, Max({1, count \div Shrink})})})
Shrinks == outcome = "long" \/ (outcome = "broken" /\ setup.driver = "amd")
NextCount == IF Shrinks /\ Shrunk # count THEN Shrunk ELSE Grown

\* The last four loop counts chosen, on AMD only.
\* (Mutant: only the last one is kept.)
RememberLast(counts, n) == <<n>>
Remember(counts, n) ==
  LET all == Append(counts, n)
  IN  IF Len(all) > 4 THEN SubSeq(all, Len(all) - 3, Len(all)) ELSE all

Accept ==
  /\ pc = "guard" /\ outcome = "good"
  /\ dirs' = [dirs EXCEPT ![Name] = "ok"]
  /\ Goto("open")
  /\ UNCHANGED <<setup, file, todo, attempt, count, seen, failed, profiler, outcome, crashes>>

GiveUp ==
  /\ pc = "guard" /\ outcome # "good"
  /\ \/ NextCount = count
     \/ setup.driver = "amd" /\ NextCount \in ToSet(seen)
  /\ FailCase
  /\ UNCHANGED <<setup, file, dirs, profiler, outcome, crashes>>

Retry ==
  /\ pc = "guard" /\ outcome # "good"
  /\ NextCount # count
  /\ setup.driver = "amd" => NextCount \notin ToSet(seen)
  /\ count' = NextCount
  /\ seen' = IF setup.driver = "amd" THEN Remember(seen, NextCount) ELSE seen
  \* (bound: attempts are counted only where they are limited)
  /\ attempt' = IF setup.maxAttempts > 0 THEN attempt + 1 ELSE attempt
  /\ Goto("attempt")
  /\ UNCHANGED <<setup, file, dirs, todo, failed, profiler, outcome, crashes>>

\* json_set_case_loop_count reads the file, opens it for writing, which
\* empties it, and writes it.
OpenFile ==
  /\ pc = "open"
  /\ file' = [file EXCEPT !.state = "torn"]
  /\ Goto("dump")
  /\ UNCHANGED <<setup, dirs, todo, attempt, count, seen, failed, profiler, outcome, crashes>>

DumpFile ==
  /\ pc = "dump"
  /\ file' = [state |-> "expanded", counts |-> [file.counts EXCEPT ![Name] = count]]
  /\ todo' = Tail(todo)
  /\ Goto("case")
  /\ UNCHANGED <<setup, dirs, attempt, count, seen, failed, profiler, outcome, crashes>>

Finish ==
  /\ pc = "case" /\ todo = <<>>
  /\ Goto("ended")
  /\ UNCHANGED <<setup, file, dirs, todo, attempt, count, seen, failed, profiler, outcome, crashes>>

Driver ==
  \/ ExpandOpen \/ ExpandDump \/ Start \/ SkipCase \/ BeginCase \/ OutOfAttempts \/ Launch
  \/ Accept \/ GiveUp \/ Retry \/ OpenFile \/ DumpFile \/ Finish

-------------------------------------------------------------------------------
(***************************************************************************)
(* The AMD collector, its workload, and the profiler: booting until it     *)
(* handles signals, armed until the start signal, then sampling; "gone"    *)
(* with a report if it has sampled.                                        *)
(***************************************************************************)
driverVars == <<setup, file, dirs, todo, attempt, count, seen, failed, crashes>>

\* (external) The profiler installs its handlers when it gets there.
Arm ==
  /\ profiler = "booting"
  /\ profiler' = "armed"
  /\ UNCHANGED <<driverVars, pc, outcome>>

\* signalAmdProfPcm: the workload sends the two markers to the process that
\* NVB_AMDPROF_SIGNAL_PID names.  The start signal kills a profiler that does
\* not handle it yet, the end signal makes it write its report; kill() to one
\* that is gone fails, which is only logged.
AfterSignal(marker) ==
  CASE marker = "start" /\ profiler = "armed"   -> "sampling"
    [] marker = "start" /\ profiler = "booting" -> "gone"
    [] marker = "end" /\ profiler = "sampling"  -> "reporting"
    [] OTHER                                    -> profiler

\* The delay ends, whether the profiler is ready or not.
StartSignal ==
  /\ pc = "delay"
  /\ profiler' = AfterSignal("start")
  /\ Goto("workload")
  /\ UNCHANGED <<driverVars, outcome>>

\* A testcase without markers, or one that fails before the start signal.
EndsUnsignalled ==
  /\ pc = "delay"
  /\ outcome' \in {"none", "broken"}
  /\ Goto("wait")
  /\ UNCHANGED <<driverVars, profiler>>

WorkloadEnds ==
  /\ pc = "workload"
  /\ profiler' = AfterSignal("end")
  /\ Goto("wait")
  /\ UNCHANGED <<driverVars, outcome>>

WorkloadFails ==
  /\ pc = "workload"
  /\ outcome' = "broken"
  /\ Goto("wait")
  /\ UNCHANGED <<driverVars, profiler>>

WritesReport ==
  /\ profiler = "reporting"
  /\ profiler' = "reported"
  /\ UNCHANGED <<driverVars, pc, outcome>>

Running == profiler \in {"booting", "armed", "sampling", "reporting"}

\* (external) A profiler may end by itself.
Dies ==
  /\ Running
  /\ profiler' = "gone"
  /\ UNCHANGED <<driverVars, pc, outcome>>

\* What the guard makes of the files.  On AMD there is no summary without a
\* report; on Intel samples are written as they come, and too few of them, or
\* none, mean a run that is too short.
Findings ==
  IF outcome # "none" THEN {outcome}
  ELSE IF setup.driver = "intel"
       THEN {"short"} \union (IF profiler = "none" THEN {} ELSE {"good"})
       ELSE IF profiler = "reported" THEN {"good", "short"} ELSE {"broken"}

Judge ==
  /\ outcome' \in Findings
  /\ Goto("guard")
  /\ UNCHANGED <<driverVars, profiler>>

\* wait_for_amdprof.
WaitEnds == pc = "wait" /\ ~Running /\ Judge

WaitTimesOut ==
  /\ pc = "wait" /\ setup.waitBounded /\ Running
  /\ Goto("int")
  /\ UNCHANGED <<driverVars, profiler, outcome>>

\* The timeout command around the collector ends the workload, and the trap of
\* the collector stops the profiler.
OuterTimeout ==
  /\ pc \in {"workload", "wait"}
  /\ outcome' = "long"
  /\ Goto("int")
  /\ UNCHANGED <<driverVars, profiler>>

\* On Intel the workload runs in the background, under timeout; the end of it,
\* one way or another, stops the profiler.
RunEnds ==
  /\ pc = "run"
  /\ outcome' \in {"none", "broken"}
  /\ Goto("int")
  /\ UNCHANGED <<driverVars, profiler>>

\* timeout exits with 124, but with 137 where it had to KILL the workload: the
\* guard takes the first for a run that is too long, the second for a failure.
RunTimesOut ==
  /\ pc = "run"
  /\ outcome' \in {"long", "broken"}
  /\ Goto("int")
  /\ UNCHANGED <<driverVars, profiler>>

\* stop_amdprof_pid and stop_collectors: INT, TERM and KILL, with a pause after
\* the first two.
\* (external) The profiler may ignore the first two; AMDuProfPcm may answer
\* them with its report.
Asked ==
  \/ UNCHANGED profiler
  \/ Running /\ profiler' = "gone"
  \/ setup.driver = "amd" /\ profiler = "sampling" /\ profiler' = "reporting"

StopInt == pc = "int" /\ Asked /\ Goto("term") /\ UNCHANGED <<driverVars, outcome>>
StopTerm == pc = "term" /\ Asked /\ Goto("kill") /\ UNCHANGED <<driverVars, outcome>>
\* (Mutant: nothing follows TERM.)
NoKill == UNCHANGED profiler
Kill == profiler' = IF Running THEN "gone" ELSE profiler
StopKill == pc = "kill" /\ Kill /\ Goto("stopped") /\ UNCHANGED <<driverVars, outcome>>

Stopped == pc = "stopped" /\ Judge

Collector ==
  \/ StartSignal \/ EndsUnsignalled
  \/ WaitEnds \/ WaitTimesOut \/ StopInt \/ StopTerm \/ StopKill \/ Stopped

Workload == WorkloadEnds \/ WorkloadFails \/ RunEnds

Timeouts == OuterTimeout \/ RunTimesOut

Profiler == Arm \/ WritesReport \/ Dies

-------------------------------------------------------------------------------
\* The job or the machine is killed, and the sweep is started again.
Crash ==
  /\ pc \notin {"ended", "crashed"}
  /\ crashes < Crashes
  /\ crashes' = crashes + 1
  /\ profiler' = "none"
  /\ Goto("crashed")
  /\ UNCHANGED <<setup, file, dirs, todo, attempt, count, seen, failed, outcome>>

Restart ==
  /\ pc = "crashed"
  /\ todo' = <<>> /\ attempt' = 1 /\ count' = MinCount /\ seen' = <<>> /\ outcome' = "none"
  /\ Goto("start")
  /\ UNCHANGED <<setup, file, dirs, failed, profiler, crashes>>

Ended == pc = "ended" /\ UNCHANGED vars

Next == Driver \/ Collector \/ Workload \/ Timeouts \/ Profiler \/ Crash \/ Restart \/ Ended

\* The scripts run on, and timeout counts wall time.  Nothing is assumed of the
\* profiler, which may never get ready, nor of the workload, which may hang.
Spec ==
  /\ Init /\ [][Next]_vars
  /\ WF_vars(Driver) /\ WF_vars(Collector) /\ WF_vars(Timeouts) /\ WF_vars(Restart)

-------------------------------------------------------------------------------
\* A sweep that exits with 0 leaves every case with an accepted result, however
\* often it was interrupted and started again: what an attempt left behind is
\* never taken for a result (run_case skips only a case.info with OK).  The one
\* exception is a sweep that starts from a torn case file.
SuccessMeansAllDone ==
  pc = "ended" /\ ~failed /\ file.state # "torn" => \A c \in AllCases : dirs[c] = "ok"

\* Where the guard takes over no profiler is left running, whoever was late:
\* the next attempt would start a second one on the same counters.
NoProfilerSurvives == pc = "guard" => ~Running

\* A sweep ends, also where attempts are not limited: the driver for AMD tells
\* by the loop counts it remembers that it goes to and fro.  (That for Intel
\* keeps none and needs the limit.)
EverySweepEnds ==
  setup.driver = "amd" \/ setup.maxAttempts > 0 ~> pc = "ended"
===============================================================================
