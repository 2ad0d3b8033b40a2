------------------------------ MODULE SweepProofs ------------------------------
(***************************************************************************)
(* What holds of Sweep for every list of cases, every loop count, both     *)
(* drivers and any number of crashes.                                      *)
(***************************************************************************)
EXTENDS Sweep, TLAPS

\* The stages of the collector in which its profiler may run.
Collecting == {"delay", "workload", "run", "wait", "int", "term", "kill"}

\* The profiler runs only under its collector.
ProfilerInv == Running => pc \in Collecting

\* The stages of run_case, in which the case at the head of the list is at work.
InCase == {"attempt", "guard", "stopped", "open", "dump"} \union Collecting

\* The sweep has read its cases.
Started == pc \in InCase \union {"case", "ended"}

FromTornFile == pc \in {"case", "ended"} /\ file.state = "torn" /\ todo = <<>>

Waits(c) == \E i \in DOMAIN todo : todo[i].name = c

Item(counts) == [name : AllCases, count : counts]

\* Every case is done or still to be run, unless the sweep has failed or found
\* the file torn; and a case whose loop count is written back is done.
DoneInv ==
  /\ dirs \in [AllCases -> {"none", "partial", "ok"}]
  /\ \E counts : todo \in Seq(Item(counts))
  /\ pc \in InCase => todo # <<>>
  /\ pc \in {"open", "dump"} => Completed
  /\ pc = "ended" => todo = <<>>
  /\ Started /\ ~failed =>
       FromTornFile \/ \A c \in AllCases : dirs[c] = "ok" \/ Waits(c)

SweepInv == ProfilerInv /\ DoneInv

-------------------------------------------------------------------------------
LEMMA InitSweepInv == Init => SweepInv
  <1> SUFFICES ASSUME Init PROVE SweepInv
    OBVIOUS
  <1>1. ProfilerInv
    BY DEF Init, ProfilerInv, Running
  <1>2. DoneInv
    BY DEF Init, DoneInv, Started, InCase, Collecting
  <1>3. QED
    BY <1>1, <1>2 DEF SweepInv

\* The profiler starts with its collector, which leaves it behind only when it
\* is not running, or killed; a crash ends it too.
LEMMA ProfilerStep == ProfilerInv /\ [Next]_vars => ProfilerInv'
  <1> SUFFICES ASSUME ProfilerInv, [Next]_vars PROVE ProfilerInv'
    OBVIOUS
  <1> USE DEF ProfilerInv, Running, Collecting, Goto, driverVars
  <1>1. CASE Driver
    <2>1. CASE Launch
      BY <2>1 DEF Launch
    <2>2. CASE ~Launch
      BY <1>1, <2>2 DEF Driver, ExpandOpen, ExpandDump, Start, SkipCase, BeginCase,
         OutOfAttempts, Accept, GiveUp, Retry, FailCase, OpenFile, DumpFile, Finish
    <2>3. QED
      BY <2>1, <2>2
  <1>2. CASE StartSignal
    BY <1>2 DEF StartSignal
  <1>3. CASE EndsUnsignalled \/ WaitEnds \/ WaitTimesOut \/ Stopped
    BY <1>3 DEF EndsUnsignalled, WaitEnds, WaitTimesOut, Stopped, Judge
  <1>4. CASE StopInt \/ StopTerm \/ StopKill
    BY <1>4 DEF StopInt, StopTerm, StopKill, Asked, Kill
  <1>5. CASE WorkloadEnds \/ WorkloadFails \/ RunEnds \/ Timeouts
    BY <1>5 DEF WorkloadEnds, WorkloadFails, RunEnds, Timeouts, OuterTimeout, RunTimesOut
  <1>6. CASE Arm \/ WritesReport \/ Dies
    BY <1>6 DEF Arm, WritesReport, Dies
  <1>7. CASE Crash \/ Restart
    BY <1>7 DEF Crash, Restart
  <1>8. CASE UNCHANGED vars
    BY <1>8 DEF vars
  <1>9. QED
    BY <1>1, <1>2, <1>3, <1>4, <1>5, <1>6, <1>7, <1>8
       DEF Next, Collector, Workload, Profiler, Ended

-------------------------------------------------------------------------------
(***************************************************************************)
(* The list of cases.                                                      *)
(***************************************************************************)
\* A step that changes neither the list nor the directories, but where it goes.
LEMMA SameCases ==
  ASSUME DoneInv, UNCHANGED <<dirs, todo>>,
         ~failed' /\ pc' \in InCase \union {"case", "ended"} =>
           /\ ~failed
           /\ pc \in InCase \union {"case"}
           /\ pc = "case" => file' = file,
         pc' \in InCase => pc \in InCase,
         pc' \in {"open", "dump"} => Completed,
         pc' = "ended" => todo = <<>>
  PROVE  DoneInv'
  <1>1. Started' /\ ~failed' =>
          FromTornFile' \/ \A c \in AllCases : dirs'[c] = "ok" \/ Waits(c)'
    <2> SUFFICES ASSUME Started', ~failed'
                 PROVE  FromTornFile' \/ \A c \in AllCases : dirs'[c] = "ok" \/ Waits(c)'
      OBVIOUS
    <2>1. Started /\ ~failed
      BY DEF Started
    <2>2. CASE FromTornFile
      BY <2>2 DEF FromTornFile, DoneInv, Started
    <2>3. CASE \A c \in AllCases : dirs[c] = "ok" \/ Waits(c)
      BY <2>3 DEF Waits
    <2>4. QED
      BY <2>1, <2>2, <2>3 DEF DoneInv
  <1>2. QED
    BY <1>1 DEF DoneInv, Completed, Name

\* The case at the head is one of the cases.
LEMMA HeadOfList ==
  ASSUME DoneInv, todo # <<>>
  PROVE  /\ Name \in AllCases /\ Waits(Name)
         /\ \E counts : Tail(todo) \in Seq(Item(counts))
         /\ \A c \in AllCases : Waits(c) /\ c # Name =>
              \E i \in DOMAIN Tail(todo) : Tail(todo)[i].name = c
  <1>1. PICK counts : todo \in Seq(Item(counts))
    BY DEF DoneInv
  <1>2. /\ Len(todo) \in Nat \ {0} /\ DOMAIN todo = 1 .. Len(todo)
        /\ Head(todo) = todo[1] /\ 1 \in DOMAIN todo
    BY <1>1
  <1>3. Head(todo) \in Item(counts)
    BY <1>1, <1>2
  <1>4. /\ Tail(todo) \in Seq(Item(counts))
        /\ DOMAIN Tail(todo) = 1 .. Len(todo) - 1
        /\ \A i \in 1 .. Len(todo) - 1 : Tail(todo)[i] = todo[i + 1]
    BY <1>1, <1>2
  <1>5. ASSUME NEW c \in AllCases, Waits(c), c # Name
        PROVE  \E i \in DOMAIN Tail(todo) : Tail(todo)[i].name = c
    <2>1. PICK i \in DOMAIN todo : todo[i].name = c
      BY <1>5 DEF Waits
    <2>2. i # 1
      BY <1>2, <1>5, <2>1 DEF Name
    <2>3. i - 1 \in 1 .. Len(todo) - 1 /\ Tail(todo)[i - 1] = todo[i]
      BY <1>2, <1>4, <2>2
    <2>4. QED
      BY <1>4, <2>1, <2>3
  <1>6. QED
    BY <1>2, <1>3, <1>4, <1>5 DEF Name, Waits, Item

\* A case that is done leaves the list.
LEMMA NextCase ==
  ASSUME DoneInv, todo # <<>>, Completed, UNCHANGED dirs, todo' = Tail(todo),
         failed' = failed, pc' = "case",
         pc \in InCase \union {"case"}
  PROVE  DoneInv'
  <1>1. ASSUME ~failed PROVE \A c \in AllCases : dirs'[c] = "ok" \/ Waits(c)'
    <2> SUFFICES ASSUME NEW c \in AllCases, dirs[c] # "ok" PROVE Waits(c)'
      OBVIOUS
    <2>1. Waits(c)
      BY <1>1 DEF DoneInv, Started, FromTornFile
    <2>2. c # Name
      BY DEF Completed
    <2>3. \E i \in DOMAIN Tail(todo) : Tail(todo)[i].name = c
      BY <2>1, <2>2, HeadOfList
    <2>4. QED
      BY <2>3 DEF Waits
  <1>2. QED
    BY <1>1, HeadOfList DEF DoneInv, InCase, Collecting

\* Work on the case at the head: its directory changes, the list does not.
LEMMA SameList ==
  ASSUME DoneInv, todo # <<>>, UNCHANGED <<todo, failed>>,
         NEW d \in {"none", "partial", "ok"}, dirs' = [dirs EXCEPT ![Name] = d],
         pc \in InCase \union {"case"}, pc' \in InCase,
         pc' \in {"open", "dump"} => d = "ok"
  PROVE  DoneInv'
  <1>1. Name \in AllCases /\ Waits(Name)
    BY HeadOfList
  <1>2. dirs' \in [AllCases -> {"none", "partial", "ok"}] /\ dirs'[Name] = d
    BY <1>1 DEF DoneInv
  <1>3. ASSUME ~failed, NEW c \in AllCases PROVE dirs'[c] = "ok" \/ Waits(c)'
    <2>1. dirs[c] = "ok" \/ Waits(c)
      BY <1>3 DEF DoneInv, Started, FromTornFile
    <2>2. Waits(c)' <=> Waits(c)
      BY DEF Waits
    <2>3. c # Name => dirs'[c] = dirs[c]
      BY <1>3 DEF DoneInv
    <2>4. QED
      BY <1>1, <2>1, <2>2, <2>3
  <1>4. pc' # "ended"
    BY DEF InCase, Collecting
  <1>5. pc' \in {"open", "dump"} => Completed'
    BY <1>2 DEF Completed, Name
  <1>6. QED
    BY <1>2, <1>3, <1>4, <1>5 DEF DoneInv

\* A case that fails leaves the list, and the sweep has failed.
LEMMA FailedCase ==
  ASSUME DoneInv, pc \in InCase, FailCase, UNCHANGED dirs
  PROVE  DoneInv'
  <1>1. todo # <<>> /\ todo' = Tail(todo) /\ failed' /\ pc' = "case"
    BY DEF DoneInv, FailCase, Goto
  <1>2. QED
    BY <1>1, HeadOfList DEF DoneInv, InCase, Collecting

LEMMA StartStep ==
  ASSUME DoneInv, Start
  PROVE  DoneInv'
  <1>1. pc' = "case" /\ todo' = Emitted /\ UNCHANGED <<dirs, file>>
    BY DEF Start, Goto
  <1>2. CASE file.state = "torn"
    BY <1>1, <1>2 DEF Emitted, DoneInv, FromTornFile, InCase, Collecting
  <1>3. CASE file.state # "torn"
    <2> DEFINE counts == {file.counts[c] : c \in AllCases}
    <2>1. Cases \in Seq(AllCases)
      BY CasesAssumption DEF AllCases
    <2>2. DOMAIN Cases = 1 .. Len(Cases) /\ Len(Cases) \in Nat
          /\ \A i \in 1 .. Len(Cases) : Cases[i] \in AllCases
      BY <2>1
    <2>3. todo' = [i \in 1 .. Len(Cases) |->
                     [name |-> Cases[i], count |-> file.counts[Cases[i]]]]
      BY <1>1, <1>3, <2>2 DEF Emitted
    <2>4. \A i \in 1 .. Len(Cases) :
            [name |-> Cases[i], count |-> file.counts[Cases[i]]]
              \in Item(counts)
      BY <2>2 DEF Item
    <2>5. todo' \in [1 .. Len(Cases) -> Item(counts)]
      <3> HIDE DEF counts
      <3>1. QED
        BY <2>3, <2>4
    <2>6. todo' \in Seq(Item(counts))
      <3> HIDE DEF counts
      <3>1. QED
        BY <2>2, <2>5
    <2>7. ASSUME NEW c \in AllCases PROVE Waits(c)'
      <3>1. PICK i \in DOMAIN Cases : Cases[i] = c
        BY DEF AllCases, ToSet
      <3>2. i \in DOMAIN todo' /\ todo'[i].name = c
        BY <2>2, <2>3, <3>1
      <3>3. QED
        BY <3>2 DEF Waits
    <2> HIDE DEF counts
    <2>8. QED
      BY <1>1, <2>6, <2>7 DEF DoneInv, InCase, Collecting
  <1>4. QED
    BY <1>2, <1>3

LEMMA DoneStep == DoneInv /\ [Next]_vars => DoneInv'
  <1> SUFFICES ASSUME DoneInv, [Next]_vars PROVE DoneInv'
    OBVIOUS
  <1> USE DEF Goto, driverVars
  <1>1. CASE Driver
    <2>1. CASE Start
      BY <2>1, StartStep
    <2>2. CASE SkipCase \/ DumpFile
      <3>1. todo # <<>> /\ Completed /\ pc \in InCase \union {"case"}
        BY <2>2 DEF SkipCase, DumpFile, DoneInv, InCase
      <3>2. QED
        BY <2>2, <3>1, NextCase DEF SkipCase, DumpFile
    <2>3. CASE BeginCase
      BY <2>3, SameList DEF BeginCase, InCase
    <2>4. CASE Launch
      <3>1. todo # <<>> /\ pc \in InCase /\ pc' \in InCase \ {"open", "dump"}
        BY <2>4 DEF Launch, DoneInv, InCase, Collecting
      <3>2. QED
        BY <2>4, <3>1, SameList DEF Launch
    <2>5. CASE Accept
      <3>1. todo # <<>> /\ pc \in InCase
        BY <2>5 DEF Accept, DoneInv, InCase
      <3>2. QED
        BY <2>5, <3>1, SameList DEF Accept, InCase
    <2>6. CASE OutOfAttempts \/ GiveUp
      BY <2>6, FailedCase DEF OutOfAttempts, GiveUp, InCase
    <2>7. CASE ExpandOpen \/ ExpandDump
      <3>1. pc' \in {"expand", "start"} /\ UNCHANGED <<dirs, todo>>
        BY <2>7 DEF ExpandOpen, ExpandDump
      <3>2. QED
        BY <3>1, SameCases DEF InCase, Collecting
    <2>8. CASE Retry
      BY <2>8, SameCases DEF Retry, InCase, Collecting
    <2>9. CASE OpenFile
      <3>1. Completed
        BY <2>9 DEF OpenFile, DoneInv
      <3>2. QED
        BY <2>9, <3>1, SameCases DEF OpenFile, InCase, Collecting
    <2>10. CASE Finish
      BY <2>10, SameCases DEF Finish, InCase, Collecting
    <2>11. QED
      BY <1>1, <2>1, <2>2, <2>3, <2>4, <2>5, <2>6, <2>7, <2>8, <2>9, <2>10 DEF Driver
  <1>2. CASE Collector \/ Workload \/ Timeouts
    <2>1. /\ pc \in Collecting \union {"stopped"}
          /\ pc' \in Collecting \union {"stopped", "guard"}
          /\ UNCHANGED <<dirs, todo, failed, file>>
      BY <1>2 DEF Collector, StartSignal, EndsUnsignalled, WaitEnds, WaitTimesOut, StopInt,
         StopTerm, StopKill, Stopped, Judge, Workload, WorkloadEnds, WorkloadFails,
         RunEnds, Timeouts, OuterTimeout, RunTimesOut, Collecting
    <2>2. QED
      BY <2>1, SameCases DEF InCase, Collecting
  <1>3. CASE Profiler
    <2>1. UNCHANGED <<pc, dirs, todo, failed, file>>
      BY <1>3 DEF Profiler, Arm, WritesReport, Dies
    <2>2. QED
      BY <2>1 DEF DoneInv, Completed, Name, Started, FromTornFile, Waits
  <1>4. CASE Crash
    BY <1>4, SameCases DEF Crash, InCase, Collecting
  <1>5. CASE Restart
    <2>1. pc' = "start" /\ todo' = <<>> /\ UNCHANGED dirs
      BY <1>5 DEF Restart
    <2>2. QED
      BY <2>1 DEF DoneInv, Started, InCase, Collecting
  <1>6. CASE UNCHANGED vars
    BY <1>6 DEF vars, DoneInv, Completed, Name, Started, FromTornFile, Waits
  <1>7. QED
    BY <1>1, <1>2, <1>3, <1>4, <1>5, <1>6 DEF Next, Ended

LEMMA SweepInductive == Spec => []SweepInv
  <1>1. SweepInv /\ [Next]_vars => SweepInv'
    BY ProfilerStep, DoneStep DEF SweepInv
  <1>2. QED
    BY InitSweepInv, <1>1, PTL DEF Spec

-------------------------------------------------------------------------------
\* stop_amdprof_pid and stop_collectors end with KILL: when the guard takes
\* over, no profiler of the attempt is left, whether it was ready, late, or deaf
\* to the first two signals, and however often the sweep has crashed.
THEOREM ProfilersAreReaped == Spec => []NoProfilerSurvives
  <1>1. SweepInv => NoProfilerSurvives
    BY DEF SweepInv, ProfilerInv, NoProfilerSurvives, Collecting
  <1>2. QED
    BY SweepInductive, <1>1, PTL

\* run_case skips a case only for an accepted result: a sweep that exits with
\* 0, however often it was interrupted and started again, has one for every
\* case, unless it found the case file torn.
THEOREM SuccessIsComplete == Spec => []SuccessMeansAllDone
  <1>1. SweepInv => SuccessMeansAllDone
    <2> SUFFICES ASSUME SweepInv, pc = "ended", ~failed, file.state # "torn",
                        NEW c \in AllCases
                 PROVE  dirs[c] = "ok"
      BY DEF SuccessMeansAllDone
    <2>1. Started /\ ~FromTornFile /\ todo = <<>>
      BY DEF SweepInv, DoneInv, Started, FromTornFile
    <2>2. ~Waits(c)
      BY <2>1 DEF Waits
    <2>3. QED
      BY <2>1, <2>2 DEF SweepInv, DoneInv
  <1>2. QED
    BY SweepInductive, <1>1, PTL
===============================================================================
