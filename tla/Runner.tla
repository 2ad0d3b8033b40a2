------------------------------- MODULE Runner -------------------------------
(***************************************************************************)
(* main of nvbandwidth.cpp on every rank of a job: the options, the GPU     *)
(* each rank takes (Output::recordDevices), the loop over the requested     *)
(* testcases (runTestcase) with the collective calls they make, the report *)
(* of JsonOutput, and the three ways a rank ends: after MPI_Finalize, by    *)
(* returning from main before it, and by the MPI_Abort of an assertion.     *)
(*                                                                         *)
(* A run of a multinode testcase stands for one collective call here; what *)
(* it consists of is MultinodeBuffers and MemcpyCore.                      *)
(***************************************************************************)
EXTENDS Naturals, FiniteSets, SequencesExt

CONSTANTS
  WorldSize,   \* number of ranks, 0 .. WorldSize - 1
  HostOf,      \* the host of each rank
  GpuCounts,   \* values of gpus below
  BaseTests,   \* keys of the testcases of a single process, in order
  MultiTests,  \* keys of the multinode testcases, in order
  Requests,    \* the command lines
  JsonModes    \* values of --json

Ranks == 0 .. WorldSize - 1
Keys == Range(BaseTests) \union Range(MultiTests)

\* A testcase is asked for by name or by index.
Name(k) == [by |-> "name", key |-> k]
Index(n) == [by |-> "index", index |-> n]

\* -t with ids, -p with the keys the prefixes match, neither, --list, or
\* options that main refuses.
Request ==
  [kind : {"ids"}, ids : Seq([by : {"name"}, key : Keys \union {"unknown"}]
                             \union [by : {"index"}, index : Nat])]
  \union [kind : {"prefixes"}, matched : SUBSET Keys]
  \union [kind : {"all", "list", "invalid"}]

ASSUME WorldAssumption ==
  /\ WorldSize \in Nat \ {0}
  /\ \A counts \in GpuCounts, r \in Ranks : counts[HostOf[r]] \in Nat \ {0}
ASSUME RequestsAssumption == Requests \subseteq Request /\ JsonModes \subseteq BOOLEAN

\* Testcases are named, and those of a single process differ from the others.
ASSUME KeysAssumption ==
  /\ BaseTests \in Seq(Keys) /\ MultiTests \in Seq(Keys)
  /\ Range(BaseTests) \intersect Range(MultiTests) = {}
  /\ "none" \notin Keys

VARIABLES
  request, json,  \* the command line, the same on every rank
  gpus,           \* deviceCount on each host
  throwing,       \* the testcases that throw (an element width no GPU has)
  waived,         \* the testcases whose filter refuses the machine
  sick,           \* <<host, gpu>> on which memory cannot be allocated
  pc,             \* where each rank is in main
  localDevice,    \* the GPU of each rank
  todo,           \* the ids each rank has still to run
  current,        \* the key of the testcase it runs
  calls,          \* the collective calls it has entered
  report          \* testcases in the JSON document of rank 0

inputs == <<request, json, gpus, throwing, waived, sick>>
vars == <<inputs, pc, localDevice, todo, current, calls, report>>

Ended == {"done", "returned", "killed"}
Final == {"Passed", "Waived", "Error", "ERROR"}
NoTest == "none"

-------------------------------------------------------------------------------
(***************************************************************************)
(* MPI and its launcher (external).                                        *)
(***************************************************************************)
\* Rank r enters a collective call, and leaves it once every rank has entered
\* the same one.  Different calls never complete.
Enter(r, call) == calls' = [calls EXCEPT ![r] = Append(@, call)]

Met(r) ==
  LET n == Len(calls[r])
  IN  \A q \in Ranks : n \in DOMAIN calls[q] /\ calls[q][n] = calls[r][n]

Goto(r, label) == pc' = [pc EXCEPT ![r] = label]

\* A rank that ends without MPI_Finalize makes the launcher end the others.
Kill(r) ==
  /\ pc[r] \notin Ended
  /\ \E q \in Ranks : pc[q] \in {"returned", "killed"}
  /\ Goto(r, "killed")
  /\ UNCHANGED <<inputs, localDevice, todo, current, calls, report>>

-------------------------------------------------------------------------------
(***************************************************************************)
(* What a rank knows.                                                      *)
(***************************************************************************)
\* Open MPI tells a rank its index among the ranks of its host.
\* (Mutant: the rank in the job.)
WorldRank(r) == r
LocalRank(r) == Cardinality({q \in Ranks : q < r /\ HostOf[q] = HostOf[r]})

DeviceCount(r) == gpus[HostOf[r]]

\* The testcases a rank creates.
Testcases(r) ==
  (IF r = 0 /\ LocalRank(r) = 0 THEN BaseTests ELSE <<>>)
  \o (IF WorldSize > 1 THEN MultiTests ELSE <<>>)

\* The key of the testcase that an id names on rank r, or NoTest.
FindTestcase(r, id) ==
  IF id.by = "name"
  THEN IF id.key \in Range(Testcases(r)) THEN id.key ELSE NoTest
  ELSE IF id.index < Len(Testcases(r)) THEN Testcases(r)[id.index + 1] ELSE NoTest

ById(keys) == [i \in DOMAIN keys |-> Name(keys[i])]

\* expandTestcases: those of the keys that a prefix matches, in their order.
Hits(keys) == {i \in DOMAIN keys : keys[i] \in request.matched}
HitNumber(keys, i) == Cardinality({j \in Hits(keys) : j <= i})
Expanded(keys) ==
  [n \in 1 .. Cardinality(Hits(keys)) |->
     keys[CHOOSE i \in Hits(keys) : HitNumber(keys, i) = n]]

\* The ids rank r is going to run.
TestcasesToRun(r) ==
  CASE request.kind = "ids"      -> request.ids
    [] request.kind = "prefixes" -> ById(Expanded(Testcases(r)))
    [] OTHER                     -> ById(Testcases(r))

-------------------------------------------------------------------------------
(***************************************************************************)
(* The report: the testcases of JsonOutput on the rank that prints them.   *)
(* Text output prints the same events and keeps nothing.                   *)
(***************************************************************************)
Reports(r) == json /\ r = 0

\* (Mutant: as if runTestcase started a testcase without announcing it.)
AddUnlessRunning(r, name, status) ==
  IF Reports(r) /\ status # "Running"
  THEN report' = Append(report, [name |-> name, status |-> status, results |-> {}])
  ELSE UNCHANGED report

AddTestcase(r, name, status) ==
  IF Reports(r)
  THEN report' = Append(report, [name |-> name, status |-> status, results |-> {}])
  ELSE UNCHANGED report

\* The results go to the last testcase, whichever it is.
AddResults(r, name) ==
  IF Reports(r) /\ report # <<>>
  THEN report' = [report EXCEPT ![Len(report)] =
                    [name |-> @.name, status |-> "Passed", results |-> @.results \union {name}]]
  ELSE UNCHANGED report

\* It looks for the testcases beside the member that holds them, finds none
\* there, and so always adds one: the entry "Running" stays.
\* (Mutant: adds nothing.)
SetStatusIfPresent(r, name, status) == UNCHANGED report
SetStatusAndAddIfNeeded(r, name, status) == AddTestcase(r, name, status)

-------------------------------------------------------------------------------
(***************************************************************************)
(* main.                                                                   *)
(***************************************************************************)
Init ==
  /\ request \in Requests
  /\ json \in JsonModes
  /\ gpus \in GpuCounts
  /\ throwing \in SUBSET Keys
  /\ waived \in SUBSET (Keys \ throwing)
  /\ sick \in {{}} \union {{<<HostOf[r], g>>} : r \in Ranks, g \in {0}}
  /\ pc = [r \in Ranks |-> "options"]
  /\ localDevice = [r \in Ranks |-> 0]
  /\ todo = [r \in Ranks |-> <<>>]
  /\ current = [r \in Ranks |-> NoTest]
  /\ calls = [r \in Ranks |-> <<>>]
  /\ report = <<>>

\* --list and refused options return from main.
ParseOptions(r) ==
  /\ pc[r] = "options"
  /\ Goto(r, IF request.kind \in {"list", "invalid"} THEN "returned" ELSE "devices")
  /\ UNCHANGED <<inputs, localDevice, todo, current, calls, report>>

\* Output::recordDevices: the ranks exchange their hosts and devices.
TakeDevice(r) == LocalRank(r) % DeviceCount(r)

RecordDevicesText(r) ==
  /\ pc[r] = "devices"
  /\ ~json
  /\ IF WorldSize > 1
     THEN /\ localDevice' = [localDevice EXCEPT ![r] = TakeDevice(r)]
          /\ Enter(r, "devices")
          /\ Goto(r, "exchange")
     ELSE Goto(r, "sanity") /\ UNCHANGED <<localDevice, calls>>
  /\ UNCHANGED <<inputs, todo, current, report>>

Exchanged(r) ==
  /\ pc[r] = "exchange"
  /\ Met(r)
  /\ Goto(r, "sanity")
  /\ UNCHANGED <<inputs, localDevice, todo, current, calls, report>>

\* JsonOutput::recordDevices looks up as many local devices as there are
\* ranks; on a host with fewer GPUs the assertion aborts the job.
RecordDevicesJson(r) ==
  /\ pc[r] = "devices"
  /\ json
  /\ Goto(r, IF WorldSize <= DeviceCount(r) THEN "sanity" ELSE "killed")
  /\ UNCHANGED <<inputs, localDevice, todo, current, calls, report>>

\* A GPU on which nothing can be allocated ends the rank.
SanityCheck(r) ==
  /\ pc[r] = "sanity"
  /\ Goto(r, IF <<HostOf[r], localDevice[r]>> \in sick THEN "returned" ELSE "expand")
  /\ UNCHANGED <<inputs, localDevice, todo, current, calls, report>>

\* expandTestcases: prefixes that match nothing on this rank end it.
Expand(r) ==
  /\ pc[r] = "expand"
  /\ IF request.kind = "prefixes" /\ TestcasesToRun(r) = <<>>
     THEN Goto(r, "returned") /\ UNCHANGED todo
     ELSE Goto(r, "loop") /\ todo' = [todo EXCEPT ![r] = TestcasesToRun(r)]
  /\ UNCHANGED <<inputs, localDevice, current, calls, report>>

\* runTestcase, up to the call of run: an unknown or waived testcase is
\* reported and the loop goes on.  (Mutant: an unknown one ends the loop.)
EndLoop(r) == todo' = [todo EXCEPT ![r] = <<>>]
SkipUnknown(r) == todo' = [todo EXCEPT ![r] = Tail(@)]

IdName(id) == IF id.by = "name" THEN id.key ELSE "unknown"

NotFound(r) ==
  /\ pc[r] = "loop" /\ todo[r] # <<>>
  /\ FindTestcase(r, Head(todo[r])) = NoTest
  /\ AddTestcase(r, IdName(Head(todo[r])), "ERROR")
  /\ SkipUnknown(r)
  /\ UNCHANGED <<inputs, pc, localDevice, current, calls>>

Waive(r) ==
  /\ pc[r] = "loop" /\ todo[r] # <<>>
  /\ LET key == FindTestcase(r, Head(todo[r]))
     IN  key \in waived /\ AddTestcase(r, key, "Waived")
  /\ todo' = [todo EXCEPT ![r] = Tail(@)]
  /\ UNCHANGED <<inputs, pc, localDevice, current, calls>>

RunTestcase(r) ==
  /\ pc[r] = "loop" /\ todo[r] # <<>>
  /\ LET key == FindTestcase(r, Head(todo[r]))
     IN  /\ key \in Keys \ waived
         /\ AddTestcase(r, key, "Running")
         /\ current' = [current EXCEPT ![r] = key]
         /\ IF key \in Range(MultiTests) THEN Enter(r, key) ELSE UNCHANGED calls
  /\ todo' = [todo EXCEPT ![r] = Tail(@)]
  /\ Goto(r, "testcase")
  /\ UNCHANGED <<inputs, localDevice>>

\* The end of run, with the results or by an exception.
FinishTestcase(r) ==
  /\ pc[r] = "testcase"
  /\ current[r] \in Range(MultiTests) => Met(r)
  /\ IF current[r] \in throwing
     THEN SetStatusAndAddIfNeeded(r, current[r], "Error")
     ELSE AddResults(r, current[r])
  /\ current' = [current EXCEPT ![r] = NoTest]
  /\ Goto(r, "loop")
  /\ UNCHANGED <<inputs, localDevice, todo, calls>>

\* The end of main.  (Mutant: only the rank that prints calls MPI_Finalize.)
FinalizeIfOutput(r) == IF r = 0 THEN Enter(r, "finalize") ELSE UNCHANGED calls
CallFinalize(r) == Enter(r, "finalize")

Finalize(r) ==
  /\ pc[r] = "loop" /\ todo[r] = <<>>
  /\ CallFinalize(r)
  /\ Goto(r, "finalize")
  /\ UNCHANGED <<inputs, localDevice, todo, current, report>>

Return(r) ==
  /\ pc[r] = "finalize"
  /\ Met(r)
  /\ Goto(r, "done")
  /\ UNCHANGED <<inputs, localDevice, todo, current, calls, report>>

-------------------------------------------------------------------------------
Step(r) ==
  \/ ParseOptions(r)
  \/ RecordDevicesText(r)
  \/ RecordDevicesJson(r)
  \/ Exchanged(r)
  \/ SanityCheck(r)
  \/ Expand(r)
  \/ NotFound(r)
  \/ Waive(r)
  \/ RunTestcase(r)
  \/ FinishTestcase(r)
  \/ Finalize(r)
  \/ Return(r)
  \/ Kill(r)

AllEnded == (\A r \in Ranks : pc[r] \in Ended) /\ UNCHANGED vars

Next == (\E r \in Ranks : Step(r)) \/ AllEnded

\* A rank waits nowhere but in a collective call.
Spec == Init /\ [][Next]_vars /\ \A r \in Ranks : WF_vars(Step(r))

-------------------------------------------------------------------------------
(***************************************************************************)
(* Properties.                                                             *)
(***************************************************************************)
\* The state of main on every rank.
TypeOK ==
  /\ pc \in [Ranks -> Ended \union {"options", "devices", "exchange", "sanity", "expand",
                                    "loop", "testcase", "finalize"}]
  /\ \A r \in Ranks : localDevice[r] < DeviceCount(r)
  /\ \A r \in Ranks : (current[r] # NoTest) => (pc[r] \in {"testcase", "killed"})
  /\ calls \in [Ranks -> Seq(Keys \union {"devices", "finalize"})]

OnHost(h) == {r \in Ranks : HostOf[r] = h}
HasDevice(r) == pc[r] \notin {"options", "devices", "returned", "killed"}

\* README: with at most as many processes as GPUs, "processes will take
\* consecutive GPUs, starting from GPU 0" (text output, Open MPI).
ConsecutiveGpus ==
  \A h \in Range(HostOf) :
    LET n == Cardinality(OnHost(h))
    IN  ~json /\ WorldSize > 1 /\ n <= gpus[h] /\ (\A r \in OnHost(h) : HasDevice(r))
          => {localDevice[r] : r \in OnHost(h)} = 0 .. n - 1

\* An entry of the JSON document holds the results of the testcase it names.
ResultsGoToTheirTest ==
  \A i \in DOMAIN report : report[i].results \subseteq {report[i].name}

\* When rank 0 has run its testcases, each of them has exactly one entry with
\* a final status, in the order they were asked for.
ReportedName(id) == IF FindTestcase(0, id) = NoTest THEN IdName(id) ELSE FindTestcase(0, id)
FinalEntries == {n \in DOMAIN report : report[n].status \in Final}

\* The entries f are the final ones of the ids before d, one each, in order.
Reported(f, d) ==
  /\ f \in [1 .. d -> FinalEntries]
  /\ Range(f) = FinalEntries
  /\ \A m, n \in 1 .. d : m < n => f[m] < f[n]
  /\ \A n \in 1 .. d : report[f[n]].name = ReportedName(TestcasesToRun(0)[n])

EveryTestReported ==
  LET asked == Len(TestcasesToRun(0))
  IN  json /\ pc[0] \in {"finalize", "done"}
        => \E f \in [1 .. asked -> FinalEntries] : Reported(f, asked)

\* The ranks make the same collective calls in the same order, though only
\* rank 0 has the testcases of a single process.
CollectivesAgree ==
  \A r, q \in Ranks : \A n \in DOMAIN calls[r] \intersect DOMAIN calls[q] :
    calls[r][n] = calls[q][n]

\* README: -t takes "Testcase(s) to run (by name or index)", and "results for
\* non multinode testcases will only come from MPI rank 0": what a rank runs is
\* on the command line, by its name or its index in the list that --list shows.
RunsWhatIsAsked ==
  \A r \in Ranks : current[r] # NoTest /\ request.kind = "ids" =>
    \E i \in DOMAIN request.ids : FindTestcase(0, request.ids[i]) = current[r]

\* Every rank ends, also when another one ends early.
EveryRankEnds == <>(\A r \in Ranks : pc[r] \in Ended)
===============================================================================
