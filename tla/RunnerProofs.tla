----------------------------- MODULE RunnerProofs -----------------------------
(***************************************************************************)
(* What holds of Runner for every number of ranks, placement, machine,     *)
(* list of testcases and command line.                                     *)
(*                                                                         *)
(* The types and where results go; the GPUs of a host; what a rank goes    *)
(* through and has left to run; the collective calls, by the places of the *)
(* ranks in what their lists share; the final entries of the report.       *)
(***************************************************************************)
EXTENDS Runner, FiniteSetTheorems, TLAPS

Stages == Ended \union {"options", "devices", "exchange", "sanity", "expand",
                        "loop", "testcase", "finalize"}

Calls == Keys \union {"devices", "finalize"}

\* The machine is one of those considered, and every variable of a rank is in
\* its range.
RankInv ==
  /\ gpus \in GpuCounts
  /\ pc \in [Ranks -> Stages]
  /\ current \in [Ranks -> Keys \union {NoTest}]
  /\ \A r \in Ranks : current[r] # NoTest => pc[r] \in {"testcase", "killed"}
  /\ calls \in [Ranks -> Seq(Calls)]

\* The GPU of a rank is one its host has.
DeviceInv ==
  /\ localDevice \in [Ranks -> Nat]
  /\ \A r \in Ranks : localDevice[r] < DeviceCount(r)

\* While rank 0 runs a testcase, the last entry of its report is the one of
\* that testcase.
Entry(names) ==
  [name : names, status : Final \union {"Running"}, results : SUBSET names]

ReportInv ==
  /\ \E names : report \in Seq(Entry(names))
  /\ ResultsGoToTheirTest
  /\ json /\ pc[0] = "testcase" =>
       report # <<>> /\ report[Len(report)].name = current[0]

RunInv == RankInv /\ DeviceInv /\ ReportInv

-------------------------------------------------------------------------------
LEMMA RankZero == 0 \in Ranks
  BY WorldAssumption DEF Ranks

LEMMA DeviceCountType ==
  ASSUME RankInv, NEW r \in Ranks
  PROVE  DeviceCount(r) \in Nat \ {0}
  BY WorldAssumption DEF RankInv, DeviceCount

\* The ranks of a host are finitely many, so that a local rank is a number.
LEMMA LocalRankType ==
  ASSUME NEW r \in Ranks
  PROVE  LocalRank(r) \in Nat
  <1> DEFINE S == {q \in Ranks : q < r /\ HostOf[q] = HostOf[r]}
  <1>1. IsFiniteSet(Ranks)
    BY WorldAssumption, FS_Interval DEF Ranks
  <1>2. S \in SUBSET Ranks
    OBVIOUS
  <1>3. IsFiniteSet(S)
    BY <1>1, <1>2, FS_Subset
  <1>4. Cardinality(S) \in Nat
    BY <1>3, FS_CardinalityType
  <1>5. QED
    BY <1>4 DEF LocalRank

LEMMA InitRunInv == Init => RunInv
  <1> SUFFICES ASSUME Init PROVE RunInv
    OBVIOUS
  <1>1. RankInv
    BY DEF Init, RankInv, Stages, Ended
  <1>2. DeviceInv
    BY <1>1, DeviceCountType DEF Init, DeviceInv
  <1>3. ReportInv
    BY RankZero DEF Init, ReportInv, ResultsGoToTheirTest
  <1>4. QED
    BY <1>1, <1>2, <1>3 DEF RunInv

-------------------------------------------------------------------------------
LEMMA SeqMonotone ==
  ASSUME NEW A, NEW B, A \subseteq B, NEW s \in Seq(A)
  PROVE  s \in Seq(B)
  <1>1. s \in [1 .. Len(s) -> A] /\ Len(s) \in Nat
    OBVIOUS
  <1>2. s \in [1 .. Len(s) -> B]
    BY <1>1
  <1>3. QED
    BY <1>1, <1>2

LEMMA EnterType ==
  ASSUME RankInv, NEW r \in Ranks, NEW call \in Calls, Enter(r, call)
  PROVE  calls' \in [Ranks -> Seq(Calls)]
  <1>1. calls[r] \in Seq(Calls)
    BY DEF RankInv
  <1>2. Append(calls[r], call) \in Seq(Calls)
    BY <1>1
  <1>3. QED
    BY <1>2 DEF RankInv, Enter

LEMMA RankStep == RankInv /\ [Next]_vars => RankInv'
  <1> SUFFICES ASSUME RankInv, [Next]_vars PROVE RankInv'
    OBVIOUS
  <1> USE DEF RankInv, inputs, Goto, Stages, Ended, NoTest
  <1>1. ASSUME NEW r \in Ranks, Step(r) PROVE RankInv'
    <2>1. CASE ParseOptions(r)
      BY <2>1 DEF ParseOptions
    <2>2. CASE RecordDevicesText(r)
      <3>1. calls' \in [Ranks -> Seq(Calls)]
        BY <2>2, EnterType DEF RecordDevicesText, Calls
      <3>2. QED
        BY <2>2, <3>1 DEF RecordDevicesText
    <2>3. CASE RecordDevicesJson(r)
      BY <2>3 DEF RecordDevicesJson
    <2>4. CASE Exchanged(r)
      BY <2>4 DEF Exchanged
    <2>5. CASE SanityCheck(r)
      BY <2>5 DEF SanityCheck
    <2>6. CASE Expand(r)
      BY <2>6 DEF Expand
    <2>7. CASE NotFound(r)
      BY <2>7 DEF NotFound
    <2>8. CASE Waive(r)
      BY <2>8 DEF Waive
    <2>9. CASE RunTestcase(r)
      <3>1. PICK key \in Keys : /\ current' = [current EXCEPT ![r] = key]
                                /\ Enter(r, key) \/ UNCHANGED calls
        BY <2>9 DEF RunTestcase
      <3>2. calls' \in [Ranks -> Seq(Calls)]
        BY <3>1, EnterType DEF Calls
      <3>3. QED
        BY <2>9, <3>1, <3>2 DEF RunTestcase
    <2>10. CASE FinishTestcase(r)
      BY <2>10 DEF FinishTestcase
    <2>11. CASE Finalize(r)
      <3>1. calls' \in [Ranks -> Seq(Calls)]
        BY <2>11, EnterType DEF Finalize, CallFinalize, Calls
      <3>2. QED
        BY <2>11, <3>1 DEF Finalize
    <2>12. CASE Return(r)
      BY <2>12 DEF Return
    <2>13. CASE Kill(r)
      BY <2>13 DEF Kill
    <2>14. QED
      BY <1>1, <2>1, <2>2, <2>3, <2>4, <2>5, <2>6, <2>7, <2>8, <2>9, <2>10, <2>11,
         <2>12, <2>13 DEF Step
  <1>2. CASE UNCHANGED vars
    BY <1>2 DEF vars
  <1>3. QED
    BY <1>1, <1>2 DEF Next, AllEnded

\* Only the text output assigns GPUs, and it wraps around the GPUs of a host.
LEMMA DeviceStep == RankInv /\ DeviceInv /\ [Next]_vars => DeviceInv'
  <1> SUFFICES ASSUME RankInv, DeviceInv, [Next]_vars PROVE DeviceInv'
    OBVIOUS
  <1> USE DEF DeviceInv, DeviceCount, inputs
  <1>1. ASSUME NEW r \in Ranks, RecordDevicesText(r) PROVE DeviceInv'
    <2>1. /\ DeviceCount(r) \in Nat \ {0} /\ LocalRank(r) \in Nat
      BY DeviceCountType, LocalRankType
    <2>2. TakeDevice(r) \in Nat /\ TakeDevice(r) < DeviceCount(r)
      BY <2>1 DEF TakeDevice
    <2>3. QED
      BY <1>1, <2>2 DEF RecordDevicesText
  <1>2. ASSUME NEW r \in Ranks, Step(r), ~RecordDevicesText(r)
        PROVE  UNCHANGED <<localDevice, gpus>>
    BY <1>2 DEF Step, ParseOptions, RecordDevicesJson, Exchanged, SanityCheck, Expand,
                NotFound, Waive, RunTestcase, FinishTestcase, Finalize, Return, Kill
  <1>3. ASSUME UNCHANGED <<localDevice, gpus>> PROVE DeviceInv'
    BY <1>3
  <1>4. QED
    BY <1>1, <1>2, <1>3 DEF Next, AllEnded, vars

-------------------------------------------------------------------------------
(***************************************************************************)
(* The report.                                                             *)
(***************************************************************************)
\* A new entry holds no results, so that it disturbs none of the others.
LEMMA AddKeepsReport ==
  ASSUME ReportInv, NEW r, NEW name, NEW status \in Final \union {"Running"},
         AddTestcase(r, name, status)
  PROVE  /\ \E names : report' \in Seq(Entry(names))
         /\ ResultsGoToTheirTest'
         /\ Reports(r) => report' # <<>> /\ report'[Len(report')].name = name
  <1> DEFINE e == [name |-> name, status |-> status, results |-> {}]
  <1>1. PICK names : report \in Seq(Entry(names))
    BY DEF ReportInv
  <1>2. CASE ~Reports(r)
    BY <1>1, <1>2 DEF AddTestcase, ReportInv, ResultsGoToTheirTest
  <1>3. CASE Reports(r)
    <2> DEFINE more == names \union {name}
    <2>1. report' = Append(report, e)
      BY <1>3 DEF AddTestcase
    <2>2. e \in Entry(more) /\ Entry(names) \subseteq Entry(more)
      BY DEF Entry
    <2>3. report \in Seq(Entry(more))
      BY <1>1, <2>2, SeqMonotone
    <2>4. report' \in Seq(Entry(more))
      BY <2>1, <2>2, <2>3
    <2>5. /\ Len(report') = Len(report) + 1 /\ report'[Len(report) + 1] = e
          /\ Len(report) \in Nat
          /\ \A i \in 1 .. Len(report) : report'[i] = report[i]
          /\ DOMAIN report = 1 .. Len(report) /\ DOMAIN report' = 1 .. Len(report) + 1
      BY <2>1, <2>2, <2>3
    <2>6. ResultsGoToTheirTest'
      BY <2>5 DEF ReportInv, ResultsGoToTheirTest
    <2>7. QED
      BY <2>1, <2>4, <2>5, <2>6
  <1>4. QED
    BY <1>2, <1>3

\* The results go to the last entry, which is the one of the testcase.
LEMMA ResultsKeepReport ==
  ASSUME ReportInv, NEW r, Reports(r) => pc[0] = "testcase",
         AddResults(r, current[0])
  PROVE  /\ \E names : report' \in Seq(Entry(names))
         /\ ResultsGoToTheirTest'
  <1>1. PICK names : report \in Seq(Entry(names))
    BY DEF ReportInv
  <1>2. CASE ~Reports(r) \/ report = <<>>
    BY <1>1, <1>2 DEF AddResults, ReportInv, ResultsGoToTheirTest
  <1>3. CASE Reports(r) /\ report # <<>>
    <2> DEFINE n == Len(report)
               key == current[0]
               last == [name |-> report[n].name, status |-> "Passed",
                        results |-> report[n].results \union {key}]
    <2>1. n \in Nat /\ n \in 1 .. n /\ DOMAIN report = 1 .. n /\ report[n] \in Entry(names)
      BY <1>1, <1>3
    <2>2. report[n].name = key
      BY <1>3 DEF ReportInv, Reports
    <2>3. report' = [report EXCEPT ![n] = last]
      BY <1>3, <2>1 DEF AddResults, Entry
    <2>4. last \in Entry(names) /\ last.name = key /\ last.results \subseteq {key}
      BY <2>1, <2>2 DEF Entry, Final, ReportInv, ResultsGoToTheirTest
    <2> HIDE DEF last
    <2>5. report' \in Seq(Entry(names))
      BY <1>1, <2>1, <2>3, <2>4
    <2>6. ResultsGoToTheirTest'
      BY <2>1, <2>3, <2>4 DEF ReportInv, ResultsGoToTheirTest
    <2>7. QED
      BY <2>5, <2>6
  <1>4. QED
    BY <1>2, <1>3

LEMMA ReportStep == RankInv /\ ReportInv /\ [Next]_vars => ReportInv'
  <1> SUFFICES ASSUME RankInv, ReportInv, [Next]_vars PROVE ReportInv'
    OBVIOUS
  <1> USE RankZero
  <1>1. ASSUME NEW r \in Ranks, NotFound(r) \/ Waive(r) PROVE ReportInv'
    <2>1. PICK status \in Final : \E id : AddTestcase(r, id, status)
      BY <1>1 DEF NotFound, Waive, Final
    <2>2. UNCHANGED <<json, pc, current>> /\ pc[r] = "loop"
      BY <1>1 DEF NotFound, Waive, inputs
    <2>3. CASE Reports(r)
      <3>1. pc'[0] = "loop"
        BY <2>2, <2>3 DEF Reports
      <3>2. QED
        BY <2>1, <3>1, AddKeepsReport DEF ReportInv
    <2>4. CASE ~Reports(r)
      BY <2>1, <2>2, <2>4 DEF AddTestcase, ReportInv, ResultsGoToTheirTest
    <2>5. QED
      BY <2>3, <2>4
  <1>2. ASSUME NEW r \in Ranks, RunTestcase(r) PROVE ReportInv'
    <2>1. PICK key : /\ AddTestcase(r, key, "Running")
                     /\ current' = [current EXCEPT ![r] = key]
      BY <1>2 DEF RunTestcase
    <2>2. UNCHANGED json /\ pc' = [pc EXCEPT ![r] = "testcase"]
      BY <1>2 DEF RunTestcase, inputs, Goto
    <2>3. CASE r = 0
      BY <2>1, <2>2, <2>3, AddKeepsReport DEF ReportInv, RankInv, Reports
    <2>4. CASE r # 0
      <3>1. UNCHANGED <<report, json>> /\ pc'[0] = pc[0] /\ current'[0] = current[0]
        BY <2>1, <2>2, <2>4 DEF AddTestcase, Reports, RankInv
      <3>2. QED
        BY <3>1 DEF ReportInv, ResultsGoToTheirTest
    <2>5. QED
      BY <2>3, <2>4
  <1>3. ASSUME NEW r \in Ranks, FinishTestcase(r) PROVE ReportInv'
    <2>1. /\ pc[r] = "testcase" /\ pc' = [pc EXCEPT ![r] = "loop"]
          /\ UNCHANGED json
          /\ current' = [current EXCEPT ![r] = NoTest]
          /\ AddTestcase(r, current[r], "Error") \/ AddResults(r, current[r])
      BY <1>3 DEF FinishTestcase, SetStatusAndAddIfNeeded, Goto, inputs
    <2>2. CASE r = 0
      <3>1. pc'[0] = "loop"
        BY <2>1, <2>2 DEF RankInv
      <3>2. CASE AddTestcase(r, current[r], "Error")
        BY <3>1, <3>2, AddKeepsReport DEF ReportInv, Final
      <3>3. CASE AddResults(r, current[r])
        BY <2>1, <2>2, <3>1, <3>3, ResultsKeepReport DEF ReportInv
      <3>4. QED
        BY <2>1, <3>2, <3>3
    <2>3. CASE r # 0
      <3>1. UNCHANGED <<report, json>> /\ pc'[0] = pc[0] /\ current'[0] = current[0]
        BY <2>1, <2>3 DEF AddTestcase, AddResults, Reports, RankInv
      <3>2. QED
        BY <3>1 DEF ReportInv, ResultsGoToTheirTest
    <2>4. QED
      BY <2>2, <2>3
  <1>4. ASSUME UNCHANGED <<report, json, current>>, pc'[0] = "testcase" => pc[0] = "testcase"
        PROVE  ReportInv'
    BY <1>4 DEF ReportInv, ResultsGoToTheirTest
  <1>5. ASSUME NEW r \in Ranks, Step(r),
               ~NotFound(r), ~Waive(r), ~RunTestcase(r), ~FinishTestcase(r)
        PROVE  ReportInv'
    <2>1. UNCHANGED <<report, json, current>>
      BY <1>5 DEF Step, ParseOptions, RecordDevicesText, RecordDevicesJson, Exchanged,
                  SanityCheck, Expand, Finalize, Return, Kill, inputs
    <2>2. PICK label \in Stages \ {"testcase"} : Goto(r, label)
      BY <1>5 DEF Step, ParseOptions, RecordDevicesText, RecordDevicesJson, Exchanged,
                  SanityCheck, Expand, Finalize, Return, Kill, Stages, Ended
    <2>3. pc'[0] = "testcase" => pc[0] = "testcase"
      BY <2>2 DEF Goto, RankInv
    <2>4. QED
      BY <1>4, <2>1, <2>3
  <1>6. CASE UNCHANGED vars
    BY <1>4, <1>6 DEF vars, inputs
  <1>7. QED
    BY <1>1, <1>2, <1>3, <1>5, <1>6 DEF Next, AllEnded

LEMMA RunInductive == Spec => []RunInv
  <1>1. RunInv /\ [Next]_vars => RunInv'
    BY RankStep, DeviceStep, ReportStep DEF RunInv
  <1>2. QED
    BY InitRunInv, <1>1, PTL DEF Spec

-------------------------------------------------------------------------------
\* main on every rank is in one of its states, and the rank drives a GPU its
\* host has, however the ranks are placed (Output::recordDevices).
THEOREM RunnerTypeCorrect == Spec => []TypeOK
  <1>1. RunInv => TypeOK
    BY DEF RunInv, RankInv, DeviceInv, TypeOK, Stages, Calls
  <1>2. QED
    BY RunInductive, <1>1, PTL

\* JsonOutput writes results into the last testcase it has: whatever other
\* entries a run adds (waived, unknown and failed ones), they end in the entry
\* of the testcase they belong to.
THEOREM ResultsAreFiledRight == Spec => []ResultsGoToTheirTest
  <1>1. RunInv => ResultsGoToTheirTest
    BY DEF RunInv, ReportInv
  <1>2. QED
    BY RunInductive, <1>1, PTL

-------------------------------------------------------------------------------
(***************************************************************************)
(* Consecutive GPUs.                                                       *)
(***************************************************************************)
Before(r) == {q \in Ranks : q < r /\ HostOf[q] = HostOf[r]}

LEMMA RanksFinite ==
  /\ IsFiniteSet(Ranks)
  /\ \A h : OnHost(h) \subseteq Ranks /\ IsFiniteSet(OnHost(h)) /\ Cardinality(OnHost(h)) \in Nat
  <1>1. IsFiniteSet(Ranks)
    BY WorldAssumption, FS_Interval DEF Ranks
  <1>2. \A h : OnHost(h) \subseteq Ranks
    BY DEF OnHost
  <1>3. QED
    BY <1>1, <1>2, FS_Subset, FS_CardinalityType

\* The local rank of a rank is below the number of ranks of its host, and two
\* ranks of a host have different ones.
LEMMA LocalRankBound ==
  ASSUME NEW h, NEW r \in OnHost(h)
  PROVE  LocalRank(r) \in 0 .. Cardinality(OnHost(h)) - 1
  <1>1. /\ r \in Ranks /\ LocalRank(r) = Cardinality(Before(r))
        /\ Before(r) \subseteq OnHost(h) /\ r \notin Before(r)
    BY DEF OnHost, LocalRank, Before, Ranks
  <1>2. Cardinality(Before(r)) <= Cardinality(OnHost(h))
        /\ (Cardinality(Before(r)) = Cardinality(OnHost(h)) => Before(r) = OnHost(h))
    BY <1>1, RanksFinite, FS_Subset
  <1>3. Cardinality(Before(r)) \in Nat
    BY <1>1, LocalRankType
  <1>4. QED
    BY <1>1, <1>2, <1>3, RanksFinite

LEMMA LocalRankDiffers ==
  ASSUME NEW h, NEW r \in OnHost(h), NEW q \in OnHost(h), q < r
  PROVE  LocalRank(q) < LocalRank(r)
  <1>1. /\ r \in Ranks /\ q \in Ranks /\ HostOf[q] = HostOf[r]
        /\ LocalRank(r) = Cardinality(Before(r)) /\ LocalRank(q) = Cardinality(Before(q))
    BY DEF OnHost, LocalRank, Before
  <1>2. Before(q) \subseteq Before(r) /\ q \in Before(r) /\ q \notin Before(q)
    BY <1>1 DEF Before, Ranks
  <1>3. IsFiniteSet(Before(r))
    <2>1. Before(r) \subseteq Ranks
      BY DEF Before
    <2>2. QED
      BY <2>1, RanksFinite, FS_Subset
  <1>4. Cardinality(Before(q)) <= Cardinality(Before(r))
        /\ (Cardinality(Before(q)) = Cardinality(Before(r)) => Before(q) = Before(r))
    BY <1>2, <1>3, FS_Subset
  <1>5. LocalRank(q) \in Nat /\ LocalRank(r) \in Nat
    BY <1>1, LocalRankType
  <1>6. QED
    BY <1>1, <1>2, <1>4, <1>5

\* The local ranks of a host are 0 to n - 1: n different numbers below n.
LEMMA LocalRanksAll ==
  ASSUME NEW h
  PROVE  {LocalRank(r) : r \in OnHost(h)} = 0 .. Cardinality(OnHost(h)) - 1
  <1> DEFINE S == OnHost(h)
             n == Cardinality(S)
             T == 0 .. n - 1
             f == [r \in S |-> LocalRank(r)]
  <1>1. S \subseteq Ranks /\ IsFiniteSet(S) /\ n \in Nat
    BY RanksFinite
  <1>2. f \in [S -> T]
    BY LocalRankBound
  <1>3. ASSUME NEW r \in S, NEW q \in S, f[r] = f[q] PROVE r = q
    <2>1. r \in Int /\ q \in Int
      BY <1>1 DEF Ranks
    <2>2. f[r] = LocalRank(r) /\ f[q] = LocalRank(q) /\ f[r] \in Int
      BY <1>2
    <2>3. q < r => f[q] < f[r]
      BY <2>2, LocalRankDiffers
    <2>4. r < q => f[r] < f[q]
      BY <2>2, LocalRankDiffers
    <2>5. QED
      BY <1>3, <2>1, <2>2, <2>3, <2>4
  <1> HIDE DEF f
  <1>4. f \in Injection(S, T)
    BY <1>2, <1>3 DEF Injection, IsInjective
  <1>5. IsFiniteSet(T) /\ Cardinality(T) = n
    <2>1. IsFiniteSet(T)
          /\ Cardinality(T) = IF 0 > n - 1 THEN 0 ELSE (n - 1) - 0 + 1
      BY <1>1, FS_Interval
    <2>2. QED
      BY <1>1, <2>1
  <1>6. f \in Surjection(S, T)
    BY <1>4, <1>5, FS_Injection
  <1>7. \A t \in T : \E r \in S : f[r] = t
    BY <1>6 DEF Surjection
  <1>8. QED
    BY <1>2, <1>7 DEF f

\* A rank that is past the exchange drives the GPU of its local rank.
PlacedInv ==
  ~json /\ WorldSize > 1 => \A r \in Ranks : HasDevice(r) => localDevice[r] = TakeDevice(r)

LEMMA PlacedStep == RankInv /\ DeviceInv /\ PlacedInv /\ [Next]_vars => PlacedInv'
  <1> SUFFICES ASSUME RankInv, DeviceInv, PlacedInv, [Next]_vars PROVE PlacedInv'
    OBVIOUS
  <1>1. UNCHANGED <<json, gpus>>
    BY DEF Next, Step, AllEnded, vars, inputs, ParseOptions, RecordDevicesText, RecordDevicesJson,
           Exchanged, SanityCheck, Expand, NotFound, Waive, RunTestcase, FinishTestcase,
           Finalize, Return, Kill
  <1>2. \A r \in Ranks : TakeDevice(r)' = TakeDevice(r)
    BY <1>1 DEF TakeDevice, DeviceCount, LocalRank, Ranks
  <1>3. SUFFICES ASSUME ~json, WorldSize > 1, NEW q \in Ranks, HasDevice(q)'
                 PROVE  localDevice'[q] = TakeDevice(q)
    BY <1>1, <1>2 DEF PlacedInv
  <1>4. HasDevice(q) => localDevice[q] = TakeDevice(q)
    BY <1>3 DEF PlacedInv
  <1>5. ASSUME NEW r \in Ranks, RecordDevicesText(r)
        PROVE  localDevice'[q] = TakeDevice(q)
    <2>1. /\ localDevice' = [localDevice EXCEPT ![r] = TakeDevice(r)]
          /\ pc' = [pc EXCEPT ![r] = "exchange"]
      BY <1>3, <1>5 DEF RecordDevicesText, Goto
    <2>2. QED
      BY <1>3, <1>4, <2>1 DEF DeviceInv, RankInv, HasDevice
  <1>6. ASSUME NEW r \in Ranks, Step(r), ~RecordDevicesText(r)
        PROVE  localDevice' = localDevice /\ (HasDevice(q)' => HasDevice(q))
    <2>1. localDevice' = localDevice
      BY <1>6 DEF Step, ParseOptions, RecordDevicesJson, Exchanged, SanityCheck, Expand,
                  NotFound, Waive, RunTestcase, FinishTestcase, Finalize, Return, Kill
    <2>2. CASE ParseOptions(r) \/ RecordDevicesJson(r) \/ Kill(r)
      <3>1. PICK label \in {"devices", "returned", "killed"} : pc' = [pc EXCEPT ![r] = label]
        BY <1>3, <2>2 DEF ParseOptions, RecordDevicesJson, Kill, Goto
      <3>2. QED
        BY <2>1, <3>1 DEF RankInv, HasDevice
    <2>3. CASE \/ Exchanged(r) \/ SanityCheck(r) \/ Expand(r) \/ NotFound(r) \/ Waive(r)
               \/ RunTestcase(r) \/ FinishTestcase(r) \/ Finalize(r) \/ Return(r)
      <3>1. HasDevice(r) /\ \E label : pc' = [pc EXCEPT ![r] = label] \/ pc' = pc
        BY <2>3 DEF Exchanged, SanityCheck, Expand, NotFound, Waive, RunTestcase, FinishTestcase,
                    Finalize, Return, Goto, HasDevice
      <3>2. QED
        BY <2>1, <3>1 DEF RankInv, HasDevice
    <2>4. QED
      BY <1>6, <2>2, <2>3 DEF Step
  <1>7. CASE UNCHANGED vars
    BY <1>3, <1>4, <1>7 DEF vars, HasDevice
  <1>8. QED
    BY <1>3, <1>4, <1>5, <1>6, <1>7 DEF Next, AllEnded

\* On every host with no fewer GPUs than ranks, the ranks take GPUs 0 to n - 1,
\* one each, however they are numbered in the job (README, Output::recordDevices).
THEOREM GpusAreConsecutive == Spec => []ConsecutiveGpus
  <1>1. Init => PlacedInv
    BY DEF Init, PlacedInv, HasDevice
  <1>2. RunInv /\ PlacedInv => ConsecutiveGpus
    <2> SUFFICES ASSUME RunInv, PlacedInv, NEW h \in Range(HostOf), ~json, WorldSize > 1,
                        Cardinality(OnHost(h)) <= gpus[h], \A r \in OnHost(h) : HasDevice(r)
                 PROVE  {localDevice[r] : r \in OnHost(h)} = 0 .. Cardinality(OnHost(h)) - 1
      BY DEF ConsecutiveGpus
    <2>1. ASSUME NEW r \in OnHost(h) PROVE localDevice[r] = LocalRank(r)
      <3>1. r \in Ranks /\ localDevice[r] = LocalRank(r) % gpus[h]
        BY DEF PlacedInv, OnHost, TakeDevice, DeviceCount
      <3>2. gpus[h] \in Nat \ {0} /\ LocalRank(r) \in Nat
        BY <3>1, DeviceCountType, LocalRankType DEF RunInv, DeviceCount, OnHost
      <3>3. LocalRank(r) < gpus[h]
        BY <3>2, LocalRankBound, RanksFinite
      <3>4. QED
        BY <3>1, <3>2, <3>3
    <2>2. {localDevice[r] : r \in OnHost(h)} = {LocalRank(r) : r \in OnHost(h)}
      BY <2>1
    <2>3. QED
      BY <2>2, LocalRanksAll
  <1>3. RunInv /\ PlacedInv /\ [Next]_vars => PlacedInv'
    BY PlacedStep DEF RunInv
  <1>4. QED
    BY <1>1, <1>2, <1>3, RunInductive, PTL DEF Spec

-------------------------------------------------------------------------------
(***************************************************************************)
(* The testcases a rank goes through.                                      *)
(***************************************************************************)
Ids == [by : {"name"}, key : Keys \union {"unknown"}] \union [by : {"index"}, index : Nat]

LEMMA TestcasesType ==
  ASSUME NEW r \in Ranks
  PROVE  Testcases(r) \in Seq(Keys)
  BY KeysAssumption DEF Testcases

HitAt(keys, n) == CHOOSE i \in Hits(keys) : HitNumber(keys, i) = n

\* The numbers of the hits are 1, 2, ... in the order of the hits.
LEMMA HitsAreNumbered ==
  ASSUME NEW keys \in Seq(Keys)
  PROVE  /\ Cardinality(Hits(keys)) \in Nat
         /\ \A i \in Hits(keys) : HitNumber(keys, i) \in 1 .. Cardinality(Hits(keys))
         /\ \A i, j \in Hits(keys) : i < j => HitNumber(keys, i) < HitNumber(keys, j)
         /\ \A n \in 1 .. Cardinality(Hits(keys)) : \E i \in Hits(keys) : HitNumber(keys, i) = n
  <1> DEFINE H == Hits(keys)
             c == Cardinality(H)
             UpTo(i) == {j \in H : j <= i}
             f == [i \in H |-> HitNumber(keys, i)]
  <1>1. DOMAIN keys = 1 .. Len(keys) /\ Len(keys) \in Nat
    OBVIOUS
  <1>2. H \subseteq Int /\ IsFiniteSet(H) /\ c \in Nat
    <2>1. IsFiniteSet(1 .. Len(keys))
      BY <1>1, FS_Interval
    <2>2. H \subseteq 1 .. Len(keys)
      BY <1>1 DEF Hits
    <2>3. IsFiniteSet(H)
      BY <2>1, <2>2, FS_Subset
    <2>4. QED
      BY <2>2, <2>3, FS_CardinalityType
  <1>3. \A i : HitNumber(keys, i) = Cardinality(UpTo(i))
    BY DEF HitNumber
  <1> HIDE DEF H
  <1>4. \A i \in H : IsFiniteSet(UpTo(i)) /\ Cardinality(UpTo(i)) \in 1 .. c
    <2> SUFFICES ASSUME NEW i \in H
                 PROVE  IsFiniteSet(UpTo(i)) /\ Cardinality(UpTo(i)) \in 1 .. c
      OBVIOUS
    <2>1. UpTo(i) \subseteq H /\ i \in UpTo(i)
      BY <1>2
    <2>2. IsFiniteSet(UpTo(i)) /\ Cardinality(UpTo(i)) <= c
      BY <1>2, <2>1, FS_Subset
    <2>3. Cardinality(UpTo(i)) \in Nat /\ Cardinality(UpTo(i)) # 0
      BY <2>1, <2>2, FS_CardinalityType, FS_EmptySet
    <2>4. QED
      BY <1>2, <2>2, <2>3
  <1>5. ASSUME NEW i \in H, NEW j \in H, i < j PROVE HitNumber(keys, i) < HitNumber(keys, j)
    <2>0. H \subseteq Int /\ i \in Int /\ j \in Int
      BY <1>2
    <2>1. UpTo(i) \subseteq UpTo(j) /\ j \in UpTo(j) /\ j \notin UpTo(i)
      <3>1. \A k \in H : k <= i => k <= j
        BY <2>0, <1>5
      <3>2. j \in UpTo(j) /\ j \notin UpTo(i)
        BY <2>0, <1>5
      <3>3. QED
        BY <3>1, <3>2
    <2>2. Cardinality(UpTo(i)) <= Cardinality(UpTo(j))
          /\ (Cardinality(UpTo(i)) = Cardinality(UpTo(j)) => UpTo(i) = UpTo(j))
      BY <1>4, <2>1, FS_Subset
    <2>3. Cardinality(UpTo(i)) \in Int /\ Cardinality(UpTo(j)) \in Int
      <3>1. 1 .. c \subseteq Int
        BY <1>2
      <3>2. QED
        BY <1>4, <3>1
    <2>4. QED
      BY <1>3, <2>1, <2>2, <2>3
  <1>6. f \in Injection(H, 1 .. c)
    <2>1. f \in [H -> 1 .. c]
      BY <1>3, <1>4
    <2>2. ASSUME NEW i \in H, NEW j \in H, f[i] = f[j] PROVE i = j
      <3>1. f[i] = HitNumber(keys, i) /\ f[j] = HitNumber(keys, j) /\ f[i] \in Int
        BY <1>2, <2>1
      <3>2. i \in Int /\ j \in Int /\ ~(i < j) /\ ~(j < i)
        BY <1>2, <1>5, <2>2, <3>1
      <3>3. QED
        BY <3>2
    <2>3. QED
      BY <2>1, <2>2 DEF Injection, IsInjective
  <1>7. f \in Surjection(H, 1 .. c)
    <2>1. IsFiniteSet(1 .. c) /\ Cardinality(1 .. c) = c
      <3> HIDE DEF c
      <3>1. IsFiniteSet(1 .. c) /\ Cardinality(1 .. c) = IF 1 > c THEN 0 ELSE c - 1 + 1
        BY <1>2, FS_Interval
      <3>2. QED
        BY <1>2, <3>1
    <2>2. QED
      BY <1>6, <2>1, FS_Injection
  <1>8. \A n \in 1 .. c : \E i \in H : f[i] = n
    BY <1>7 DEF Surjection
  <1>9. QED
    BY <1>2, <1>3, <1>4, <1>5, <1>8 DEF H

\* What is kept of a list are its hits, in their order.
LEMMA ExpandedHits ==
  ASSUME NEW keys \in Seq(Keys)
  PROVE  /\ Expanded(keys) \in Seq(Keys)
         /\ Len(Expanded(keys)) = Cardinality(Hits(keys))
         /\ \A n \in 1 .. Len(Expanded(keys)) :
              HitAt(keys, n) \in Hits(keys) /\ Expanded(keys)[n] = keys[HitAt(keys, n)]
         /\ \A m, n \in 1 .. Len(Expanded(keys)) : m < n => HitAt(keys, m) < HitAt(keys, n)
         /\ \A i \in Hits(keys) : \E n \in 1 .. Len(Expanded(keys)) : HitAt(keys, n) = i
  <1> DEFINE c == Cardinality(Hits(keys))
  <1>1. Hits(keys) \subseteq DOMAIN keys /\ DOMAIN keys \subseteq Int
    BY DEF Hits
  <1>2. \A n \in 1 .. c : HitAt(keys, n) \in Hits(keys) /\ HitNumber(keys, HitAt(keys, n)) = n
    BY HitsAreNumbered DEF HitAt
  <1>3. Expanded(keys) = [n \in 1 .. c |-> keys[HitAt(keys, n)]]
    BY DEF Expanded, HitAt
  <1>4. Expanded(keys) \in [1 .. c -> Keys] /\ c \in Nat
    BY <1>1, <1>2, <1>3, HitsAreNumbered
  <1>5. Expanded(keys) \in Seq(Keys) /\ Len(Expanded(keys)) = c
    BY <1>4
  <1>6. ASSUME NEW m \in 1 .. c, NEW n \in 1 .. c, m < n
        PROVE  HitAt(keys, m) < HitAt(keys, n)
    <2>1. /\ HitAt(keys, m) \in Hits(keys) /\ HitAt(keys, n) \in Hits(keys)
          /\ HitNumber(keys, HitAt(keys, m)) = m /\ HitNumber(keys, HitAt(keys, n)) = n
      BY <1>2
    <2>2. ~(HitAt(keys, n) < HitAt(keys, m)) /\ HitAt(keys, n) # HitAt(keys, m)
      BY <1>4, <1>6, <2>1, HitsAreNumbered
    <2>3. QED
      BY <1>1, <2>1, <2>2
  <1>7. ASSUME NEW i \in Hits(keys) PROVE \E n \in 1 .. c : HitAt(keys, n) = i
    <2> DEFINE n == HitNumber(keys, i)
               j == HitAt(keys, n)
    <2>1. n \in 1 .. c /\ j \in Hits(keys) /\ HitNumber(keys, j) = n
      BY <1>2, HitsAreNumbered
    <2>2. ~(i < j) /\ ~(j < i)
      BY <1>4, <2>1, HitsAreNumbered
    <2>3. QED
      BY <1>1, <2>1, <2>2
  <1>8. QED
    BY <1>2, <1>3, <1>4, <1>5, <1>6, <1>7

LEMMA ByIdType ==
  ASSUME NEW keys \in Seq(Keys)
  PROVE  /\ ById(keys) \in Seq(Ids) /\ Len(ById(keys)) = Len(keys)
         /\ \A n \in 1 .. Len(keys) : ById(keys)[n] = Name(keys[n])
  <1>1. keys \in [1 .. Len(keys) -> Keys] /\ Len(keys) \in Nat /\ DOMAIN keys = 1 .. Len(keys)
    OBVIOUS
  <1>2. ById(keys) = [i \in 1 .. Len(keys) |-> Name(keys[i])]
    BY <1>1 DEF ById
  <1>3. \A k \in Keys : Name(k) \in Ids
    BY DEF Name, Ids
  <1>4. ById(keys) \in [1 .. Len(keys) -> Ids]
    BY <1>1, <1>2, <1>3
  <1>5. QED
    BY <1>1, <1>2, <1>4

LEMMA ToRunType ==
  ASSUME request \in Request, NEW r \in Ranks
  PROVE  /\ TestcasesToRun(r) \in Seq(Ids)
         /\ Len(TestcasesToRun(r)) \in Nat
  <1>1. request.kind = "ids" => request.ids \in Seq(Ids)
    BY DEF Request, Ids
  <1>2. Expanded(Testcases(r)) \in Seq(Keys)
    BY TestcasesType, ExpandedHits
  <1>3. ById(Testcases(r)) \in Seq(Ids) /\ ById(Expanded(Testcases(r))) \in Seq(Ids)
    BY <1>2, TestcasesType, ByIdType
  <1>4. TestcasesToRun(r) \in Seq(Ids)
    BY <1>1, <1>3 DEF TestcasesToRun
  <1>5. QED
    BY <1>4

-------------------------------------------------------------------------------
(***************************************************************************)
(* Collective calls.  A place is a position in what all ranks share of     *)
(* their lists: the ids of the command line, or the multinode testcases,   *)
(* before which rank 0 has its own.                                        *)
(***************************************************************************)
ByName == request.kind = "ids" => \A i \in DOMAIN request.ids : request.ids[i].by = "name"

Own(r) == IF r = 0 /\ LocalRank(r) = 0 THEN BaseTests ELSE <<>>
\* The place before the first one of rank 0, and the last place.
First == 0 - Len(BaseTests)
Rear == IF request.kind = "ids" THEN Len(request.ids) ELSE Len(MultiTests)

\* The collective call of a testcase, or NoTest.
CallOf(key) == IF key \in Range(MultiTests) \ waived THEN key ELSE NoTest

\* The collective call at a place: the exchange of the devices, those of the
\* multinode testcases and MPI_Finalize.
CallAt(i) ==
  IF i = First - 1 THEN IF json THEN NoTest ELSE "devices"
  ELSE IF i = Rear + 1 THEN "finalize"
  ELSE IF i \notin 1 .. Rear THEN NoTest
  ELSE IF request.kind = "ids" THEN CallOf(request.ids[i].key)
  ELSE IF request.kind = "prefixes" /\ MultiTests[i] \notin request.matched THEN NoTest
  ELSE CallOf(MultiTests[i])

\* The place of the n-th testcase of rank r.
PlaceOf(r, n) ==
  CASE request.kind = "ids"      -> n
    [] request.kind = "prefixes" -> HitAt(Testcases(r), n) - Len(Own(r))
    [] OTHER                     -> n - Len(Own(r))

\* A testcase of rank r is its own or one that all ranks share.
LEMMA TestcasesSplit ==
  ASSUME WorldSize > 1, NEW r \in Ranks
  PROVE  /\ Len(Own(r)) \in Nat /\ Len(Own(r)) <= Len(BaseTests) /\ Len(BaseTests) \in Nat
         /\ Len(MultiTests) \in Nat
         /\ Len(Testcases(r)) = Len(Own(r)) + Len(MultiTests)
         /\ \A n \in 1 .. Len(Testcases(r)) :
              IF n <= Len(Own(r))
              THEN Testcases(r)[n] \in Range(BaseTests)
              ELSE /\ n - Len(Own(r)) \in 1 .. Len(MultiTests)
                   /\ Testcases(r)[n] = MultiTests[n - Len(Own(r))]
         /\ \A i \in 1 .. Len(MultiTests) :
              /\ Len(Own(r)) + i \in 1 .. Len(Testcases(r))
              /\ Testcases(r)[Len(Own(r)) + i] = MultiTests[i]
         /\ Range(Testcases(r)) = Range(Own(r)) \union Range(MultiTests)
         /\ Range(Own(r)) \subseteq Range(BaseTests)
  <1>1. BaseTests \in Seq(Keys) /\ MultiTests \in Seq(Keys) /\ Own(r) \in Seq(Keys)
    BY KeysAssumption DEF Own
  <1>2. Testcases(r) = Own(r) \o MultiTests
    BY DEF Testcases, Own
  <1>3. /\ Len(Own(r)) \in Nat /\ Len(Own(r)) <= Len(BaseTests) /\ Len(BaseTests) \in Nat
        /\ Len(MultiTests) \in Nat
    BY <1>1 DEF Own
  <1>4. /\ Len(Testcases(r)) = Len(Own(r)) + Len(MultiTests)
        /\ \A n \in 1 .. Len(Testcases(r)) :
             Testcases(r)[n] = IF n <= Len(Own(r)) THEN Own(r)[n] ELSE MultiTests[n - Len(Own(r))]
    BY <1>1, <1>2
  <1>5. Range(Own(r)) \subseteq Range(BaseTests)
    BY <1>1 DEF Own, Range
  <1>6. \A n \in 1 .. Len(Own(r)) : Own(r)[n] \in Range(BaseTests)
    <2>1. DOMAIN Own(r) = 1 .. Len(Own(r))
      BY <1>1
    <2>2. \A n \in DOMAIN Own(r) : Own(r)[n] \in Range(Own(r))
      BY DEF Range
    <2>3. QED
      BY <1>5, <2>1, <2>2
  <1>7. \A n \in 1 .. Len(Testcases(r)) :
          IF n <= Len(Own(r))
          THEN Testcases(r)[n] \in Range(BaseTests)
          ELSE /\ n - Len(Own(r)) \in 1 .. Len(MultiTests)
               /\ Testcases(r)[n] = MultiTests[n - Len(Own(r))]
    BY <1>3, <1>4, <1>6
  <1>8. \A i \in 1 .. Len(MultiTests) :
          /\ Len(Own(r)) + i \in 1 .. Len(Testcases(r))
          /\ Testcases(r)[Len(Own(r)) + i] = MultiTests[i]
    BY <1>3, <1>4
  <1>9. Range(Testcases(r)) = Range(Own(r)) \union Range(MultiTests)
    <2>1. /\ Testcases(r) \in Seq(Keys)
          /\ DOMAIN Testcases(r) = 1 .. Len(Testcases(r))
          /\ DOMAIN Own(r) = 1 .. Len(Own(r)) /\ DOMAIN MultiTests = 1 .. Len(MultiTests)
      BY <1>1, <1>2
    <2>2. ASSUME NEW n \in DOMAIN Testcases(r)
          PROVE  Testcases(r)[n] \in Range(Own(r)) \union Range(MultiTests)
      <3>1. CASE n <= Len(Own(r))
        BY <1>3, <1>4, <2>1, <3>1 DEF Range
      <3>2. CASE ~(n <= Len(Own(r)))
        BY <1>7, <2>1, <3>2 DEF Range
      <3>3. QED
        BY <3>1, <3>2
    <2>3. ASSUME NEW n \in DOMAIN Own(r) PROVE Own(r)[n] \in Range(Testcases(r))
      <3>1. n \in DOMAIN Testcases(r) /\ Testcases(r)[n] = Own(r)[n]
        BY <1>3, <1>4, <2>1
      <3>2. QED
        BY <3>1 DEF Range
    <2>4. ASSUME NEW n \in DOMAIN MultiTests PROVE MultiTests[n] \in Range(Testcases(r))
      BY <1>8, <2>1 DEF Range
    <2>5. QED
      BY <2>2, <2>3, <2>4 DEF Range
  <1>10. QED
    BY <1>3, <1>4, <1>5, <1>7, <1>8, <1>9

\* The testcases of a rank are at growing places, with the calls of these
\* places, and there are no calls in between.
LEMMA Itinerary ==
  ASSUME WorldSize > 1, request \in Request, ByName, waived \subseteq Keys, NEW r \in Ranks
  PROVE  /\ \A n \in 1 .. Len(TestcasesToRun(r)) :
              /\ PlaceOf(r, n) \in First + 1 .. Rear
              /\ TestcasesToRun(r)[n].by = "name"
              /\ CallAt(PlaceOf(r, n)) = CallOf(TestcasesToRun(r)[n].key)
         /\ \A m, n \in 1 .. Len(TestcasesToRun(r)) : m < n => PlaceOf(r, m) < PlaceOf(r, n)
         /\ \A i \in 1 .. Rear : CallAt(i) # NoTest =>
              \E n \in 1 .. Len(TestcasesToRun(r)) : PlaceOf(r, n) = i
  <1> DEFINE t == TestcasesToRun(r)
             s == Testcases(r)
             own == Len(Own(r))
  <1>1. Len(BaseTests) \in Nat /\ Len(MultiTests) \in Nat /\ own \in Nat /\ own <= Len(BaseTests)
    BY TestcasesSplit
  <1>2. s \in Seq(Keys)
    BY TestcasesType
  \* The n-th testcase of the whole list, at its place.
  <1>3. ASSUME request.kind # "ids", NEW n \in 1 .. Len(s),
               request.kind = "prefixes" => s[n] \in request.matched
        PROVE  /\ n - own \in First + 1 .. Rear
               /\ Name(s[n]).by = "name" /\ CallAt(n - own) = CallOf(Name(s[n]).key)
    <2>1. Len(s) = own + Len(MultiTests)
      BY TestcasesSplit
    <2>2. n - own \in First + 1 .. Rear
      BY <1>1, <1>3, <2>1 DEF First, Rear
    <2>3. Name(s[n]).by = "name" /\ Name(s[n]).key = s[n]
      BY DEF Name
    <2>4. CASE n <= own
      <3>1. s[n] \in Range(BaseTests)
        BY <2>4, TestcasesSplit
      <3>2. CallOf(s[n]) = NoTest
        BY <3>1, KeysAssumption DEF CallOf
      <3>3. /\ n - own \in Int /\ n - own <= 0 /\ n - own >= First + 1 /\ Rear >= 0 /\ Rear \in Int
            /\ First \in Int
        BY <1>1, <1>3, <2>2, <2>4 DEF First, Rear
      <3>4. CallAt(n - own) = NoTest
        BY <3>3 DEF CallAt
      <3>5. QED
        BY <2>2, <2>3, <3>2, <3>4
    <2>5. CASE ~(n <= own)
      <3>1. n - own \in 1 .. Len(MultiTests) /\ s[n] = MultiTests[n - own]
        BY <2>5, TestcasesSplit
      <3>2. CallAt(n - own) = CallOf(s[n])
        BY <1>1, <1>3, <3>1 DEF CallAt, First, Rear
      <3>3. QED
        BY <2>2, <2>3, <3>2
    <2>6. QED
      BY <2>4, <2>5
  <1>4. CASE request.kind = "ids"
    <2>1. t = request.ids /\ request.ids \in Seq(Ids) /\ \A n : PlaceOf(r, n) = n
      BY <1>4 DEF TestcasesToRun, PlaceOf, Request, Ids
    <2>2. DOMAIN t = 1 .. Len(t) /\ Len(t) \in Nat /\ Rear = Len(t)
      BY <1>4, <2>1 DEF Rear
    <2>3. \A n \in 1 .. Len(t) : t[n].by = "name"
      BY <1>4, <2>1, <2>2 DEF ByName
    <2>4. \A n \in 1 .. Len(t) : n \in First + 1 .. Rear /\ CallAt(n) = CallOf(t[n].key)
      BY <1>1, <1>4, <2>1, <2>2 DEF CallAt, First
    <2>5. QED
      BY <2>1, <2>2, <2>3, <2>4
  <1>5. CASE request.kind = "prefixes"
    <2> DEFINE e == Expanded(s)
    <2>1. /\ t = ById(e) /\ Rear = Len(MultiTests)
          /\ \A n : PlaceOf(r, n) = HitAt(s, n) - own
      BY <1>5 DEF TestcasesToRun, PlaceOf, Rear
    <2>2. /\ e \in Seq(Keys)
          /\ \A n \in 1 .. Len(e) : HitAt(s, n) \in Hits(s) /\ e[n] = s[HitAt(s, n)]
          /\ \A m, n \in 1 .. Len(e) : m < n => HitAt(s, m) < HitAt(s, n)
          /\ \A i \in Hits(s) : \E n \in 1 .. Len(e) : HitAt(s, n) = i
      BY <1>2, ExpandedHits
    <2>3. Len(t) = Len(e) /\ \A n \in 1 .. Len(e) : t[n] = Name(e[n])
      BY <2>1, <2>2, ByIdType
    <2>4. Hits(s) = {i \in 1 .. Len(s) : s[i] \in request.matched} /\ Len(s) \in Nat
      BY <1>2 DEF Hits
    <2>5. \A n \in 1 .. Len(e) : HitAt(s, n) \in 1 .. Len(s) /\ s[HitAt(s, n)] \in request.matched
      BY <2>2, <2>4
    <2>6. \A n \in 1 .. Len(t) :
              /\ PlaceOf(r, n) \in First + 1 .. Rear
              /\ t[n].by = "name"
              /\ CallAt(PlaceOf(r, n)) = CallOf(t[n].key)
      BY <1>3, <1>5, <2>1, <2>2, <2>3, <2>5
    <2>7. ASSUME NEW m \in 1 .. Len(t), NEW n \in 1 .. Len(t), m < n
          PROVE  PlaceOf(r, m) < PlaceOf(r, n)
      <3>1. HitAt(s, m) < HitAt(s, n) /\ HitAt(s, m) \in Int /\ HitAt(s, n) \in Int
        <4>1. m \in 1 .. Len(e) /\ n \in 1 .. Len(e)
          BY <2>3
        <4>2. HitAt(s, m) \in 1 .. Len(s) /\ HitAt(s, n) \in 1 .. Len(s)
          BY <2>5, <4>1
        <4>3. HitAt(s, m) < HitAt(s, n)
          BY <2>2, <2>7, <4>1
        <4>4. QED
          BY <2>4, <4>2, <4>3
      <3>2. QED
        BY <1>1, <2>1, <3>1
    <2>8. ASSUME NEW i \in 1 .. Rear, CallAt(i) # NoTest
          PROVE  \E n \in 1 .. Len(t) : PlaceOf(r, n) = i
      <3>1. /\ own + i \in 1 .. Len(s) /\ s[own + i] = MultiTests[i]
        BY <2>1, TestcasesSplit
      <3>2. MultiTests[i] \in request.matched
        BY <1>1, <1>5, <2>1, <2>8 DEF CallAt, First
      <3>3. own + i \in Hits(s)
        BY <2>4, <3>1, <3>2
      <3>4. PICK n \in 1 .. Len(e) : HitAt(s, n) = own + i
        BY <2>2, <3>3
      <3>5. PlaceOf(r, n) = i
        BY <1>1, <2>1, <3>4
      <3>6. QED
        BY <2>3, <3>5
    <2>9. QED
      BY <2>6, <2>7, <2>8
  <1>6. CASE request.kind \notin {"ids", "prefixes"}
    <2>1. t = ById(s) /\ Rear = Len(MultiTests) /\ \A n : PlaceOf(r, n) = n - own
      BY <1>6 DEF TestcasesToRun, PlaceOf, Rear
    <2>2. Len(t) = Len(s) /\ Len(s) \in Nat /\ \A n \in 1 .. Len(s) : t[n] = Name(s[n])
      BY <1>2, <2>1, ByIdType
    <2>3. \A n \in 1 .. Len(t) :
              /\ PlaceOf(r, n) \in First + 1 .. Rear
              /\ t[n].by = "name"
              /\ CallAt(PlaceOf(r, n)) = CallOf(t[n].key)
      BY <1>3, <1>6, <2>1, <2>2
    <2>4. \A m, n \in 1 .. Len(t) : m < n => PlaceOf(r, m) < PlaceOf(r, n)
      BY <1>1, <2>1, <2>2
    <2>5. ASSUME NEW i \in 1 .. Rear PROVE \E n \in 1 .. Len(t) : PlaceOf(r, n) = i
      <3>1. own + i \in 1 .. Len(t)
        BY <2>1, <2>2, TestcasesSplit
      <3>2. PlaceOf(r, own + i) = i
        BY <1>1, <2>1
      <3>3. QED
        BY <3>1, <3>2
    <2>6. QED
      BY <2>3, <2>4, <2>5
  <1>7. QED
    BY <1>4, <1>5, <1>6

-------------------------------------------------------------------------------
(***************************************************************************)
(* Where the ranks are: c are their calls, at their places, call the calls *)
(* of the places.  Ranks that have entered as many calls have passed the   *)
(* same ones; a rank is ahead of another one by a call at most, the next    *)
(* one of the other.                                                       *)
(***************************************************************************)
Level(call, i, k) == \A j \in Int : call[j] # NoTest => (j <= i <=> j <= k)
NextCall(call, i, k) ==
  /\ i < k /\ call[k] # NoTest
  /\ \A j \in Int : call[j] # NoTest /\ j < k => j <= i

InStep(c, at, call) ==
  \A r, q \in Ranks :
    /\ \A n \in Nat : 1 <= n /\ n <= Len(c[r]) /\ n <= Len(c[q]) => c[r][n] = c[q][n]
    /\ Len(c[r]) = Len(c[q]) => Level(call, at[r], at[q])
    /\ Len(c[r]) < Len(c[q]) =>
         /\ Len(c[q]) = Len(c[r]) + 1
         /\ NextCall(call, at[r], at[q])
         /\ c[q][Len(c[q])] = call[at[q]]

\* A rank that no other one is behind may go on to its next call.
LEMMA MoveWithoutCall ==
  ASSUME NEW c \in [Ranks -> Seq(Calls)], NEW at \in [Ranks -> Int], NEW call,
         InStep(c, at, call), NEW r \in Ranks, NEW k \in Int,
         \A q \in Ranks : Len(c[q]) >= Len(c[r]),
         at[r] <= k, \A j \in Int : call[j] # NoTest => ~(at[r] < j /\ j <= k)
  PROVE  InStep(c, [at EXCEPT ![r] = k], call)
  <1> DEFINE to == [at EXCEPT ![r] = k]
  <1>1. /\ to[r] = k /\ \A q \in Ranks : q # r => to[q] = at[q]
        /\ \A q \in Ranks : at[q] \in Int /\ Len(c[q]) \in Nat
    OBVIOUS
  <1>2. \A j \in Int : call[j] # NoTest => (j <= k <=> j <= at[r])
    BY <1>1
  <1> HIDE DEF to
  <1>3. ASSUME NEW q \in Ranks, q # r
        PROVE  /\ Len(c[r]) = Len(c[q]) => Level(call, to[r], to[q]) /\ Level(call, to[q], to[r])
               /\ Len(c[r]) < Len(c[q]) => NextCall(call, to[r], to[q]) /\ to[q] = at[q]
    <2>1. CASE Len(c[r]) = Len(c[q])
      <3>1. Level(call, at[r], at[q])
        BY <2>1 DEF InStep
      <3>2. QED
        BY <1>1, <1>2, <1>3, <2>1, <3>1 DEF Level
    <2>2. CASE Len(c[r]) < Len(c[q])
      <3>1. NextCall(call, at[r], at[q])
        BY <2>2 DEF InStep
      <3>2. k < at[q]
        BY <1>1, <3>1 DEF NextCall
      <3>3. QED
        BY <1>1, <1>2, <1>3, <2>2, <3>1, <3>2 DEF NextCall
    <2>3. QED
      BY <1>1, <2>1, <2>2
  <1>4. Level(call, to[r], to[r])
    BY DEF Level
  <1>5. SUFFICES ASSUME NEW p \in Ranks, NEW q \in Ranks
                 PROVE  /\ Len(c[p]) = Len(c[q]) => Level(call, to[p], to[q])
                        /\ Len(c[p]) < Len(c[q]) =>
                             /\ NextCall(call, to[p], to[q])
                             /\ to[q] = at[q]
    BY DEF InStep, to
  <1>6. CASE p = r
    BY <1>1, <1>3, <1>4, <1>6
  <1>7. CASE p # r /\ q = r
    BY <1>1, <1>3, <1>7
  <1>8. CASE p # r /\ q # r
    BY <1>1, <1>8 DEF InStep
  <1>9. QED
    BY <1>6, <1>7, <1>8

\* The call it enters is the one that those ahead of it have entered.
LEMMA MoveWithCall ==
  ASSUME NEW c \in [Ranks -> Seq(Calls)], NEW at \in [Ranks -> Int], NEW call,
         InStep(c, at, call), NEW r \in Ranks, NEW k \in Int,
         \A q \in Ranks : Len(c[q]) >= Len(c[r]),
         NextCall(call, at[r], k), call[k] \in Calls
  PROVE  InStep([c EXCEPT ![r] = Append(@, call[k])], [at EXCEPT ![r] = k], call)
  <1> DEFINE to == [at EXCEPT ![r] = k]
             d == [c EXCEPT ![r] = Append(@, call[k])]
             n == Len(c[r])
  <1>1. /\ to[r] = k /\ \A q \in Ranks : q # r => to[q] = at[q] /\ d[q] = c[q]
        /\ \A q \in Ranks : at[q] \in Int /\ Len(c[q]) \in Nat
        /\ n \in Nat /\ Len(d[r]) = n + 1 /\ d[r][n + 1] = call[k]
        /\ \A m \in Nat : 1 <= m /\ m <= n => d[r][m] = c[r][m]
    OBVIOUS
  <1> HIDE DEF to, d, n
  <1>2. ASSUME NEW q \in Ranks, q # r, Len(c[q]) = n
        PROVE  NextCall(call, to[q], to[r])
    <2>1. Level(call, at[r], at[q])
      BY <1>2 DEF InStep, n
    <2>2. at[q] < k
      BY <1>1, <2>1 DEF Level, NextCall
    <2>3. QED
      BY <1>1, <1>2, <2>1, <2>2 DEF Level, NextCall
  <1>3. ASSUME NEW q \in Ranks, q # r, Len(c[q]) > n
        PROVE  /\ Len(c[q]) = n + 1 /\ at[q] = k /\ c[q][n + 1] = call[k]
    <2>1. /\ NextCall(call, at[r], at[q]) /\ Len(c[q]) = n + 1 /\ c[q][n + 1] = call[at[q]]
      BY <1>1, <1>3 DEF InStep, n
    <2>2. at[q] = k
      BY <1>1, <2>1 DEF NextCall
    <2>3. QED
      BY <2>1, <2>2
  <1>4. ASSUME NEW q \in Ranks, q # r
        PROVE  /\ \A m \in Nat : 1 <= m /\ m <= Len(d[r]) /\ m <= Len(d[q]) => d[r][m] = d[q][m]
               /\ Len(d[r]) = Len(d[q]) => to[r] = to[q]
               /\ ~(Len(d[r]) < Len(d[q]))
               /\ Len(d[q]) < Len(d[r]) =>
                    Len(d[r]) = Len(d[q]) + 1 /\ NextCall(call, to[q], to[r])
    <2>1. \A m \in Nat : 1 <= m /\ m <= n /\ m <= Len(c[q]) => c[r][m] = c[q][m]
      BY DEF InStep, n
    <2> DEFINE l == Len(c[q])
    <2>2. d[q] = c[q] /\ to[q] = at[q] /\ l \in Nat /\ l >= n
      BY <1>1, <1>4 DEF n
    <2> HIDE DEF l
    <2>3. CASE l = n
      <3>1. NextCall(call, to[q], to[r])
        BY <1>2, <1>4, <2>3 DEF l
      <3>2. \A m \in Nat : 1 <= m /\ m <= l => d[r][m] = d[q][m]
        BY <1>1, <2>1, <2>2, <2>3 DEF l
      <3>3. QED
        BY <1>1, <2>2, <2>3, <3>1, <3>2 DEF l
    <2>4. CASE l > n
      <3>1. l = n + 1 /\ at[q] = k /\ c[q][n + 1] = call[k]
        BY <1>3, <1>4, <2>4 DEF l
      <3>2. \A m \in Nat : 1 <= m /\ m <= n => d[r][m] = d[q][m]
        BY <1>1, <2>1, <2>2, <2>4 DEF l
      <3>3. \A m \in Nat : 1 <= m /\ m <= n + 1 => d[r][m] = d[q][m]
        BY <1>1, <2>2, <3>1, <3>2
      <3>4. QED
        BY <1>1, <2>2, <3>1, <3>3 DEF l
    <2>5. QED
      BY <1>1, <2>2, <2>3, <2>4
  <1>5. \A i : Level(call, i, i)
    BY DEF Level
  <1>6. SUFFICES ASSUME NEW p \in Ranks, NEW q \in Ranks
                 PROVE  /\ \A m \in Nat : 1 <= m /\ m <= Len(d[p]) /\ m <= Len(d[q]) => d[p][m] = d[q][m]
                        /\ Len(d[p]) = Len(d[q]) => Level(call, to[p], to[q])
                        /\ Len(d[p]) < Len(d[q]) =>
                             /\ Len(d[q]) = Len(d[p]) + 1
                             /\ NextCall(call, to[p], to[q])
                             /\ d[q][Len(d[q])] = call[to[q]]
    BY DEF InStep, d, to
  <1>7. CASE p = r /\ q = r
    BY <1>1, <1>5, <1>7
  <1>8. CASE p = r /\ q # r
    BY <1>1, <1>4, <1>5, <1>8
  <1>9. CASE p # r /\ q = r
    BY <1>1, <1>4, <1>5, <1>9
  <1>10. CASE p # r /\ q # r
    <2>1. d[p] = c[p] /\ d[q] = c[q] /\ to[p] = at[p] /\ to[q] = at[q]
      BY <1>1, <1>10
    <2>2. QED
      BY <2>1 DEF InStep
  <1>11. QED
    BY <1>7, <1>8, <1>9, <1>10

\* The place of a rank that is through with d of its testcases, and the calls
\* before the next ones.
Place(r, d) == IF d = 0 THEN First ELSE PlaceOf(r, d)
CallPlaces == [i \in Int |-> CallAt(i)]

LEMMA PlacesGrow ==
  ASSUME WorldSize > 1, request \in Request, ByName, waived \subseteq Keys, NEW r \in Ranks
  PROVE  /\ First \in Int /\ Rear \in Nat /\ First <= 0
         /\ \A d \in 0 .. Len(TestcasesToRun(r)) : Place(r, d) \in First .. Rear
         /\ \A d \in 0 .. Len(TestcasesToRun(r)) - 1 :
              /\ Place(r, d) < Place(r, d + 1)
              /\ \A j \in Int : CallPlaces[j] # NoTest /\ j < Place(r, d + 1) => j <= Place(r, d)
         /\ \A j \in Int : CallPlaces[j] # NoTest /\ j < Rear + 1 =>
              j <= Place(r, Len(TestcasesToRun(r)))
  <1> DEFINE T == Len(TestcasesToRun(r))
  <1>1. First \in Int /\ Rear \in Nat /\ First <= 0 /\ T \in Nat
    <2>1. Len(BaseTests) \in Nat /\ Len(MultiTests) \in Nat
      BY TestcasesSplit
    <2>2. request.kind = "ids" => Len(request.ids) \in Nat
      <3>1. request.kind = "ids" => request.ids \in Seq(Ids)
        BY DEF Request, Ids
      <3>2. QED
        BY <3>1
    <2>3. QED
      BY <2>1, <2>2, ToRunType DEF First, Rear
  <1>2. /\ \A n \in 1 .. T : PlaceOf(r, n) \in First + 1 .. Rear
        /\ \A m, n \in 1 .. T : m < n => PlaceOf(r, m) < PlaceOf(r, n)
        /\ \A i \in 1 .. Rear : CallAt(i) # NoTest => \E n \in 1 .. T : PlaceOf(r, n) = i
    BY Itinerary
  <1>3. \A j \in Int : CallPlaces[j] # NoTest =>
          j = First - 1 \/ j = Rear + 1 \/ (j \in 1 .. Rear /\ CallAt(j) # NoTest)
    BY DEF CallPlaces, CallAt
  <1> HIDE DEF T
  <1>4. ASSUME NEW d \in 0 .. T PROVE Place(r, d) \in First .. Rear
    BY <1>1, <1>2, <1>4 DEF Place
  <1>5. ASSUME NEW d \in 0 .. T - 1 PROVE Place(r, d) < Place(r, d + 1)
    <2>1. d + 1 \in 1 .. T /\ Place(r, d + 1) = PlaceOf(r, d + 1)
      BY <1>1, <1>5 DEF Place
    <2>2. CASE d = 0
      BY <1>1, <1>2, <2>1, <2>2 DEF Place
    <2>3. CASE d # 0
      <3>1. d \in 1 .. T /\ d < d + 1 /\ Place(r, d) = PlaceOf(r, d)
        BY <1>1, <1>5, <2>3 DEF Place
      <3>2. QED
        BY <1>2, <2>1, <3>1
    <2>4. QED
      BY <2>2, <2>3
  \* A testcase after the first d is not before the place of the (d + 1)-th.
  <1>6. ASSUME NEW d \in 0 .. T, NEW n \in 1 .. T, PlaceOf(r, n) > Place(r, d) PROVE n > d
    <2>1. CASE n = d
      BY <1>1, <1>2, <1>6, <2>1 DEF Place
    <2>2. CASE n < d
      <3>1. d \in 1 .. T /\ Place(r, d) = PlaceOf(r, d)
        BY <1>1, <2>2 DEF Place
      <3>2. /\ PlaceOf(r, n) < PlaceOf(r, d)
            /\ PlaceOf(r, n) \in First + 1 .. Rear /\ PlaceOf(r, d) \in First + 1 .. Rear
        BY <1>2, <2>2, <3>1
      <3>3. QED
        BY <1>1, <1>6, <3>1, <3>2
    <2>3. QED
      BY <1>1, <2>1, <2>2
  <1>7. ASSUME NEW d \in 0 .. T - 1, NEW j \in Int, CallPlaces[j] # NoTest, j < Place(r, d + 1)
        PROVE  j <= Place(r, d)
    <2>1. d \in 0 .. T /\ d + 1 \in 0 .. T /\ d + 1 \in 1 .. T /\ Place(r, d + 1) = PlaceOf(r, d + 1)
      BY <1>1 DEF Place
    <2>2. Place(r, d) \in First .. Rear /\ Place(r, d + 1) \in First .. Rear
      BY <1>4, <2>1
    <2>3. CASE j = First - 1
      BY <1>1, <2>2, <2>3
    <2>4. CASE j = Rear + 1
      BY <1>1, <1>7, <2>2, <2>4
    <2>5. CASE j \in 1 .. Rear /\ CallAt(j) # NoTest
      <3>1. PICK n \in 1 .. T : PlaceOf(r, n) = j
        BY <1>2, <2>5
      <3> SUFFICES ASSUME j > Place(r, d) PROVE FALSE
        BY <1>1, <2>2
      <3>2. n > d
        BY <1>6, <2>1, <3>1
      <3>3. CASE n = d + 1
        BY <1>1, <1>7, <2>1, <3>1, <3>3
      <3>4. CASE n > d + 1
        <4>1. PlaceOf(r, d + 1) < j
          BY <1>2, <2>1, <3>1, <3>4
        <4>2. QED
          BY <1>1, <1>7, <2>1, <2>2, <4>1
      <3>5. QED
        BY <1>1, <2>1, <3>2, <3>3, <3>4
    <2>6. QED
      BY <1>3, <1>7, <2>3, <2>4, <2>5
  <1>8. ASSUME NEW j \in Int, CallPlaces[j] # NoTest, j < Rear + 1 PROVE j <= Place(r, T)
    <2>1. T \in 0 .. T /\ Place(r, T) \in First .. Rear
      BY <1>1, <1>4
    <2>2. CASE j = First - 1
      BY <1>1, <2>1, <2>2
    <2>3. CASE j \in 1 .. Rear /\ CallAt(j) # NoTest
      <3>1. PICK n \in 1 .. T : PlaceOf(r, n) = j
        BY <1>2, <2>3
      <3> SUFFICES ASSUME j > Place(r, T) PROVE FALSE
        BY <1>1, <2>1
      <3>2. n > T
        BY <1>6, <2>1, <3>1
      <3>3. QED
        BY <1>1, <3>1, <3>2
    <2>4. QED
      BY <1>1, <1>3, <1>8, <2>2, <2>3
  <1>9. QED
    BY <1>1, <1>4, <1>5, <1>7, <1>8 DEF T

-------------------------------------------------------------------------------
(***************************************************************************)
(* What a rank has left to run.                                            *)
(***************************************************************************)
InputsInv == request \in Request /\ json \in BOOLEAN /\ waived \subseteq Keys

Remaining(s, t) ==
  Len(s) <= Len(t) /\ \A j \in 1 .. Len(s) : s[j] = t[Len(t) - Len(s) + j]

Done(r) == Len(TestcasesToRun(r)) - Len(todo[r])

TodoInv ==
  /\ todo \in [Ranks -> Seq(Ids)]
  /\ \A r \in Ranks : pc[r] \in {"loop", "testcase", "finalize", "done"} =>
       /\ Remaining(todo[r], TestcasesToRun(r))
       /\ pc[r] \in {"finalize", "done"} => todo[r] = <<>>
       /\ pc[r] = "testcase" =>
            /\ Done(r) \in 1 .. Len(TestcasesToRun(r))
            /\ current[r] = FindTestcase(r, TestcasesToRun(r)[Done(r)])
            /\ current[r] \in Keys \ waived

LEMMA InputsStay ==
  ASSUME [Next]_vars
  PROVE  /\ UNCHANGED inputs
         /\ \A r : TestcasesToRun(r)' = TestcasesToRun(r)
         /\ InputsInv => InputsInv'
  <1>1. UNCHANGED inputs
    BY DEF Next, Step, AllEnded, vars, ParseOptions, RecordDevicesText, RecordDevicesJson,
           Exchanged, SanityCheck, Expand, NotFound, Waive, RunTestcase, FinishTestcase,
           Finalize, Return, Kill
  <1>2. UNCHANGED <<request, json, waived>>
    BY <1>1 DEF inputs
  <1>3. \A r : TestcasesToRun(r)' = TestcasesToRun(r)
    BY <1>2 DEF TestcasesToRun, Expanded, Hits, HitNumber
  <1>4. QED
    BY <1>1, <1>2, <1>3 DEF InputsInv

LEMMA TailRemains ==
  ASSUME NEW s \in Seq(Ids), NEW t \in Seq(Ids), Remaining(s, t), s # <<>>
  PROVE  /\ Head(s) = t[Len(t) - Len(s) + 1] /\ Head(s) \in Ids
         /\ Tail(s) \in Seq(Ids) /\ Remaining(Tail(s), t)
         /\ Len(t) - Len(Tail(s)) = Len(t) - Len(s) + 1
         /\ Len(t) - Len(s) \in 0 .. Len(t) - 1
  <1>1. /\ Len(s) \in Nat /\ Len(t) \in Nat /\ Len(s) >= 1 /\ Len(s) <= Len(t)
        /\ \A j \in 1 .. Len(s) : s[j] = t[Len(t) - Len(s) + j]
    BY DEF Remaining
  <1>2. /\ Tail(s) \in Seq(Ids) /\ Len(Tail(s)) = Len(s) - 1 /\ Head(s) = s[1] /\ Head(s) \in Ids
        /\ \A j \in 1 .. Len(s) - 1 : Tail(s)[j] = s[j + 1]
    BY <1>1
  <1>3. Remaining(Tail(s), t)
    BY <1>1, <1>2 DEF Remaining
  <1>4. QED
    BY <1>1, <1>2, <1>3

\* runTestcase takes the next testcase of the list.
LEMMA TakeNext ==
  ASSUME InputsInv, TodoInv, NEW r \in Ranks, pc[r] = "loop", todo[r] # <<>>,
         todo' = [todo EXCEPT ![r] = Tail(@)], TestcasesToRun(r)' = TestcasesToRun(r)
  PROVE  /\ Done(r) \in 0 .. Len(TestcasesToRun(r)) - 1 /\ Done(r)' = Done(r) + 1
         /\ Head(todo[r]) = TestcasesToRun(r)[Done(r) + 1] /\ Head(todo[r]) \in Ids
         /\ Remaining(todo'[r], TestcasesToRun(r))
         /\ todo' \in [Ranks -> Seq(Ids)]
  <1>1. /\ todo[r] \in Seq(Ids) /\ TestcasesToRun(r) \in Seq(Ids)
        /\ Remaining(todo[r], TestcasesToRun(r))
    BY ToRunType DEF InputsInv, TodoInv
  <1>2. todo'[r] = Tail(todo[r])
    BY DEF TodoInv
  <1>3. /\ Head(todo[r]) = TestcasesToRun(r)[Done(r) + 1] /\ Head(todo[r]) \in Ids
        /\ Tail(todo[r]) \in Seq(Ids) /\ Remaining(Tail(todo[r]), TestcasesToRun(r))
        /\ Len(TestcasesToRun(r)) - Len(Tail(todo[r])) = Done(r) + 1
        /\ Done(r) \in 0 .. Len(TestcasesToRun(r)) - 1
    BY <1>1, TailRemains DEF Done
  <1>4. todo' \in [Ranks -> Seq(Ids)]
    BY <1>3 DEF TodoInv
  <1>5. QED
    BY <1>2, <1>3, <1>4 DEF Done

LEMMA TodoStep == RankInv /\ InputsInv /\ TodoInv /\ [Next]_vars => TodoInv'
  <1> SUFFICES ASSUME RankInv, InputsInv, TodoInv, [Next]_vars PROVE TodoInv'
    OBVIOUS
  <1> DEFINE Has(r) ==
        pc[r] \in {"loop", "testcase", "finalize", "done"} =>
         /\ Remaining(todo[r], TestcasesToRun(r))
         /\ pc[r] \in {"finalize", "done"} => todo[r] = <<>>
         /\ pc[r] = "testcase" =>
              /\ Done(r) \in 1 .. Len(TestcasesToRun(r))
              /\ current[r] = FindTestcase(r, TestcasesToRun(r)[Done(r)])
              /\ current[r] \in Keys \ waived
  <1>1. /\ \A r : TestcasesToRun(r)' = TestcasesToRun(r)
        /\ UNCHANGED <<waived, gpus>>
        /\ \A r, id : FindTestcase(r, id)' = FindTestcase(r, id)
    <2>1. UNCHANGED <<waived, gpus>>
      BY InputsStay DEF inputs
    <2>2. QED
      BY <2>1, InputsStay DEF FindTestcase
  <1>2. ASSUME NEW r, pc'[r] = pc[r], todo'[r] = todo[r], current'[r] = current[r], Has(r)
        PROVE  Has(r)'
    BY <1>1, <1>2 DEF Done
  <1>3. ASSUME NEW r \in Ranks, todo' \in [Ranks -> Seq(Ids)], Has(r)',
               \A q \in Ranks : q # r =>
                 pc'[q] = pc[q] /\ todo'[q] = todo[q] /\ current'[q] = current[q]
        PROVE  TodoInv'
    <2>1. \A q \in Ranks : Has(q)'
      BY <1>2, <1>3 DEF TodoInv
    <2>2. QED
      BY <1>3, <2>1 DEF TodoInv
  <1>4. ASSUME NEW r \in Ranks, Step(r) PROVE TodoInv'
    <2> USE DEF Goto
    <2>1. \A q \in Ranks : q # r =>
                 pc'[q] = pc[q] /\ todo'[q] = todo[q] /\ current'[q] = current[q]
      BY <1>4 DEF Step, RankInv, TodoInv, ParseOptions, RecordDevicesText, RecordDevicesJson,
         Exchanged, SanityCheck, Expand, NotFound, Waive, RunTestcase, FinishTestcase, Finalize,
         Return, Kill, SkipUnknown
    <2>2. CASE \/ ParseOptions(r) \/ RecordDevicesText(r) \/ RecordDevicesJson(r)
               \/ Exchanged(r) \/ SanityCheck(r) \/ Kill(r)
      <3>1. todo' = todo /\ pc'[r] \notin {"loop", "testcase", "finalize", "done"}
        BY <2>2 DEF RankInv, ParseOptions, RecordDevicesText, RecordDevicesJson, Exchanged,
                    SanityCheck, Kill
      <3>2. QED
        BY <1>3, <2>1, <3>1 DEF TodoInv
    <2>3. CASE Expand(r)
      <3>1. CASE pc'[r] = "returned" /\ todo' = todo
        BY <1>3, <2>1, <3>1 DEF TodoInv
      <3>2. CASE pc'[r] = "loop" /\ todo' = [todo EXCEPT ![r] = TestcasesToRun(r)]
        <4>1. TestcasesToRun(r) \in Seq(Ids)
          BY ToRunType DEF InputsInv
        <4>2. todo' \in [Ranks -> Seq(Ids)] /\ todo'[r] = TestcasesToRun(r)
          BY <3>2, <4>1 DEF TodoInv
        <4>3. Remaining(TestcasesToRun(r), TestcasesToRun(r))
          BY <4>1 DEF Remaining
        <4>4. QED
          BY <1>1, <1>3, <2>1, <3>2, <4>2, <4>3
      <3>3. QED
        BY <2>3, <3>1, <3>2 DEF Expand, RankInv
    <2>4. CASE NotFound(r) \/ Waive(r)
      <3>1. /\ pc[r] = "loop" /\ todo[r] # <<>> /\ pc' = pc
            /\ todo' = [todo EXCEPT ![r] = Tail(@)]
        BY <2>4 DEF NotFound, Waive, SkipUnknown
      <3>2. QED
        BY <1>1, <1>3, <2>1, <3>1, TakeNext
    <2>5. CASE RunTestcase(r)
      <3>1. /\ pc[r] = "loop" /\ todo[r] # <<>> /\ pc'[r] = "testcase"
            /\ todo' = [todo EXCEPT ![r] = Tail(@)]
            /\ current'[r] = FindTestcase(r, Head(todo[r]))
            /\ FindTestcase(r, Head(todo[r])) \in Keys \ waived
        BY <2>5 DEF RunTestcase, RankInv
      <3>2. /\ Done(r) \in 0 .. Len(TestcasesToRun(r)) - 1 /\ Done(r)' = Done(r) + 1
            /\ Head(todo[r]) = TestcasesToRun(r)[Done(r) + 1]
            /\ Remaining(todo'[r], TestcasesToRun(r))
            /\ todo' \in [Ranks -> Seq(Ids)]
        BY <1>1, <3>1, TakeNext
      <3>3. Done(r)' \in 1 .. Len(TestcasesToRun(r))
        BY <3>2, ToRunType DEF InputsInv
      <3>4. QED
        BY <1>1, <1>3, <2>1, <3>1, <3>2, <3>3
    <2>6. CASE FinishTestcase(r) \/ Finalize(r) \/ Return(r)
      <3>1. /\ todo' = todo /\ pc[r] \in {"loop", "testcase", "finalize"}
            /\ pc'[r] \in {"loop", "finalize", "done"}
            /\ pc'[r] \in {"finalize", "done"} => pc[r] = "finalize" \/ todo[r] = <<>>
        BY <2>6 DEF RankInv, FinishTestcase, Finalize, Return
      <3>2. Has(r)'
        BY <1>1, <3>1 DEF TodoInv
      <3>3. QED
        BY <1>3, <2>1, <3>1, <3>2 DEF TodoInv
    <2>7. QED
      BY <1>4, <2>2, <2>3, <2>4, <2>5, <2>6 DEF Step
  <1>5. CASE UNCHANGED vars
    <2>1. pc' = pc /\ todo' = todo /\ current' = current
      BY <1>5 DEF vars
    <2>2. \A r \in Ranks : Has(r)'
      BY <1>2, <2>1 DEF TodoInv
    <2>3. QED
      BY <2>1, <2>2 DEF TodoInv
  <1>6. QED
    BY <1>4, <1>5 DEF Next, AllEnded

-------------------------------------------------------------------------------
(***************************************************************************)
(* The ranks stay in step.                                                 *)
(***************************************************************************)
\* Rank r is at place k.
Located(r, k) ==
  /\ pc[r] \in {"options", "devices"} => k = First - 2
  /\ pc[r] \in {"exchange", "sanity", "expand"} => k = First - 1
  /\ pc[r] \in {"loop", "testcase"} => \E d \in Int : d = Done(r) /\ k = Place(r, d)
  /\ pc[r] \in {"finalize", "done"} => k = Rear + 1

\* A rank that is not waiting in a call, and the calls of the others.
Free(r) ==
  \/ pc[r] \in {"options", "devices", "sanity", "expand", "loop"}
  \/ pc[r] = "testcase" /\ current[r] \notin Range(MultiTests)
NoneBehind(r) == \A q \in Ranks : Len(calls[q]) >= Len(calls[r])

CallsInv ==
  WorldSize > 1 /\ ByName =>
    /\ \A r \in Ranks : Free(r) => NoneBehind(r)
    /\ \E at \in [Ranks -> Int] :
         /\ \A r \in Ranks : Located(r, at[r])
         /\ InStep(calls, at, CallPlaces)

\* A rank is through with a call only when every other one has entered as many.
LEMMA MetAll ==
  ASSUME RankInv, NEW r \in Ranks, Met(r)
  PROVE  NoneBehind(r)
  <1>1. \A q \in Ranks : calls[q] \in Seq(Calls)
    BY DEF RankInv
  <1>2. \A q \in Ranks : Len(calls[q]) \in Nat /\ DOMAIN calls[q] = 1 .. Len(calls[q])
    BY <1>1
  <1>3. \A q \in Ranks : Len(calls[r]) \in DOMAIN calls[q]
    BY DEF Met
  <1>4. QED
    BY <1>2, <1>3 DEF NoneBehind

LEMMA CallsInit == InputsInv /\ Init => CallsInv
  <1> SUFFICES ASSUME InputsInv, Init, WorldSize > 1, ByName
               PROVE  /\ \A r \in Ranks : Free(r) => NoneBehind(r)
                      /\ \E at \in [Ranks -> Int] :
                           /\ \A r \in Ranks : Located(r, at[r])
                           /\ InStep(calls, at, CallPlaces)
    BY DEF CallsInv
  <1> DEFINE at == [r \in Ranks |-> First - 2]
  <1>1. \A r \in Ranks : pc[r] = "options" /\ calls[r] = <<>>
    BY DEF Init
  <1>2. First \in Int
    BY RankZero, PlacesGrow DEF InputsInv
  <1>3. at \in [Ranks -> Int] /\ \A r \in Ranks : Located(r, at[r])
    BY <1>1, <1>2 DEF Located
  <1>4. InStep(calls, at, CallPlaces)
    BY <1>1 DEF InStep, Level
  <1>5. \A r \in Ranks : NoneBehind(r)
    BY <1>1 DEF NoneBehind
  <1>6. QED
    BY <1>3, <1>4, <1>5

\* Which call the next testcase of the list makes.
LEMMA NextTestcase ==
  ASSUME WorldSize > 1, InputsInv, TodoInv, ByName, NEW r \in Ranks,
         pc[r] = "loop", todo[r] # <<>>
  PROVE  LET key == FindTestcase(r, Head(todo[r]))
         IN  /\ key = NoTest \/ key \in waived => CallAt(Place(r, Done(r) + 1)) = NoTest
             /\ key \in Keys \ waived =>
                  CallAt(Place(r, Done(r) + 1)) = IF key \in Range(MultiTests) THEN key ELSE NoTest
  <1> DEFINE id == Head(todo[r])
             key == FindTestcase(r, id)
             t == TestcasesToRun(r)
  <1>1. /\ todo[r] \in Seq(Ids) /\ t \in Seq(Ids) /\ Remaining(todo[r], t)
    BY ToRunType DEF InputsInv, TodoInv
  <1>2. id = t[Done(r) + 1] /\ Done(r) \in 0 .. Len(t) - 1
    BY <1>1, TailRemains DEF Done
  <1>3. Done(r) + 1 \in 1 .. Len(t) /\ Done(r) + 1 # 0
    BY <1>1, <1>2
  <1>4. id.by = "name" /\ CallAt(Place(r, Done(r) + 1)) = CallOf(id.key)
    BY <1>2, <1>3, Itinerary DEF Place, InputsInv
  <1>5. key = IF id.key \in Range(Testcases(r)) THEN id.key ELSE NoTest
    BY <1>4 DEF FindTestcase
  <1>6. Range(MultiTests) \subseteq Range(Testcases(r)) /\ Range(MultiTests) \subseteq Keys
    BY TestcasesSplit DEF Keys
  <1>7. NoTest \notin Keys /\ waived \subseteq Keys
    BY KeysAssumption DEF NoTest, InputsInv
  <1> HIDE DEF id
  <1>8. QED
    BY <1>4, <1>5, <1>6, <1>7 DEF CallOf, id

LEMMA CallsStep ==
  RankInv /\ InputsInv /\ TodoInv /\ CallsInv /\ [Next]_vars => CallsInv'
  <1> SUFFICES ASSUME RankInv, InputsInv, TodoInv, CallsInv, [Next]_vars, WorldSize > 1, ByName'
               PROVE  /\ \A r \in Ranks : Free(r)' => NoneBehind(r)'
                      /\ \E to \in [Ranks -> Int] :
                           /\ \A r \in Ranks : Located(r, to[r])'
                           /\ InStep(calls', to, CallPlaces')
    BY DEF CallsInv
  <1>1. /\ UNCHANGED <<request, json, waived>>
        /\ \A r : TestcasesToRun(r)' = TestcasesToRun(r)
    BY InputsStay DEF inputs
  <1>2. ByName
    BY <1>1 DEF ByName
  <1>3. /\ CallPlaces' = CallPlaces /\ First' = First /\ Rear' = Rear
        /\ \A r, d : Place(r, d)' = Place(r, d)
    BY <1>1 DEF CallPlaces, CallAt, CallOf, First, Rear, Place, PlaceOf, HitAt, Hits, HitNumber
  <1>4. PICK at \in [Ranks -> Int] : (\A r \in Ranks : Located(r, at[r])) /\ InStep(calls, at, CallPlaces)
    BY <1>2 DEF CallsInv
  <1>5. \A r \in Ranks : Free(r) => NoneBehind(r)
    BY <1>2 DEF CallsInv
  <1>6. calls \in [Ranks -> Seq(Calls)]
    BY DEF RankInv
  <1>7. ASSUME NEW q, pc'[q] = pc[q], todo'[q] = todo[q], NEW k, Located(q, k) PROVE Located(q, k)'
    BY <1>1, <1>3, <1>7 DEF Located, Done
  <1>8. ASSUME NEW q \in Ranks, pc'[q] = pc[q], current'[q] = current[q], calls'[q] = calls[q],
               \A p \in Ranks : Len(calls'[p]) >= Len(calls[p]) /\ Len(calls'[p]) \in Nat,
               Free(q)'
        PROVE  NoneBehind(q)'
    <2>1. NoneBehind(q)
      BY <1>5, <1>8 DEF Free
    <2>2. \A p \in Ranks : Len(calls[p]) \in Nat
      BY <1>6
    <2>3. QED
      BY <1>8, <2>1, <2>2 DEF NoneBehind
  \* A step stays at its place, goes on without a call, or enters the next one.
  <1> DEFINE Moves(r, k) ==
        \/ calls' = calls /\ k = at[r] /\ (Free(r)' => NoneBehind(r))
        \/ /\ calls' = calls /\ NoneBehind(r) /\ at[r] <= k
           /\ \A j \in Int : CallPlaces[j] # NoTest => ~(at[r] < j /\ j <= k)
        \/ /\ NoneBehind(r) /\ NextCall(CallPlaces, at[r], k) /\ CallPlaces[k] \in Calls
           /\ Enter(r, CallPlaces[k]) /\ ~Free(r)'
  <1>9. ASSUME NEW r \in Ranks, Step(r), NEW k \in Int, Located(r, k)', Moves(r, k)
        PROVE  /\ \A q \in Ranks : Free(q)' => NoneBehind(q)'
               /\ \E to \in [Ranks -> Int] :
                    /\ \A q \in Ranks : Located(q, to[q])'
                    /\ InStep(calls', to, CallPlaces')
    <2> DEFINE to == [at EXCEPT ![r] = k]
    <2>1. \A q \in Ranks : q # r =>
                 pc'[q] = pc[q] /\ todo'[q] = todo[q] /\ current'[q] = current[q]
      BY <1>9 DEF Step, RankInv, TodoInv, ParseOptions, RecordDevicesText, RecordDevicesJson,
         Exchanged, SanityCheck, Expand, NotFound, Waive, RunTestcase, FinishTestcase, Finalize,
         Return, Kill, SkipUnknown, EndLoop, Goto
    <2>2. to \in [Ranks -> Int] /\ to[r] = k /\ \A q \in Ranks : q # r => to[q] = at[q]
      OBVIOUS
    <2>3. \A q \in Ranks : Located(q, to[q])'
      BY <1>4, <1>7, <1>9, <2>1, <2>2
    <2>4. \/ calls' = calls
          \/ /\ calls' = [calls EXCEPT ![r] = Append(@, CallPlaces[k])]
             /\ CallPlaces[k] \in Calls
      BY <1>9 DEF Enter
    <2>5. \A p \in Ranks : Len(calls'[p]) >= Len(calls[p]) /\ Len(calls'[p]) \in Nat
      BY <1>6, <2>4
    <2>6. \A q \in Ranks : q # r => calls'[q] = calls[q]
      BY <1>6, <2>4
    <2>7. \A q \in Ranks : Free(q)' => NoneBehind(q)'
      <3>1. \A q \in Ranks : q # r => (Free(q)' => NoneBehind(q)')
        BY <1>8, <2>1, <2>5, <2>6
      <3>2. calls' = calls /\ NoneBehind(r) => NoneBehind(r)'
        BY DEF NoneBehind
      <3>3. QED
        BY <1>5, <1>9, <3>1, <3>2
    <2>8. InStep(calls', to, CallPlaces)
      <3>1. CASE calls' = calls /\ k = at[r]
        <4>1. to = at
          BY <3>1
        <4>2. QED
          BY <1>4, <3>1, <4>1
      <3>2. CASE /\ calls' = calls /\ NoneBehind(r) /\ at[r] <= k
                 /\ \A j \in Int : CallPlaces[j] # NoTest => ~(at[r] < j /\ j <= k)
        BY <1>4, <1>6, <3>2, MoveWithoutCall DEF NoneBehind
      <3>3. CASE NoneBehind(r) /\ NextCall(CallPlaces, at[r], k) /\ CallPlaces[k] \in Calls
                 /\ Enter(r, CallPlaces[k])
        BY <1>4, <1>6, <3>3, MoveWithCall DEF NoneBehind, Enter
      <3>4. QED
        BY <1>9, <3>1, <3>2, <3>3
    <2>9. QED
      BY <1>3, <2>2, <2>3, <2>7, <2>8
  <1>10. ASSUME NEW r \in Ranks, Step(r)
         PROVE  \E k \in Int : Located(r, k)' /\ Moves(r, k)
    <2> USE DEF Goto
    <2>1. /\ Located(r, at[r]) /\ at[r] \in Int
          /\ pc \in [Ranks -> Stages] /\ current \in [Ranks -> Keys \union {NoTest}]
          /\ Free(r) => NoneBehind(r)
      BY <1>4, <1>5 DEF RankInv
    <2>2. First \in Int /\ Rear \in Nat /\ First <= 0
      BY <1>2, PlacesGrow DEF InputsInv
    <2>3. CallPlaces[First - 1] = (IF json THEN NoTest ELSE "devices") /\ CallPlaces[First] = NoTest
          /\ CallPlaces[Rear + 1] = "finalize"
      BY <2>2 DEF CallPlaces, CallAt
    <2>4. CASE \/ ParseOptions(r) \/ Exchanged(r) \/ SanityCheck(r) \/ FinishTestcase(r)
               \/ Return(r) \/ Kill(r)
      <3>1. calls' = calls /\ todo' = todo
        BY <2>4 DEF ParseOptions, Exchanged, SanityCheck, FinishTestcase, Return, Kill
      <3>2. \/ pc'[r] \in {"returned", "killed"}
            \/ pc[r] = "options" /\ pc'[r] = "devices"
            \/ pc[r] = "exchange" /\ pc'[r] = "sanity" /\ NoneBehind(r)
            \/ pc[r] = "sanity" /\ pc'[r] = "expand"
            \/ pc[r] = "testcase" /\ pc'[r] = "loop" /\ NoneBehind(r)
            \/ pc[r] = "finalize" /\ pc'[r] = "done"
        BY <2>1, <2>4, MetAll DEF ParseOptions, Exchanged, SanityCheck, FinishTestcase, Return, Kill, Free
      <3>3. Located(r, at[r])'
        BY <1>1, <1>3, <2>1, <3>1, <3>2 DEF Located, Done
      <3>4. Free(r)' => NoneBehind(r)
        BY <2>1, <3>2 DEF Free
      <3>5. QED
        BY <2>1, <3>1, <3>3, <3>4
    <2>5. CASE RecordDevicesText(r)
      <3>1. pc[r] = "devices" /\ ~json /\ pc'[r] = "exchange" /\ Enter(r, "devices")
        BY <2>1, <2>5 DEF RecordDevicesText
      <3>2. at[r] = First - 2 /\ NoneBehind(r)
        BY <2>1, <3>1 DEF Located, Free
      <3>3. NextCall(CallPlaces, at[r], First - 1)
        BY <2>2, <2>3, <3>1, <3>2 DEF NextCall, NoTest
      <3>4. Located(r, First - 1)' /\ ~Free(r)'
        BY <1>3, <3>1 DEF Located, Free
      <3>5. "devices" \in Calls
        BY DEF Calls
      <3>6. QED
        BY <2>2, <2>3, <3>1, <3>2, <3>3, <3>4, <3>5
    <2>6. CASE RecordDevicesJson(r)
      <3>1. /\ pc[r] = "devices" /\ json /\ calls' = calls
            /\ pc'[r] = "sanity" \/ pc'[r] = "killed"
        BY <2>1, <2>6 DEF RecordDevicesJson
      <3>2. at[r] = First - 2 /\ NoneBehind(r)
        BY <2>1, <3>1 DEF Located, Free
      <3>3. \A j \in Int : CallPlaces[j] # NoTest => ~(First - 2 < j /\ j <= First - 1)
        BY <2>2, <2>3, <3>1
      <3>4. Located(r, First - 1)'
        BY <1>3, <3>1 DEF Located
      <3>5. First - 1 \in Int /\ at[r] <= First - 1
        BY <2>2, <3>2
      <3>6. QED
        BY <3>1, <3>2, <3>3, <3>4, <3>5
    <2>7. CASE Expand(r)
      <3>1. pc[r] = "expand" /\ calls' = calls
        BY <2>7 DEF Expand
      <3>2. at[r] = First - 1 /\ NoneBehind(r)
        BY <2>1, <3>1 DEF Located, Free
      <3>3. CASE pc'[r] = "returned" /\ todo' = todo
        <4>1. Located(r, at[r])'
          BY <3>3 DEF Located
        <4>2. QED
          BY <2>1, <3>1, <3>2, <4>1
      <3>4. CASE pc'[r] = "loop" /\ todo' = [todo EXCEPT ![r] = TestcasesToRun(r)]
        <4>1. Done(r)' = 0
          <5>1. todo'[r] = TestcasesToRun(r) /\ Len(TestcasesToRun(r)) \in Nat
            BY <3>4, ToRunType DEF TodoInv, InputsInv
          <5>2. QED
            BY <1>1, <5>1 DEF Done
        <4>2. Located(r, First)'
          BY <1>3, <3>4, <4>1 DEF Located, Place
        <4>3. \A j \in Int : CallPlaces[j] # NoTest => ~(First - 1 < j /\ j <= First)
          BY <2>2, <2>3
        <4>4. QED
          BY <2>2, <3>1, <3>2, <4>2, <4>3
      <3>5. QED
        BY <2>1, <2>7, <3>3, <3>4 DEF Expand
    <2>8. CASE NotFound(r) \/ Waive(r) \/ RunTestcase(r)
      <3> DEFINE key == FindTestcase(r, Head(todo[r]))
      <3> PICK d : d = Done(r)
        OBVIOUS
      <3>1. /\ pc[r] = "loop" /\ todo[r] # <<>>
            /\ todo' = [todo EXCEPT ![r] = Tail(@)]
            /\ pc'[r] \in {"loop", "testcase"}
        BY <2>1, <2>8 DEF NotFound, Waive, RunTestcase, SkipUnknown
      <3>2. \/ (key = NoTest \/ key \in waived) /\ calls' = calls
            \/ /\ key \in Keys \ waived /\ pc'[r] = "testcase" /\ current'[r] = key
               /\ IF key \in Range(MultiTests) THEN Enter(r, key) ELSE calls' = calls
        BY <2>1, <2>8 DEF NotFound, Waive, RunTestcase
      <3>3. /\ d \in 0 .. Len(TestcasesToRun(r)) - 1 /\ d + 1 \in 0 .. Len(TestcasesToRun(r))
            /\ Done(r)' = d + 1 /\ d \in Int
        <4>1. Done(r) \in 0 .. Len(TestcasesToRun(r)) - 1 /\ Done(r)' = Done(r) + 1
          BY <1>1, <3>1, TakeNext
        <4>2. Len(TestcasesToRun(r)) \in Nat
          BY ToRunType DEF InputsInv
        <4>3. QED
          BY <4>1, <4>2
      <3>4. at[r] = Place(r, d) /\ NoneBehind(r)
        BY <2>1, <3>1 DEF Located, Free
      <3> PICK k : k = Place(r, d + 1)
        OBVIOUS
      <3>5. /\ k \in Int /\ at[r] < k
            /\ \A j \in Int : CallPlaces[j] # NoTest /\ j < k => j <= at[r]
        BY <1>2, <2>2, <3>3, <3>4, PlacesGrow DEF InputsInv
      <3>6. /\ key = NoTest \/ key \in waived => CallPlaces[k] = NoTest
            /\ key \in Keys \ waived =>
                 CallPlaces[k] = IF key \in Range(MultiTests) THEN key ELSE NoTest
        <4>1. k = Place(r, Done(r) + 1)
          OBVIOUS
        <4>2. CallPlaces[k] = CallAt(k)
          BY <3>5 DEF CallPlaces
        <4>3. QED
          BY <1>2, <3>1, <4>1, <4>2, NextTestcase
      <3>7. Located(r, k)'
        BY <1>3, <3>1, <3>3 DEF Located
      <3> HIDE DEF key
      <3>8. CASE CallPlaces[k] = NoTest /\ calls' = calls
        <4>1. \A j \in Int : CallPlaces[j] # NoTest => ~(at[r] < j /\ j <= k)
          BY <2>1, <3>5, <3>8
        <4>2. at[r] <= k
          BY <2>1, <3>5
        <4>3. QED
          BY <3>4, <3>5, <3>7, <3>8, <4>1, <4>2
      <3>9. CASE /\ key \in Keys \ waived /\ key \in Range(MultiTests) /\ pc'[r] = "testcase"
                 /\ current'[r] = key /\ Enter(r, key) /\ CallPlaces[k] = key
        <4>1. NextCall(CallPlaces, at[r], k)
          BY <3>5, <3>9, KeysAssumption DEF NextCall, NoTest
        <4>2. key \in Calls /\ ~Free(r)'
          BY <3>9 DEF Calls, Free
        <4>3. QED
          BY <3>4, <3>5, <3>7, <3>9, <4>1, <4>2
      <3>10. QED
        BY <3>2, <3>6, <3>8, <3>9
    <2>9. CASE Finalize(r)
      <3>1. pc[r] = "loop" /\ todo[r] = <<>> /\ pc'[r] = "finalize" /\ Enter(r, "finalize")
        BY <2>1, <2>9 DEF Finalize, CallFinalize
      <3> DEFINE T == Len(TestcasesToRun(r))
      <3> PICK k : k = Rear + 1
        OBVIOUS
      <3>2. Done(r) = T /\ T \in 0 .. T
        BY <3>1, ToRunType DEF Done, InputsInv
      <3>3. at[r] = Place(r, T) /\ NoneBehind(r)
        BY <2>1, <3>1, <3>2 DEF Located, Free
      <3>4. at[r] < k /\ \A j \in Int : CallPlaces[j] # NoTest /\ j < k => j <= at[r]
        BY <1>2, <2>2, <3>2, <3>3, PlacesGrow DEF InputsInv
      <3>5. NextCall(CallPlaces, at[r], k)
        BY <2>3, <3>4 DEF NextCall, NoTest
      <3>6. Located(r, k)' /\ ~Free(r)'
        BY <1>3, <3>1 DEF Located, Free
      <3>7. "finalize" \in Calls /\ k \in Int /\ CallPlaces[k] = "finalize"
        BY <2>2, <2>3 DEF Calls
      <3>8. QED
        BY <3>1, <3>3, <3>5, <3>6, <3>7
    <2>10. QED
      BY <1>10, <2>4, <2>5, <2>6, <2>7, <2>8, <2>9 DEF Step
  <1>11. CASE \E r \in Ranks : Step(r)
    BY <1>9, <1>10, <1>11
  <1>12. CASE UNCHANGED vars
    <2>1. pc' = pc /\ todo' = todo /\ current' = current /\ calls' = calls
      BY <1>12 DEF vars
    <2>2. \A q \in Ranks : Located(q, at[q])'
      BY <1>4, <1>7, <2>1
    <2>3. \A q \in Ranks : Free(q)' => NoneBehind(q)'
      BY <1>5, <2>1 DEF Free, NoneBehind
    <2>4. QED
      BY <1>3, <1>4, <2>1, <2>2, <2>3
  <1>13. QED
    BY <1>11, <1>12 DEF Next, AllEnded

\* The ranks of a job make the same collective calls in the same order, for any
\* lists of testcases, prefixes and waived or unknown testcases, although only
\* rank 0 has the testcases of a single process: when every testcase is asked
\* for by its name (runTestcase; an index names different ones, see
\* RunsWhatIsAsked).
THEOREM CallsAgree == Spec => [](ByName => CollectivesAgree)
  <1>1. Init => InputsInv
    BY RequestsAssumption DEF Init, InputsInv
  <1>2. Init => TodoInv
    BY DEF Init, TodoInv, RankInv
  <1>3. InputsInv /\ [Next]_vars => InputsInv'
    BY InputsStay
  <1>4. RunInv => RankInv
    BY DEF RunInv
  <1>5. RankInv /\ CallsInv => (ByName => CollectivesAgree)
    <2> SUFFICES ASSUME RankInv, CallsInv, ByName, NEW r \in Ranks, NEW q \in Ranks,
                        NEW n \in DOMAIN calls[r] \intersect DOMAIN calls[q]
                 PROVE  calls[r][n] = calls[q][n]
      BY DEF CollectivesAgree
    <2>1. CASE WorldSize > 1
      <3>1. PICK at \in [Ranks -> Int] : InStep(calls, at, CallPlaces)
        BY <2>1 DEF CallsInv
      <3>2. calls[r] \in Seq(Calls) /\ calls[q] \in Seq(Calls)
        BY DEF RankInv
      <3>3. n \in Nat /\ 1 <= n /\ n <= Len(calls[r]) /\ n <= Len(calls[q])
        BY <3>2
      <3>4. QED
        BY <3>1, <3>3 DEF InStep
    <2>2. CASE ~(WorldSize > 1)
      BY <2>2, WorldAssumption DEF Ranks
    <2>3. QED
      BY <2>1, <2>2
  <1>6. QED
    BY RunInductive, CallsInit, TodoStep, CallsStep, <1>1, <1>2, <1>3, <1>4, <1>5, PTL DEF Spec

-------------------------------------------------------------------------------
(***************************************************************************)
(* Every testcase is reported.                                             *)
(***************************************************************************)
Loop == {"loop", "testcase", "finalize", "done"}

\* The ids that rank 0 is through with have their final entries; of the one it
\* runs the last entry says so.
FiledInv ==
  json =>
    /\ pc[0] \in {"options", "devices", "exchange", "sanity", "expand"} => report = <<>>
    /\ pc[0] \in Loop =>
         \E f, d : /\ d = (IF pc[0] = "testcase" THEN Done(0) - 1 ELSE Done(0))
                   /\ Reported(f, d)
    /\ pc[0] = "testcase" =>
         /\ report # <<>> /\ report[Len(report)].status = "Running"
         /\ report[Len(report)].name = ReportedName(TestcasesToRun(0)[Done(0)])

\* The next id has the entry m, which is behind all final ones.
LEMMA OneMoreReported ==
  ASSUME NEW f, NEW d \in Nat, Reported(f, d), NEW m \in Nat,
         FinalEntries' = FinalEntries \union {m},
         \A n \in FinalEntries : n \in Nat /\ n < m /\ report'[n].name = report[n].name,
         report'[m].name = ReportedName(TestcasesToRun(0)[d + 1]),
         TestcasesToRun(0)' = TestcasesToRun(0)
  PROVE  \E g : Reported(g, d + 1)'
  <1> DEFINE g == [n \in 1 .. d + 1 |-> IF n = d + 1 THEN m ELSE f[n]]
             t == TestcasesToRun(0)
  <1>1. /\ f \in [1 .. d -> FinalEntries] /\ Range(f) = FinalEntries
        /\ \A i, j \in 1 .. d : i < j => f[i] < f[j]
        /\ \A n \in 1 .. d : report[f[n]].name = ReportedName(t[n])
    BY DEF Reported
  <1>2. /\ \A n \in 1 .. d + 1 : n # d + 1 => n \in 1 .. d
        /\ \A n \in 1 .. d : n \in 1 .. d + 1 /\ n # d + 1
        /\ d + 1 \in 1 .. d + 1
    OBVIOUS
  <1>3. /\ g[d + 1] = m /\ \A n \in 1 .. d : g[n] = f[n] /\ f[n] \in FinalEntries
        /\ DOMAIN g = 1 .. d + 1
    BY <1>1, <1>2
  <1>4. g \in [1 .. d + 1 -> FinalEntries \union {m}]
    BY <1>1, <1>2
  <1> HIDE DEF g
  <1>5. Range(g) = FinalEntries \union {m}
    <2>1. Range(g) \subseteq FinalEntries \union {m}
      BY <1>4 DEF Range
    <2>2. ASSUME NEW e \in FinalEntries PROVE e \in Range(g)
      <3>1. PICK n \in 1 .. d : f[n] = e
        BY <1>1 DEF Range
      <3>2. QED
        BY <1>2, <1>3, <3>1 DEF Range
    <2>3. m \in Range(g)
      BY <1>2, <1>3 DEF Range
    <2>4. QED
      BY <2>1, <2>2, <2>3
  <1>6. ASSUME NEW i \in 1 .. d + 1, NEW j \in 1 .. d + 1, i < j PROVE g[i] < g[j]
    <2>1. i \in 1 .. d
      BY <1>6
    <2>2. CASE j = d + 1
      BY <1>3, <2>1, <2>2
    <2>3. CASE j # d + 1
      <3>1. j \in 1 .. d
        BY <1>2, <2>3
      <3>2. QED
        BY <1>1, <1>3, <1>6, <2>1, <3>1
    <2>4. QED
      BY <2>2, <2>3
  <1>7. ASSUME NEW n \in 1 .. d + 1 PROVE report'[g[n]].name = ReportedName(t[n])
    <2>1. CASE n = d + 1
      BY <1>3, <2>1
    <2>2. CASE n # d + 1
      <3>1. n \in 1 .. d
        BY <1>2, <2>2
      <3>2. g[n] = f[n] /\ f[n] \in FinalEntries /\ report[f[n]].name = ReportedName(t[n])
        BY <1>1, <1>3, <3>1
      <3>3. QED
        BY <3>2
    <2>3. QED
      BY <2>1, <2>2
  <1>8. Reported(g, d + 1)'
    BY <1>4, <1>5, <1>6, <1>7 DEF Reported
  <1>9. QED
    BY <1>8

\* What a new entry, and the results, do to the final entries.
LEMMA AddFinalEntries ==
  ASSUME ReportInv, NEW name, NEW status \in Final \union {"Running"}, json,
         AddTestcase(0, name, status)
  PROVE  LET m == Len(report) + 1
         IN  /\ m \in Nat /\ Len(report') = m /\ report' # <<>>
             /\ report'[m].name = name /\ report'[m].status = status
             /\ \A n \in FinalEntries : n \in Nat /\ n < m /\ report'[n] = report[n]
             /\ FinalEntries' = IF status \in Final THEN FinalEntries \union {m} ELSE FinalEntries
  <1> DEFINE e == [name |-> name, status |-> status, results |-> {}]
             m == Len(report) + 1
  <1>1. PICK names : report \in Seq(Entry(names))
    BY DEF ReportInv
  <1>2. report' = Append(report, e)
    BY DEF AddTestcase, Reports
  <1>3. /\ Len(report) \in Nat /\ m \in Nat /\ Len(report') = m
        /\ DOMAIN report = 1 .. Len(report) /\ DOMAIN report' = 1 .. m
        /\ report'[m] = e /\ \A n \in 1 .. Len(report) : report'[n] = report[n]
    BY <1>1, <1>2
  <1>4. report' # <<>>
    BY <1>3
  <1>5. \A n \in FinalEntries : n \in Nat /\ n < m /\ report'[n] = report[n]
    BY <1>3 DEF FinalEntries
  <1>6. e.name = name /\ e.status = status
    OBVIOUS
  <1> HIDE DEF e
  <1>7. \A n \in 1 .. m : n = m \/ n \in 1 .. Len(report)
    BY <1>3
  <1>8. \A n : n \in FinalEntries' <=> n \in FinalEntries \/ (n = m /\ status \in Final)
    <2>1. \A n : n \in FinalEntries' <=> n \in 1 .. m /\ report'[n].status \in Final
      BY <1>3 DEF FinalEntries
    <2>2. \A n : n \in FinalEntries <=> n \in 1 .. Len(report) /\ report[n].status \in Final
      BY <1>3 DEF FinalEntries
    <2>3. \A n \in 1 .. Len(report) : n \in 1 .. m /\ n # m
      BY <1>3
    <2>4. m \in 1 .. m
      BY <1>3
    <2>5. QED
      BY <1>3, <1>6, <1>7, <2>1, <2>2, <2>3, <2>4
  <1>9. QED
    BY <1>3, <1>4, <1>5, <1>6, <1>8

LEMMA ResultsFinalEntries ==
  ASSUME ReportInv, NEW name, json, AddResults(0, name),
         report # <<>>, report[Len(report)].status = "Running"
  PROVE  LET m == Len(report)
         IN  /\ m \in Nat /\ report'[m].name = report[m].name
             /\ \A n \in FinalEntries : n \in Nat /\ n < m /\ report'[n] = report[n]
             /\ FinalEntries' = FinalEntries \union {m}
  <1> DEFINE m == Len(report)
             e == [name |-> report[m].name, status |-> "Passed",
                   results |-> report[m].results \union {name}]
  <1>1. PICK names : report \in Seq(Entry(names))
    BY DEF ReportInv
  <1>2. m \in Nat /\ m \in 1 .. m /\ DOMAIN report = 1 .. m
    BY <1>1
  <1>3. report' = [report EXCEPT ![m] = e]
    BY DEF AddResults, Reports
  <1>4. e.name = report[m].name /\ e.status = "Passed"
    OBVIOUS
  <1> HIDE DEF e
  <1>5. /\ DOMAIN report' = 1 .. m /\ report'[m] = e
        /\ \A n \in 1 .. m : n # m => report'[n] = report[n]
    BY <1>2, <1>3
  <1>6. \A n : n \in FinalEntries' <=> n \in 1 .. m /\ report'[n].status \in Final
    BY <1>5 DEF FinalEntries
  <1>7. \A n : n \in FinalEntries <=> n \in 1 .. m /\ report[n].status \in Final
    BY <1>2 DEF FinalEntries
  <1>8. m \notin FinalEntries
    BY <1>7 DEF Final
  <1>9. \A n : n \in FinalEntries' <=> n \in FinalEntries \/ n = m
    BY <1>2, <1>4, <1>5, <1>6, <1>7 DEF Final
  <1>10. \A n \in FinalEntries : n \in Nat /\ n < m /\ report'[n] = report[n]
    <2>1. \A n \in FinalEntries : n \in 1 .. m /\ n # m
      BY <1>7, <1>8
    <2>2. \A n \in 1 .. m : n # m => n \in Nat /\ n < m
      <3> HIDE DEF m
      <3>1. QED
        BY <1>2
    <2>3. QED
      BY <1>5, <2>1, <2>2
  <1>11. QED
    BY <1>2, <1>4, <1>5, <1>9, <1>10

LEMMA FiledStep ==
  RankInv /\ ReportInv /\ InputsInv /\ TodoInv /\ FiledInv /\ [Next]_vars => FiledInv'
  <1> SUFFICES ASSUME RankInv, ReportInv, InputsInv, TodoInv, FiledInv, [Next]_vars PROVE FiledInv'
    OBVIOUS
  <1>1. /\ TestcasesToRun(0)' = TestcasesToRun(0) /\ json' = json
        /\ TestcasesToRun(0) \in Seq(Ids) /\ Len(TestcasesToRun(0)) \in Nat
    BY InputsStay, RankZero, ToRunType DEF inputs, InputsInv
  <1>2. SUFFICES ASSUME json
                 PROVE  /\ pc'[0] \in {"options", "devices", "exchange", "sanity", "expand"} =>
                             report' = <<>>
                        /\ pc'[0] \in Loop =>
                             \E f, d : /\ d = (IF pc'[0] = "testcase" THEN Done(0)' - 1 ELSE Done(0)')
                                       /\ Reported(f, d)'
                        /\ pc'[0] = "testcase" =>
                             /\ report' # <<>> /\ report'[Len(report')].status = "Running"
                             /\ report'[Len(report')].name
                                  = ReportedName(TestcasesToRun(0)[Done(0)'])
    BY <1>1 DEF FiledInv
  <1>3. ASSUME report' = report, NEW f, NEW d, Reported(f, d) PROVE Reported(f, d)'
    BY <1>1, <1>3 DEF Reported, FinalEntries
  <1>4. /\ pc \in [Ranks -> Stages] /\ 0 \in Ranks
        /\ todo \in [Ranks -> Seq(Ids)] /\ todo[0] \in Seq(Ids)
        /\ NoTest \notin Keys /\ waived \subseteq Keys
    BY RankZero, KeysAssumption DEF RankInv, TodoInv, NoTest, InputsInv
  \* Where rank 0 is through with the same testcases, and reports nothing.
  <1>5. CASE /\ report' = report /\ todo'[0] = todo[0] /\ pc'[0] = pc[0]
    <2>1. Done(0)' = Done(0)
      BY <1>1, <1>5 DEF Done
    <2>2. pc[0] \in Loop => \E f, d : /\ d = (IF pc[0] = "testcase" THEN Done(0) - 1 ELSE Done(0))
                                     /\ Reported(f, d)'
      BY <1>2, <1>3, <1>5 DEF FiledInv
    <2>3. QED
      BY <1>2, <1>5, <2>1, <2>2 DEF FiledInv
  <1>6. CASE /\ pc[0] \in {"options", "devices", "exchange", "sanity", "expand"} /\ report' = report
             /\ pc'[0] \in {"options", "devices", "exchange", "sanity", "expand", "returned", "killed"}
    BY <1>2, <1>6 DEF FiledInv, Loop
  <1>7. CASE Expand(0)
    <2>1. /\ report' = <<>>
          /\ \/ pc'[0] = "returned"
             \/ pc'[0] = "loop" /\ todo'[0] = TestcasesToRun(0)
      BY <1>2, <1>4, <1>7 DEF Expand, Goto, FiledInv
    <2>2. Reported(<<>>, 0)'
      <3>1. FinalEntries' = {}
        BY <2>1 DEF FinalEntries
      <3>2. 1 .. 0 = {} /\ Range(<<>>) = {} /\ <<>> \in [1 .. 0 -> {}]
        BY DEF Range
      <3>3. QED
        BY <3>1, <3>2 DEF Reported
    <2>3. pc'[0] = "loop" => Done(0)' = 0
      BY <1>1, <2>1 DEF Done
    <2>4. QED
      BY <2>1, <2>2, <2>3 DEF Loop
  <1>8. ASSUME pc[0] = "loop", todo[0] # <<>>, todo' = [todo EXCEPT ![0] = Tail(@)]
        PROVE  \E f, d : /\ d = Done(0) /\ d \in Nat /\ Done(0)' = d + 1 /\ Reported(f, d)
                         /\ Head(todo[0]) = TestcasesToRun(0)[d + 1]
    <2>1. /\ Done(0) \in 0 .. Len(TestcasesToRun(0)) - 1 /\ Done(0)' = Done(0) + 1
          /\ Head(todo[0]) = TestcasesToRun(0)[Done(0) + 1]
      BY <1>1, <1>4, <1>8, TakeNext
    <2>2. PICK f, d : d = Done(0) /\ Reported(f, d)
      BY <1>2, <1>8 DEF FiledInv, Loop
    <2>3. d \in Nat
      BY <1>1, <2>1, <2>2
    <2>4. QED
      BY <2>1, <2>2, <2>3
  <1>9. CASE NotFound(0) \/ Waive(0)
    <2> DEFINE id == Head(todo[0])
    <2>1. /\ pc[0] = "loop" /\ todo[0] # <<>> /\ todo' = [todo EXCEPT ![0] = Tail(@)]
          /\ pc' = pc
      BY <1>9 DEF NotFound, Waive, SkipUnknown
    <2>2. PICK status \in Final : AddTestcase(0, ReportedName(id), status)
      <3>1. CASE NotFound(0)
        BY <3>1 DEF NotFound, ReportedName, Final
      <3>2. CASE Waive(0)
        <4>1. FindTestcase(0, id) \in waived /\ AddTestcase(0, FindTestcase(0, id), "Waived")
          BY <3>2 DEF Waive
        <4>2. FindTestcase(0, id) # NoTest
          BY <1>4, <4>1
        <4>3. QED
          BY <4>1, <4>2 DEF ReportedName, Final
      <3>3. QED
        BY <1>9, <3>1, <3>2
    <2>3. PICK f, d : /\ d = Done(0) /\ d \in Nat /\ Done(0)' = d + 1 /\ Reported(f, d)
                      /\ id = TestcasesToRun(0)[d + 1]
      BY <1>8, <2>1
    <2>4. PICK m : m = Len(report) + 1
      OBVIOUS
    <2>5. /\ m \in Nat /\ report'[m].name = ReportedName(id)
          /\ \A n \in FinalEntries : n \in Nat /\ n < m /\ report'[n] = report[n]
          /\ FinalEntries' = FinalEntries \union {m}
      BY <1>2, <2>2, <2>4, AddFinalEntries
    <2>6. \E g : Reported(g, d + 1)'
      BY <1>1, <2>3, <2>5, OneMoreReported
    <2>7. QED
      BY <2>1, <2>3, <2>6 DEF Loop
  <1>10. CASE RunTestcase(0)
    <2> DEFINE id == Head(todo[0])
               key == FindTestcase(0, id)
    <2>1. /\ pc[0] = "loop" /\ todo[0] # <<>> /\ todo' = [todo EXCEPT ![0] = Tail(@)]
          /\ pc'[0] = "testcase" /\ key \in Keys /\ AddTestcase(0, key, "Running")
      BY <1>4, <1>10 DEF RunTestcase, Goto
    <2>2. key = ReportedName(id)
      BY <1>4, <2>1 DEF ReportedName
    <2>3. PICK f, d : /\ d = Done(0) /\ d \in Nat /\ Done(0)' = d + 1 /\ Reported(f, d)
                      /\ id = TestcasesToRun(0)[d + 1]
      BY <1>8, <2>1
    <2>4. /\ report' # <<>> /\ report'[Len(report')].name = key
          /\ report'[Len(report')].status = "Running"
          /\ \A n \in FinalEntries : report'[n] = report[n]
          /\ FinalEntries' = FinalEntries
      BY <1>2, <2>1, AddFinalEntries DEF Final
    <2>5. Reported(f, d)'
      <3>1. \A n \in 1 .. d : f[n] \in FinalEntries
        BY <2>3 DEF Reported
      <3>2. QED
        BY <1>1, <2>3, <2>4, <3>1 DEF Reported
    <2>6. d = Done(0)' - 1
      BY <2>3
    <2>7. QED
      BY <2>1, <2>2, <2>3, <2>4, <2>5, <2>6 DEF Loop
  <1>11. CASE FinishTestcase(0)
    <2> DEFINE id == TestcasesToRun(0)[Done(0)]
    <2>1. pc[0] = "testcase" /\ pc'[0] = "loop" /\ todo' = todo
      BY <1>4, <1>11 DEF FinishTestcase, Goto
    <2>2. /\ Done(0) \in 1 .. Len(TestcasesToRun(0))
          /\ current[0] = FindTestcase(0, id) /\ current[0] \in Keys
      BY <1>4, <2>1 DEF TodoInv
    <2>3. current[0] = ReportedName(id)
      BY <1>4, <2>2 DEF ReportedName
    <2>4. /\ report # <<>> /\ report[Len(report)].status = "Running"
          /\ report[Len(report)].name = ReportedName(id)
      BY <1>2, <2>1 DEF FiledInv
    <2>5. PICK f, d : d = Done(0) - 1 /\ Reported(f, d)
      BY <1>2, <2>1 DEF FiledInv, Loop
    <2>6. d \in Nat /\ Done(0)' = d + 1 /\ id = TestcasesToRun(0)[d + 1]
      <3>1. Done(0)' = Done(0)
        BY <1>1, <2>1 DEF Done
      <3>2. QED
        BY <1>1, <2>2, <2>5, <3>1
    <2>7. PICK m : /\ m \in Nat /\ report'[m].name = ReportedName(id)
                   /\ \A n \in FinalEntries : n \in Nat /\ n < m /\ report'[n] = report[n]
                   /\ FinalEntries' = FinalEntries \union {m}
      <3>1. CASE AddTestcase(0, current[0], "Error")
        BY <1>2, <2>3, <3>1, AddFinalEntries DEF Final
      <3>2. CASE AddResults(0, current[0])
        BY <1>2, <2>4, <3>2, ResultsFinalEntries
      <3>3. QED
        BY <1>11, <3>1, <3>2 DEF FinishTestcase, SetStatusAndAddIfNeeded
    <2>8. \E g : Reported(g, d + 1)'
      BY <1>1, <2>5, <2>6, <2>7, OneMoreReported
    <2>9. QED
      BY <2>1, <2>6, <2>8 DEF Loop
  <1>12. CASE Finalize(0) \/ Return(0)
    <2>1. /\ report' = report /\ todo' = todo
          /\ pc[0] \in {"loop", "finalize"} /\ pc'[0] \in {"finalize", "done"}
      BY <1>4, <1>12 DEF Finalize, Return, Goto
    <2>2. Done(0)' = Done(0)
      BY <1>1, <2>1 DEF Done
    <2>3. PICK f, d : d = Done(0) /\ Reported(f, d)
      BY <1>2, <2>1 DEF FiledInv, Loop
    <2>4. Reported(f, d)'
      BY <1>3, <2>1, <2>3
    <2>5. QED
      BY <2>1, <2>2, <2>3, <2>4
  <1>13. CASE \/ ParseOptions(0) \/ RecordDevicesText(0) \/ RecordDevicesJson(0)
              \/ Exchanged(0) \/ SanityCheck(0)
    BY <1>4, <1>6, <1>13 DEF ParseOptions, RecordDevicesText, RecordDevicesJson, Exchanged,
       SanityCheck, Goto
  <1>14. CASE Kill(0)
    BY <1>4, <1>14 DEF Kill, Goto, Loop
  <1>15. ASSUME NEW r \in Ranks, r # 0, Step(r)
         PROVE  report' = report /\ todo'[0] = todo[0] /\ pc'[0] = pc[0]
    BY <1>4, <1>15 DEF Step, ParseOptions, RecordDevicesText, RecordDevicesJson, Exchanged,
       SanityCheck, Expand, NotFound, Waive, RunTestcase, FinishTestcase, Finalize, Return, Kill,
       SkipUnknown, SetStatusAndAddIfNeeded, AddTestcase, AddResults, Reports, Goto
  <1>16. CASE UNCHANGED vars
    BY <1>5, <1>16 DEF vars
  <1>17. QED
    BY <1>4, <1>5, <1>7, <1>9, <1>10, <1>11, <1>12, <1>13, <1>14, <1>15, <1>16
       DEF Next, AllEnded, Step

\* The testcases that were asked for, known or not, waived, failed or passed,
\* are what the JSON document has final entries for, once each and in their
\* order, although an error leaves a second entry "Running" (JsonOutput).
THEOREM TestsAreReported == Spec => []EveryTestReported
  <1>1. Init => InputsInv /\ TodoInv /\ FiledInv
    <2> SUFFICES ASSUME Init PROVE InputsInv /\ TodoInv /\ FiledInv
      OBVIOUS
    <2>1. InputsInv
      BY RequestsAssumption DEF Init, InputsInv
    <2>2. TodoInv
      BY DEF Init, TodoInv
    <2>3. FiledInv
      BY RankZero DEF Init, FiledInv, Loop
    <2>4. QED
      BY <2>1, <2>2, <2>3
  <1>2. InputsInv /\ [Next]_vars => InputsInv'
    BY InputsStay
  <1>3. RunInv => RankInv /\ ReportInv
    BY DEF RunInv
  <1>4. InputsInv /\ TodoInv /\ FiledInv => EveryTestReported
    <2> SUFFICES ASSUME InputsInv, TodoInv, FiledInv, json, pc[0] \in {"finalize", "done"}
                 PROVE  \E f \in [1 .. Len(TestcasesToRun(0)) -> FinalEntries] :
                          Reported(f, Len(TestcasesToRun(0)))
      BY DEF EveryTestReported
    <2>1. todo[0] = <<>> /\ Len(TestcasesToRun(0)) \in Nat
      BY RankZero, ToRunType DEF TodoInv, InputsInv
    <2>2. Done(0) = Len(TestcasesToRun(0))
      BY <2>1 DEF Done
    <2>3. PICK f, d : d = Done(0) /\ Reported(f, d)
      BY DEF FiledInv, Loop
    <2>4. QED
      BY <2>2, <2>3 DEF Reported
  <1>5. QED
    BY RunInductive, TodoStep, FiledStep, <1>1, <1>2, <1>3, <1>4, PTL DEF Spec
===============================================================================
