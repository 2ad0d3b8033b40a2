------------------------------ MODULE MemcpyCore ------------------------------
(***************************************************************************)
(* One memcpy operation: MemcpyOperation::doMemcpyCore with its node       *)
(* helper and its spin kernels, on all the processes that take part.       *)
(*                                                                         *)
(* The host thread of each rank takes Samples samples.  In a sample it     *)
(* resets the stream blocker, meets the other ranks, fills the buffers,    *)
(* queues a spin kernel and the work to be timed on one stream per local   *)
(* copy, releases the blocker, drains its streams, meets the other ranks   *)
(* again, verifies the buffers and reads the events.  The devices run the  *)
(* queued work concurrently with all that.                                 *)
(*                                                                         *)
(* Streams are in order, and what is queued on each is fixed, so a stream  *)
(* is two counters into the list of operations Ops: how many the host has  *)
(* queued and how many the device has retired.                             *)
(***************************************************************************)
EXTENDS Integers, FiniteSets

CONSTANTS
  Ranks,        \* the processes: MPI_COMM_WORLD, or the only one
  NumCopies,    \* simultaneous copies, over all the ranks
  RankOf,       \* RankOf[c]: the rank that executes copy c
  Samples,      \* averageLoopCount
  Value,        \* bandwidthValue: what the operation returns
  Helper,       \* "single" for NodeHelperSingle, "multi" for NodeHelperMulti
  QueueDepth,   \* operations a stream holds before the host blocks (driver)
  MayTimeOut,   \* whether a spin kernel may reach its timeout
  AsyncReset    \* whether cuMemsetD32 may land after it returned (driver)

Copies == 1 .. NumCopies

ASSUME RanksAssumption == IsFiniteSet(Ranks)
ASSUME CopiesAssumption == NumCopies \in Nat \ {0} /\ RankOf \in [Copies -> Ranks]
ASSUME SamplesAssumption == Samples \in Nat \ {0}
ASSUME ValueAssumption == Value \in {"FIRST_BW", "SUM_BW", "TOTAL_BW", "VECTOR_BW"}
ASSUME HelperAssumption ==
  /\ Helper \in {"single", "multi"}
  /\ Helper = "single" => \A r, q \in Ranks : r = q
ASSUME DriverAssumption ==
  /\ QueueDepth \in Nat \ {0}
  /\ MayTimeOut \in BOOLEAN
  /\ AsyncReset \in BOOLEAN

VARIABLES
  pc,           \* where the host thread of each rank is
  sample,       \* the sample it is taking, n in the code
  hostLatch,    \* *blockingVarHost of each rank
  deviceLatch,  \* *blockingVarDevice, one word shared by all ranks
  landing,      \* resets of deviceLatch issued by each rank, still in flight
  queued,       \* operations the host has put on each copy's stream
  retired,      \* operations of it the device has completed
  secondStage   \* copies whose spin kernel has written deviceLatch

vars == <<pc, sample, hostLatch, deviceLatch, landing, queued, retired, secondStage>>

\* The operations of one stream in the order they are queued: the spin kernel,
\* the warmup copies (none if warmupCount is 0), the start event (behind a wait
\* for the start event of the rank's first stream), the measured copies and the
\* end event.  The first stream of a rank also gets the total event (behind a
\* wait for the end events of the others, if the operation returns the total
\* bandwidth).
Spin   == 1
Warmup == 2
Start  == 3
Copy   == 4
End    == 5
Total  == 6

Local(r) == {c \in Copies : RankOf[c] = r}

\* The first stream of the rank that executes c, streams[0] there.
Lead(c) == CHOOSE d \in Local(RankOf[c]) : \A e \in Local(RankOf[c]) : d <= e

Last(c) == IF c = Lead(c) THEN Total ELSE End

FirstRank == RankOf[1]      \* rankOfFirstMemcpy

-------------------------------------------------------------------------------
(***************************************************************************)
(* The host thread of a rank.                                              *)
(***************************************************************************)
HostPC == {"reset", "entry", "enqueue", "drain", "exit", "stats", "reduce",
           "collect", "done"}

\* The latches are allocated and not initialised.
Init ==
  /\ pc = [r \in Ranks |-> "reset"]
  /\ sample = [r \in Ranks |-> 0]
  /\ hostLatch \in [Ranks -> {0, 1}]
  /\ deviceLatch \in {0, 1}
  /\ landing = [r \in Ranks |-> 0]
  /\ queued = [c \in Copies |-> 0]
  /\ retired = [c \in Copies |-> 0]
  /\ secondStage = {}

Goto(r, from, to) ==
  /\ pc[r] = from
  /\ pc' = [pc EXCEPT ![r] = to]

\* How far rank r is in the sequence of collective calls, the same on every
\* rank: three slots a sample, the last one taken by TOTAL_BW only.
Slot(stage) ==
  CASE stage \in {"reset", "collect", "done"}   -> 0
    [] stage \in {"entry", "enqueue", "drain"}  -> 1
    [] stage \in {"exit", "stats"}              -> 2
    [] stage = "reduce"                         -> 3

Entered(r) == 3 * sample[r] + Slot(pc[r])

\* A barrier, or an MPI_Allreduce, lets r go on when every rank has entered it.
AllEntered(r) == \A q \in Ranks : Entered(q) >= Entered(r)

\* synchronizeProcess before the buffers are filled and after the streams are
\* drained.  (Mutant: NodeHelperSingle's, which does not wait.)
NoBarrier(r) == TRUE
EntryBarrier(r) == AllEntered(r)
ExitBarrier(r) == AllEntered(r)

\* Mutants: one of the two latches is not reset.
ResetHostLatchOnly(r) ==
  /\ Goto(r, "reset", "entry")
  /\ hostLatch' = [hostLatch EXCEPT ![r] = 0]
  /\ UNCHANGED <<sample, deviceLatch, landing, queued, retired, secondStage>>

ResetDeviceLatchOnly(r) ==
  /\ Goto(r, "reset", "entry")
  /\ deviceLatch' = 0
  /\ UNCHANGED <<sample, hostLatch, landing, queued, retired, secondStage>>

StreamBlockerReset(r) ==
  /\ Goto(r, "reset", "entry")
  /\ hostLatch' = [hostLatch EXCEPT ![r] = 0]
  /\ IF Helper = "multi" /\ ~AsyncReset
     THEN deviceLatch' = 0
     ELSE UNCHANGED deviceLatch
  /\ landing' = IF Helper = "multi" /\ AsyncReset
                THEN [landing EXCEPT ![r] = @ + 1]
                ELSE landing
  /\ UNCHANGED <<sample, queued, retired, secondStage>>

\* The barrier before the sample, then memsetPattern: all the work it queues
\* is synchronised before it returns.
BeginSample(r) ==
  /\ Goto(r, "entry", "enqueue")
  /\ EntryBarrier(r)
  /\ queued' = [c \in Copies |-> IF c \in Local(r) THEN 0 ELSE queued[c]]
  /\ retired' = [c \in Copies |-> IF c \in Local(r) THEN 0 ELSE retired[c]]
  /\ secondStage' = secondStage \ Local(r)
  /\ UNCHANGED <<sample, hostLatch, deviceLatch, landing>>

\* The host queues in four loops, one after the other.
Loop(op) == CASE op \in {Spin, Warmup} -> 1
              [] op = Start            -> 2
              [] op \in {Copy, End}    -> 3
              [] op = Total            -> 4

Unqueued(r) == {c \in Local(r) : queued[c] < Last(c)}

NextLoop(c) == Loop(queued[c] + 1)

\* Queue the next operation: of the earliest loop that is not finished, and
\* in it of the first stream the loop has not reached.
Enqueue(r, c) ==
  /\ pc[r] = "enqueue"
  /\ c \in Unqueued(r)
  /\ \A d \in Unqueued(r) : IF d < c THEN NextLoop(d) > NextLoop(c)
                                     ELSE NextLoop(d) >= NextLoop(c)
  /\ queued[c] - retired[c] < QueueDepth
  /\ queued' = [queued EXCEPT ![c] = @ + 1]
  /\ UNCHANGED <<pc, sample, hostLatch, deviceLatch, landing, retired, secondStage>>

StreamBlockerRelease(r) ==
  /\ Goto(r, "enqueue", "drain")
  /\ Unqueued(r) = {}
  /\ hostLatch' = [hostLatch EXCEPT ![r] = 1]
  /\ UNCHANGED <<sample, deviceLatch, landing, queued, retired, secondStage>>

\* Synchronise every local stream and enter the barrier after the sample.
Drained(r) == \A c \in Local(r) : retired[c] = queued[c]

DrainStreams(r) ==
  /\ Goto(r, "drain", "exit")
  /\ Drained(r)
  /\ UNCHANGED <<sample, hostLatch, deviceLatch, landing, queued, retired, secondStage>>

EndSample(r) ==
  /\ Goto(r, "exit", "stats")
  /\ ExitBarrier(r)
  /\ UNCHANGED <<sample, hostLatch, deviceLatch, landing, queued, retired, secondStage>>

\* (Mutant: one sample too many.)
NextSampleInclusive(r) ==
  /\ sample' = [sample EXCEPT ![r] = @ + 1]
  /\ pc' = [pc EXCEPT ![r] = IF sample[r] + 1 <= Samples THEN "reset" ELSE "collect"]

NextSample(r) ==
  /\ sample' = [sample EXCEPT ![r] = @ + 1]
  /\ pc' = [pc EXCEPT ![r] = IF sample[r] + 1 < Samples THEN "reset" ELSE "collect"]

\* memcmpPattern and the statistics of the local copies.  The total bandwidth
\* then takes a maximum and a sum over all ranks.
ReadSample(r) ==
  /\ pc[r] = "stats"
  /\ IF Value = "TOTAL_BW" /\ Helper = "multi"
     THEN pc' = [pc EXCEPT ![r] = "reduce"] /\ UNCHANGED sample
     ELSE NextSample(r)
  /\ UNCHANGED <<hostLatch, deviceLatch, landing, queued, retired, secondStage>>

ReduceTotal(r) ==
  /\ pc[r] = "reduce"
  /\ AllEntered(r)
  /\ NextSample(r)
  /\ UNCHANGED <<hostLatch, deviceLatch, landing, queued, retired, secondStage>>

\* The ranks whose contribution the result of the operation needs: a reduction
\* takes everyone's, a broadcast that of its root.
Contributors(r) ==
  IF Helper = "single" THEN {}
  ELSE CASE Value = "SUM_BW"    -> Ranks
         [] Value = "FIRST_BW"  -> {FirstRank}
         [] Value = "VECTOR_BW" -> {RankOf[c] : c \in Copies}
         [] OTHER               -> {}

CollectResult(r) ==
  /\ Goto(r, "collect", "done")
  /\ \A q \in Contributors(r) : pc[q] \in {"collect", "done"}
  /\ UNCHANGED <<sample, hostLatch, deviceLatch, landing, queued, retired, secondStage>>

Host(r) ==
  \/ StreamBlockerReset(r)
  \/ BeginSample(r)
  \/ \E c \in Local(r) : Enqueue(r, c)
  \/ StreamBlockerRelease(r)
  \/ DrainStreams(r)
  \/ EndSample(r)
  \/ ReadSample(r)
  \/ ReduceTotal(r)
  \/ CollectResult(r)

-------------------------------------------------------------------------------
(***************************************************************************)
(* The devices.                                                            *)
(***************************************************************************)
Spinning(c) == retired[c] = 0 /\ queued[c] >= Spin

\* Only the kernels of the rank of the first copy are given latch1.
FirstStage(c) ==
  /\ Helper = "multi"
  /\ RankOf[c] = FirstRank
  /\ c \notin secondStage

\* spinKernelDeviceMultistage, first stage: latch1 is up, raise latch2.
RaiseDeviceLatch(c) ==
  /\ Spinning(c)
  /\ FirstStage(c)
  /\ hostLatch[FirstRank] = 1
  /\ deviceLatch' = 1
  /\ secondStage' = secondStage \union {c}
  /\ UNCHANGED <<pc, sample, hostLatch, landing, queued, retired>>

LatchUp(c) ==
  IF Helper = "single" THEN hostLatch[RankOf[c]] = 1
                       ELSE deviceLatch = 1 /\ ~FirstStage(c)

Completed(c) ==
  /\ retired' = [retired EXCEPT ![c] = @ + 1]
  /\ UNCHANGED <<pc, sample, hostLatch, deviceLatch, landing, queued, secondStage>>

SpinReleased(c) ==
  /\ Spinning(c)
  /\ LatchUp(c)
  /\ Completed(c)

\* The stage the kernel is in gives up; the first one leaves latch2 alone.
\* (Mutant: only the second stage has a timeout.)
SecondStageTimeout(c) ==
  /\ MayTimeOut
  /\ Spinning(c)
  /\ ~LatchUp(c)
  /\ ~FirstStage(c)
  /\ Completed(c)

SpinTimeout(c) ==
  /\ MayTimeOut
  /\ Spinning(c)
  /\ ~LatchUp(c)
  /\ FirstStage(c) => hostLatch[FirstRank] = 0
  /\ Completed(c)

\* The events that operation op of stream c waits for.
\* (Mutant: a stream waits for no other.)
ReadyAtOnce(c, op) == TRUE

Ready(c, op) ==
  CASE op = Start -> c = Lead(c) \/ retired[Lead(c)] >= Start
    [] op = Total -> Value = "TOTAL_BW" =>
                       \A d \in Local(RankOf[c]) : d # c => retired[d] >= End
    [] OTHER      -> TRUE

Retire(c) ==
  /\ retired[c] >= Spin
  /\ retired[c] < queued[c]
  /\ Ready(c, retired[c] + 1)
  /\ Completed(c)

Device(c) ==
  \/ RaiseDeviceLatch(c)
  \/ SpinReleased(c)
  \/ SpinTimeout(c)
  \/ Retire(c)

\* A reset that cuMemsetD32 left in flight reaches the device word.
LandReset(r) ==
  /\ landing[r] > 0
  /\ landing' = [landing EXCEPT ![r] = @ - 1]
  /\ deviceLatch' = 0
  /\ UNCHANGED <<pc, sample, hostLatch, queued, retired, secondStage>>

-------------------------------------------------------------------------------
Finished ==
  /\ \A r \in Ranks : pc[r] = "done"
  /\ UNCHANGED vars

Next ==
  \/ \E r \in Ranks : Host(r) \/ LandReset(r)
  \/ \E c \in Copies : Device(c)
  \/ Finished

\* A host thread is never blocked but where an action waits, a device runs
\* what is at the head of its streams, and a spin kernel reads the clock in
\* every iteration.
Fairness ==
  /\ \A r \in Ranks : WF_vars(Host(r)) /\ WF_vars(LandReset(r))
  /\ \A c \in Copies : WF_vars(Device(c))

Spec == Init /\ [][Next]_vars /\ Fairness

-------------------------------------------------------------------------------
(***************************************************************************)
(* Properties.                                                             *)
(***************************************************************************)
TypeOK ==
  /\ pc \in [Ranks -> HostPC]
  /\ sample \in [Ranks -> 0 .. Samples]
  /\ hostLatch \in [Ranks -> {0, 1}]
  /\ deviceLatch \in {0, 1}
  /\ landing \in [Ranks -> 0 .. Samples]
  /\ queued \in [Copies -> 0 .. Total]
  /\ retired \in [Copies -> 0 .. Total]
  /\ secondStage \subseteq Copies

\* The part of a sample in which a rank queues and runs its timed work.
InWindow(r) == pc[r] \in {"enqueue", "drain"}

\* No rank verifies its buffers or reads its events while a stream of any rank
\* still holds work of the sample: the verification of one process neither
\* reads a buffer early nor loads a link that another one is measuring.
NoTrafficDuringVerification ==
  \A r \in Ranks : pc[r] = "stats" => \A c \in Copies : retired[c] = Last(c)

\* No stream passes its start event before the first stream of its rank has,
\* whatever released or timed out its spin kernel ("ensure that all copies are
\* launched at the same time").
StartTogether ==
  \A c \in Copies : retired[c] >= Start => retired[Lead(c)] >= Start

\* When the total event is recorded, every copy of the rank has ended.
TotalCoversEveryCopy ==
  Value = "TOTAL_BW" =>
    \A c \in Copies : retired[c] >= Total =>
      \A d \in Local(RankOf[c]) : retired[d] >= End

\* Unless a spin kernel times out, no copy of any rank gets past its spin
\* kernel before the first rank has queued all its work and released its latch
\* in the same sample.  A release left over from the previous sample, or from
\* uninitialised memory, starts nobody.
NoCopyBeforeRelease ==
  ~MayTimeOut =>
    \A c \in Copies : InWindow(RankOf[c]) /\ retired[c] >= Spin =>
      /\ pc[FirstRank] \in {"drain", "exit"}
      /\ sample[FirstRank] = sample[RankOf[c]]

\* What README.md says of the spin kernel: it holds a stream until all events
\* of the measurement have been enqueued, so that the overhead of enqueueing
\* is not measured.  It does so on the rank of the first copy, which is every
\* rank under NodeHelperSingle; under NodeHelperMulti the release of the first
\* rank starts the others, however much they have still to queue.
EnqueueOverheadExcluded ==
  ~MayTimeOut /\ InWindow(FirstRank) =>
    \A c \in Local(FirstRank) : retired[c] >= Start => Unqueued(FirstRank) = {}

\* The device latch is taken back only when no spin kernel of any rank is
\* waiting: no rank can lose the release of a sample.
ResetOnlyWhenNobodySpins ==
  [][deviceLatch = 1 /\ deviceLatch' = 0 => \A c \in Copies : ~Spinning(c)]_vars

\* The latches are a gate in the sense of StreamGate: opened once a sample,
\* passed only while open, closed only when every copy of every rank is
\* through.
NotStarted == \A r \in Ranks : sample[r] = 0 /\ pc[r] \in {"reset", "entry"}

GateOpen == IF Helper = "single" THEN hostLatch[FirstRank] = 1 ELSE deviceLatch = 1

PastGate(c) == pc[RankOf[c]] # "entry" /\ retired[c] >= Spin

Through ==
  IF GateOpen THEN {c \in Copies : NotStarted \/ PastGate(c)} ELSE {}

Gate == INSTANCE StreamGate WITH open <- GateOpen, through <- Through

ImplementsGate == Gate!Spec

\* Every rank gets through all samples and the final collective: no order of
\* host threads, devices and barriers leaves one of them waiting.
EveryRankFinishes == <>(\A r \in Ranks : pc[r] = "done")

===============================================================================
