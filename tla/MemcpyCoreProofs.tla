--------------------------- MODULE MemcpyCoreProofs ---------------------------
(***************************************************************************)
(* What holds of MemcpyCore for every number of ranks, copies and samples. *)
(***************************************************************************)
EXTENDS MemcpyCore, TLAPS

\* The last collective call that rank r has left: the barrier before or after
\* the sample, or the one after the previous sample.
LeftSlot(stage) ==
  CASE stage \in {"reset", "entry", "collect", "done"} -> -1
    [] stage \in {"enqueue", "drain", "exit"}          -> 1
    [] stage \in {"stats", "reduce"}                   -> 2

Left(r) == 3 * sample[r] + LeftSlot(pc[r])

\* A rank is past the last sample exactly when it has counted them all.
SampleInv == \A r \in Ranks : pc[r] \in {"collect", "done"} <=> sample[r] = Samples

\* Nobody has left a collective call that somebody has not entered.
BarrierInv == \A r, q \in Ranks : Entered(q) >= Left(r)

\* Outside the window of its rank a stream is empty, and from the release on
\* until the next sample begins everything has been queued on it.
StreamInv ==
  \A c \in Copies :
    /\ retired[c] <= queued[c]
    /\ queued[c] <= Last(c)
    /\ ~InWindow(RankOf[c]) => retired[c] = queued[c]
    /\ pc[RankOf[c]] \in {"drain", "exit", "stats", "reduce"} => queued[c] = Last(c)
    /\ sample[RankOf[c]] > 0 /\ pc[RankOf[c]] # "enqueue" => queued[c] = Last(c)

LandingInv ==
  \A r \in Ranks : /\ landing[r] <= sample[r] + (IF pc[r] \in {"reset", "collect", "done"} THEN 0 ELSE 1)
                   /\ ~AsyncReset => landing[r] = 0

IInv == TypeOK /\ SampleInv /\ BarrierInv /\ StreamInv /\ LandingInv

-------------------------------------------------------------------------------
(***************************************************************************)
(* The operators of the model.                                             *)
(***************************************************************************)
LEMMA LastType == \A c \in Copies : Last(c) \in {End, Total}
  BY DEF Last

LEMMA SlotType ==
  \A stage \in HostPC : /\ Slot(stage) \in 0 .. 3
                        /\ LeftSlot(stage) \in -1 .. 2
                        /\ LeftSlot(stage) <= Slot(stage)
  BY DEF HostPC, Slot, LeftSlot

LEMMA RankOfType == \A c \in Copies : RankOf[c] \in Ranks
  BY CopiesAssumption

LEMMA InitIInv == Init => IInv
  <1> SUFFICES ASSUME Init PROVE IInv
    OBVIOUS
  <1> USE SamplesAssumption, CopiesAssumption
  <1>1. TypeOK
    BY DEF Init, TypeOK, HostPC, Total
  <1>2. SampleInv
    BY DEF Init, SampleInv
  <1>3. BarrierInv
    BY DEF Init, BarrierInv, Entered, Left, Slot, LeftSlot
  <1>4. StreamInv
    BY LastType DEF Init, StreamInv, End, Total
  <1>5. LandingInv
    BY DEF Init, LandingInv
  <1>6. QED
    BY <1>1, <1>2, <1>3, <1>4, <1>5 DEF IInv

\* What a step of the host thread of r does to the stages of all ranks.
LEMMA TypeStep == IInv /\ [Next]_vars => TypeOK'
  <1> SUFFICES ASSUME IInv, [Next]_vars PROVE TypeOK'
    OBVIOUS
  <1> USE SamplesAssumption, RankOfType, LastType DEF IInv
  <1>1. ASSUME NEW r \in Ranks, StreamBlockerReset(r) PROVE TypeOK'
    <2>1. sample[r] < Samples
      BY <1>1 DEF SampleInv, StreamBlockerReset, Goto, TypeOK
    <2>2. landing[r] + 1 \in 0 .. Samples
      BY <1>1, <2>1 DEF LandingInv, StreamBlockerReset, Goto, TypeOK
    <2>3. QED
      BY <1>1, <2>2 DEF StreamBlockerReset, Goto, TypeOK, HostPC
  <1>2. ASSUME NEW r \in Ranks, BeginSample(r) PROVE TypeOK'
    BY <1>2 DEF BeginSample, Goto, TypeOK, HostPC, Total
  <1>3. ASSUME NEW r \in Ranks, NEW c \in Local(r), Enqueue(r, c) PROVE TypeOK'
    BY <1>3 DEF Enqueue, Unqueued, Local, TypeOK, End, Total
  <1>4. ASSUME NEW r \in Ranks, StreamBlockerRelease(r) PROVE TypeOK'
    BY <1>4 DEF StreamBlockerRelease, Goto, TypeOK, HostPC
  <1>5. ASSUME NEW r \in Ranks, DrainStreams(r) PROVE TypeOK'
    BY <1>5 DEF DrainStreams, Goto, TypeOK, HostPC
  <1>6. ASSUME NEW r \in Ranks, EndSample(r) PROVE TypeOK'
    BY <1>6 DEF EndSample, Goto, TypeOK, HostPC
  <1>7. ASSUME NEW r \in Ranks, ReadSample(r) PROVE TypeOK'
    <2>1. sample[r] < Samples
      BY <1>7 DEF SampleInv, ReadSample, TypeOK
    <2>2. QED
      BY <1>7, <2>1 DEF ReadSample, NextSample, TypeOK, HostPC
  <1>8. ASSUME NEW r \in Ranks, ReduceTotal(r) PROVE TypeOK'
    <2>1. sample[r] < Samples
      BY <1>8 DEF SampleInv, ReduceTotal, TypeOK
    <2>2. QED
      BY <1>8, <2>1 DEF ReduceTotal, NextSample, TypeOK, HostPC
  <1>9. ASSUME NEW r \in Ranks, CollectResult(r) PROVE TypeOK'
    BY <1>9 DEF CollectResult, Goto, TypeOK, HostPC
  <1>10. ASSUME NEW r \in Ranks, LandReset(r) PROVE TypeOK'
    BY <1>10 DEF LandReset, TypeOK
  <1>11. ASSUME NEW c \in Copies, Device(c) PROVE TypeOK'
    <2>1. CASE RaiseDeviceLatch(c)
      BY <2>1 DEF RaiseDeviceLatch, TypeOK
    <2>2. ASSUME Completed(c), retired[c] < queued[c] PROVE TypeOK'
      BY <2>2 DEF Completed, TypeOK, Total
    <2>3. QED
      BY <1>11, <2>1, <2>2 DEF Device, SpinReleased, SpinTimeout, Retire, Spinning, Spin, TypeOK, Total
  <1>12. CASE UNCHANGED vars
    BY <1>12 DEF vars, TypeOK
  <1>13. QED
    BY <1>1, <1>2, <1>3, <1>4, <1>5, <1>6, <1>7, <1>8, <1>9, <1>10, <1>11, <1>12
       DEF Next, Host, Finished

\* Only the step of a rank itself moves it on, to the next collective call
\* when everyone has entered that, and within the sample or to the next one.
LEMMA SampleStep == IInv /\ [Next]_vars => SampleInv' /\ LandingInv'
  <1> SUFFICES ASSUME IInv, [Next]_vars PROVE SampleInv' /\ LandingInv'
    OBVIOUS
  <1> USE SamplesAssumption DEF IInv, TypeOK, SampleInv, LandingInv
  <1>1. ASSUME NEW r \in Ranks, StreamBlockerReset(r) PROVE SampleInv' /\ LandingInv'
    BY <1>1 DEF StreamBlockerReset, Goto
  <1>2. ASSUME NEW r \in Ranks, BeginSample(r) PROVE SampleInv' /\ LandingInv'
    BY <1>2 DEF BeginSample, Goto
  <1>3. ASSUME NEW r \in Ranks, NEW c \in Local(r), Enqueue(r, c)
        PROVE  SampleInv' /\ LandingInv'
    BY <1>3 DEF Enqueue
  <1>4. ASSUME NEW r \in Ranks, StreamBlockerRelease(r) PROVE SampleInv' /\ LandingInv'
    BY <1>4 DEF StreamBlockerRelease, Goto
  <1>5. ASSUME NEW r \in Ranks, DrainStreams(r) PROVE SampleInv' /\ LandingInv'
    BY <1>5 DEF DrainStreams, Goto
  <1>6. ASSUME NEW r \in Ranks, EndSample(r) PROVE SampleInv' /\ LandingInv'
    BY <1>6 DEF EndSample, Goto
  <1>7. ASSUME NEW r \in Ranks, ReadSample(r) PROVE SampleInv' /\ LandingInv'
    BY <1>7 DEF ReadSample, NextSample
  <1>8. ASSUME NEW r \in Ranks, ReduceTotal(r) PROVE SampleInv' /\ LandingInv'
    BY <1>8 DEF ReduceTotal, NextSample
  <1>9. ASSUME NEW r \in Ranks, CollectResult(r) PROVE SampleInv' /\ LandingInv'
    BY <1>9 DEF CollectResult, Goto
  <1>10. ASSUME NEW r \in Ranks, LandReset(r) PROVE SampleInv' /\ LandingInv'
    BY <1>10 DEF LandReset
  <1>11. ASSUME NEW c \in Copies, Device(c) PROVE SampleInv' /\ LandingInv'
    BY <1>11 DEF Device, RaiseDeviceLatch, SpinReleased, SpinTimeout, Retire, Completed
  <1>12. CASE UNCHANGED vars
    BY <1>12 DEF vars
  <1>13. QED
    BY <1>1, <1>2, <1>3, <1>4, <1>5, <1>6, <1>7, <1>8, <1>9, <1>10, <1>11, <1>12
       DEF Next, Host, Finished

\* A rank that moves on has entered no less than before, and what it has left
\* everyone has entered.
LEMMA BarrierStep == IInv /\ [Next]_vars => BarrierInv'
  <1> SUFFICES ASSUME IInv, [Next]_vars PROVE BarrierInv'
    OBVIOUS
  <1> DEFINE Moves(r) ==
        /\ \A q \in Ranks \ {r} : Entered(q)' = Entered(q) /\ Left(q)' = Left(q)
        /\ Entered(r)' >= Entered(r)
        /\ Entered(r)' \in Int /\ Left(r)' \in Int
        /\ Left(r)' <= Entered(r)'
        /\ Left(r)' <= Left(r) \/ \A q \in Ranks \ {r} : Left(r)' <= Entered(q)
  <1> USE SamplesAssumption DEF IInv, TypeOK
  <1>0. \A q \in Ranks : Entered(q) \in Int /\ Left(q) \in Int
    BY SlotType DEF Entered, Left
  <1>a. ASSUME NEW r \in Ranks, Moves(r) PROVE BarrierInv'
    <2> SUFFICES ASSUME NEW p \in Ranks, NEW q \in Ranks
                 PROVE  Entered(q)' >= Left(p)'
      BY DEF BarrierInv
    <2> HIDE DEF IInv, TypeOK
    <2>1. Entered(q) >= Left(p)
      BY DEF IInv, BarrierInv
    <2>2. CASE p = r /\ q = r
      BY <1>a, <2>2
    <2>3. CASE p = r /\ q # r
      BY <1>0, <1>a, <2>1, <2>3
    <2>4. CASE p # r
      BY <1>0, <1>a, <2>1, <2>4
    <2>5. QED
      BY <2>2, <2>3, <2>4
  <1> USE DEF Entered, Left, Slot, LeftSlot, HostPC
  <1>1. ASSUME NEW r \in Ranks, StreamBlockerReset(r) PROVE Moves(r)
    BY <1>1 DEF StreamBlockerReset, Goto
  <1>2. ASSUME NEW r \in Ranks, BeginSample(r) PROVE Moves(r)
    BY <1>2 DEF BeginSample, Goto, EntryBarrier, AllEntered
  <1>3. ASSUME NEW r \in Ranks, StreamBlockerRelease(r) PROVE Moves(r)
    BY <1>3 DEF StreamBlockerRelease, Goto
  <1>4. ASSUME NEW r \in Ranks, DrainStreams(r) PROVE Moves(r)
    BY <1>4 DEF DrainStreams, Goto
  <1>5. ASSUME NEW r \in Ranks, EndSample(r) PROVE Moves(r)
    BY <1>5 DEF EndSample, Goto, ExitBarrier, AllEntered
  <1>6. ASSUME NEW r \in Ranks, ReadSample(r) PROVE Moves(r)
    BY <1>6 DEF ReadSample, NextSample
  <1>7. ASSUME NEW r \in Ranks, ReduceTotal(r) PROVE Moves(r)
    BY <1>7 DEF ReduceTotal, NextSample
  <1>8. ASSUME NEW r \in Ranks, CollectResult(r) PROVE Moves(r)
    BY <1>8 DEF CollectResult, Goto
  <1>9. ASSUME UNCHANGED <<pc, sample>> PROVE BarrierInv'
    BY <1>9 DEF BarrierInv
  <1>10. ASSUME NEW r \in Ranks, NEW c \in Local(r), Enqueue(r, c)
         PROVE  UNCHANGED <<pc, sample>>
    BY <1>10 DEF Enqueue
  <1>11. ASSUME NEW r \in Ranks, LandReset(r) PROVE UNCHANGED <<pc, sample>>
    BY <1>11 DEF LandReset
  <1>12. ASSUME NEW c \in Copies, Device(c) PROVE UNCHANGED <<pc, sample>>
    BY <1>12 DEF Device, RaiseDeviceLatch, SpinReleased, SpinTimeout, Retire, Completed
  <1>13. CASE UNCHANGED vars
    BY <1>9, <1>13 DEF vars
  <1> HIDE DEF Moves
  <1>14. QED
    BY <1>a, <1>1, <1>2, <1>3, <1>4, <1>5, <1>6, <1>7, <1>8, <1>9, <1>10, <1>11,
       <1>12, <1>13 DEF Next, Host, Finished

\* The host fills a stream inside the window and drains it before it leaves
\* the window; the device never runs ahead of the host.
LEMMA StreamStep == IInv /\ [Next]_vars => StreamInv'
  <1> SUFFICES ASSUME IInv, [Next]_vars PROVE StreamInv'
    OBVIOUS
  <1> USE SamplesAssumption, RankOfType, LastType DEF IInv, TypeOK, StreamInv, InWindow
  <1>1. ASSUME NEW r \in Ranks, StreamBlockerReset(r) PROVE StreamInv'
    BY <1>1 DEF StreamBlockerReset, Goto
  <1>2. ASSUME NEW r \in Ranks, BeginSample(r) PROVE StreamInv'
    BY <1>2 DEF BeginSample, Goto, Local, End, Total
  <1>3. ASSUME NEW r \in Ranks, NEW c \in Local(r), Enqueue(r, c) PROVE StreamInv'
    BY <1>3 DEF Enqueue, Unqueued, Local, End, Total
  <1>4. ASSUME NEW r \in Ranks, StreamBlockerRelease(r) PROVE StreamInv'
    <2>1. \A c \in Local(r) : queued[c] = Last(c)
      BY <1>4 DEF StreamBlockerRelease, Unqueued, Local, End, Total
    <2>2. QED
      BY <1>4, <2>1 DEF StreamBlockerRelease, Goto, Local
  <1>5. ASSUME NEW r \in Ranks, DrainStreams(r) PROVE StreamInv'
    BY <1>5 DEF DrainStreams, Goto, Drained, Local
  <1>6. ASSUME NEW r \in Ranks, EndSample(r) PROVE StreamInv'
    BY <1>6 DEF EndSample, Goto
  <1>7. ASSUME NEW r \in Ranks, ReadSample(r) PROVE StreamInv'
    BY <1>7 DEF ReadSample, NextSample
  <1>8. ASSUME NEW r \in Ranks, ReduceTotal(r) PROVE StreamInv'
    BY <1>8 DEF ReduceTotal, NextSample
  <1>9. ASSUME NEW r \in Ranks, CollectResult(r) PROVE StreamInv'
    BY <1>9 DEF CollectResult, Goto
  <1>10. ASSUME NEW r \in Ranks, LandReset(r) PROVE StreamInv'
    BY <1>10 DEF LandReset
  <1>11. ASSUME NEW c \in Copies, Device(c) PROVE StreamInv'
    <2>1. CASE RaiseDeviceLatch(c)
      BY <2>1 DEF RaiseDeviceLatch
    <2>2. ASSUME Completed(c), retired[c] < queued[c] PROVE StreamInv'
      BY <2>2 DEF Completed, End, Total
    <2>3. QED
      BY <1>11, <2>1, <2>2
         DEF Device, SpinReleased, SpinTimeout, Retire, Spinning, Spin, Total
  <1>12. CASE UNCHANGED vars
    BY <1>12 DEF vars
  <1>13. QED
    BY <1>1, <1>2, <1>3, <1>4, <1>5, <1>6, <1>7, <1>8, <1>9, <1>10, <1>11, <1>12
       DEF Next, Host, Finished

LEMMA Inductive == Spec => []IInv
  <1>1. IInv /\ [Next]_vars => IInv'
    BY TypeStep, SampleStep, BarrierStep, StreamStep DEF IInv
  <1>2. QED
    BY InitIInv, <1>1, PTL DEF Spec

-------------------------------------------------------------------------------
(***************************************************************************)
(* Theorems.                                                               *)
(***************************************************************************)

\* The state of an operation is well typed: samples and the resets in flight
\* are bounded by averageLoopCount, a stream never holds more than one list of
\* operations.
THEOREM TypeCorrect == Spec => []TypeOK
  <1>1. IInv => TypeOK
    BY DEF IInv
  <1>2. QED
    BY Inductive, <1>1, PTL

\* Where two ranks can be when one is past a collective call of its sample.
LEMMA Aligned ==
  ASSUME IInv, NEW r \in Ranks, NEW q \in Ranks
  PROVE  /\ InWindow(q) /\ pc[r] \in {"entry", "enqueue", "drain", "exit", "stats"} =>
               /\ sample[r] = sample[q]
               /\ pc[r] # "stats"
         /\ InWindow(q) => pc[r] # "reset"
         /\ pc[r] = "stats" /\ sample[q] = 0 => pc[q] \in {"exit", "stats", "reduce"}
  <1> USE SamplesAssumption
  <1>1. Entered(q) >= Left(r) /\ Entered(r) >= Left(q)
    BY DEF IInv, BarrierInv
  <1>2. QED
    BY <1>1 DEF IInv, TypeOK, SampleInv, HostPC, InWindow, Entered, Left, Slot, LeftSlot

\* synchronizeProcess after the streams are drained: while any rank verifies
\* and reads a sample no stream of any rank still holds work, for every number
\* of ranks, copies and samples, and whatever times out or lands late.
THEOREM VerificationIsQuiet == Spec => []NoTrafficDuringVerification
  <1>1. IInv => NoTrafficDuringVerification
    <2> SUFFICES ASSUME IInv, NEW r \in Ranks, pc[r] = "stats", NEW c \in Copies
                 PROVE  retired[c] = Last(c)
      BY DEF NoTrafficDuringVerification
    <2> DEFINE q == RankOf[c]
    <2>1. q \in Ranks
      BY RankOfType
    <2>2. ~InWindow(q)
      BY <2>1, Aligned DEF InWindow
    <2>3. retired[c] = queued[c]
      BY <2>2 DEF IInv, StreamInv
    <2>4. CASE sample[q] = 0
      BY <2>1, <2>3, <2>4, Aligned DEF IInv, StreamInv
    <2>5. CASE sample[q] > 0
      BY <2>2, <2>3, <2>5 DEF IInv, StreamInv, InWindow
    <2>6. QED
      BY <2>1, <2>4, <2>5, SamplesAssumption DEF IInv, TypeOK
  <1>2. QED
    BY Inductive, <1>1, PTL

\* streamBlockerReset clears the word that all ranks share, and it does so
\* only while no spin kernel of any rank polls it: no rank can lose a release.
\* This needs cuMemsetD32 to have taken effect when it returns.
THEOREM ResetIsSafe == ASSUME ~AsyncReset PROVE Spec => ResetOnlyWhenNobodySpins
  <1>1. IInv /\ [Next]_vars =>
          [deviceLatch = 1 /\ deviceLatch' = 0 => \A c \in Copies : ~Spinning(c)]_vars
    <2> SUFFICES ASSUME IInv, Next, deviceLatch = 1, deviceLatch' = 0,
                        NEW c \in Copies
                 PROVE  ~Spinning(c)
      BY DEF vars
    <2>1. PICK r \in Ranks : StreamBlockerReset(r) \/ LandReset(r)
      BY DEF Next, Host, Device, Finished, vars, BeginSample, Enqueue, StreamBlockerRelease,
             DrainStreams, EndSample, ReadSample, ReduceTotal, CollectResult,
             RaiseDeviceLatch, SpinReleased, SpinTimeout, Retire, Completed
    <2>2. landing[r] = 0
      BY DEF IInv, LandingInv
    <2>3. pc[r] = "reset"
      BY <2>1, <2>2 DEF StreamBlockerReset, Goto, LandReset
    <2>4. ~InWindow(RankOf[c])
      BY <2>3, RankOfType, Aligned
    <2>5. QED
      BY <2>4 DEF IInv, TypeOK, StreamInv, Spinning, Spin
  <1>2. QED
    BY Inductive, <1>1, PTL DEF Spec, ResetOnlyWhenNobodySpins

-------------------------------------------------------------------------------
(***************************************************************************)
(* The release of the streams, when the latches behave: no spin kernel     *)
(* times out and a reset has taken effect when it returns.                 *)
(***************************************************************************)

\* The first rank has queued everything in the sample that r is in.
ReleasedSince(r) ==
  \/ sample[FirstRank] > sample[r]
  \/ sample[FirstRank] = sample[r] /\ pc[FirstRank] \in {"drain", "exit", "stats", "reduce"}

Begun(r) == pc[r] \in {"enqueue", "drain", "exit"}

LatchInv ==
  /\ pc[FirstRank] \in {"entry", "enqueue"} => hostLatch[FirstRank] = 0
  /\ Helper = "multi" /\ deviceLatch = 1 =>
       \A r \in Ranks : pc[r] \in {"entry", "enqueue", "drain"} => ReleasedSince(r)

PassedInv ==
  \A c \in Copies : Begun(RankOf[c]) /\ retired[c] >= Spin =>
    /\ ReleasedSince(RankOf[c])
    /\ InWindow(FirstRank) => GateOpen

ReleaseInv == LatchInv /\ PassedInv

LEMMA FirstRankType == FirstRank \in Ranks /\ 1 \in Copies
  BY CopiesAssumption DEF FirstRank, Copies

LEMMA InitReleaseInv == Init => ReleaseInv
  BY FirstRankType, RankOfType
     DEF Init, ReleaseInv, LatchInv, PassedInv, Begun, InWindow, Spin

\* Inside its window a rank finds the first rank released, not gone on.
LEMMA ReleasedInWindow ==
  ASSUME IInv, NEW r \in Ranks, InWindow(r), ReleasedSince(r)
  PROVE  pc[FirstRank] \in {"drain", "exit"} /\ sample[FirstRank] = sample[r]
  <1>1. /\ Entered(FirstRank) >= Left(r) /\ Entered(r) >= Left(FirstRank)
        /\ pc[FirstRank] \in HostPC /\ sample[FirstRank] \in Int /\ sample[r] \in Int
    BY FirstRankType, SamplesAssumption DEF IInv, TypeOK, BarrierInv
  <1>2. QED
    BY <1>1 DEF InWindow, ReleasedSince, HostPC, Entered, Left, Slot, LeftSlot

\* When the first rank begins a sample, no rank is still in the previous one.
LEMMA NobodyBegun ==
  ASSUME IInv, EntryBarrier(FirstRank), pc[FirstRank] = "entry",
         NEW r \in Ranks, Begun(r)
  PROVE  ~ReleasedSince(r)
  <1>1. /\ Entered(r) >= Entered(FirstRank) /\ pc[r] \in HostPC
        /\ sample[FirstRank] \in Int /\ sample[r] \in Int
    BY FirstRankType, SamplesAssumption DEF EntryBarrier, AllEntered, IInv, TypeOK
  <1>2. QED
    BY <1>1 DEF Begun, ReleasedSince, HostPC, Entered, Slot

\* A reset finds no rank in its window.
LEMMA NobodyInWindow ==
  ASSUME IInv, NEW r \in Ranks, pc[r] = "reset", NEW q \in Ranks
  PROVE  ~InWindow(q)
  BY Aligned

LEMMA ReleaseStep ==
  ASSUME ~AsyncReset, ~MayTimeOut, IInv, ReleaseInv, [Next]_vars
  PROVE  ReleaseInv'
  <1> USE SamplesAssumption, FirstRankType, RankOfType, HelperAssumption
      DEF ReleaseInv, LatchInv, PassedInv, ReleasedSince, Begun, InWindow, GateOpen
  <1>0. TypeOK
    BY DEF IInv
  <1> USE <1>0 DEF TypeOK, Spin, Total
  <1>1. ASSUME NEW r \in Ranks, StreamBlockerReset(r) PROVE ReleaseInv'
    <2>1. pc[r] = "reset" /\ ~InWindow(FirstRank)
      BY <1>1, NobodyInWindow DEF StreamBlockerReset, Goto
    <2>2. QED
      BY <1>1, <2>1 DEF StreamBlockerReset, Goto
  <1>2. ASSUME NEW r \in Ranks, BeginSample(r) PROVE ReleaseInv'
    <2>1. \A c \in Copies : RankOf[c] # r =>
            retired'[c] = retired[c] /\ (Begun(RankOf[c])' <=> Begun(RankOf[c]))
      BY <1>2 DEF BeginSample, Goto, Local
    <2>2. \A c \in Copies : RankOf[c] = r => retired'[c] = 0
      BY <1>2 DEF BeginSample, Local
    <2>3. CASE r = FirstRank
      BY <1>2, <2>1, <2>2, <2>3, NobodyBegun DEF BeginSample, Goto
    <2>4. CASE r # FirstRank
      BY <1>2, <2>1, <2>2, <2>4 DEF BeginSample, Goto
    <2>5. QED
      BY <2>3, <2>4
  <1>3. ASSUME NEW r \in Ranks, NEW c \in Local(r), Enqueue(r, c) PROVE ReleaseInv'
    BY <1>3 DEF Enqueue
  <1>4. ASSUME NEW r \in Ranks, StreamBlockerRelease(r) PROVE ReleaseInv'
    BY <1>4 DEF StreamBlockerRelease, Goto
  <1>5. ASSUME NEW r \in Ranks, DrainStreams(r) PROVE ReleaseInv'
    BY <1>5 DEF DrainStreams, Goto
  <1>6. ASSUME NEW r \in Ranks, EndSample(r) PROVE ReleaseInv'
    BY <1>6 DEF EndSample, Goto
  <1>7. ASSUME NEW r \in Ranks, ReadSample(r) PROVE ReleaseInv'
    BY <1>7 DEF ReadSample, NextSample
  <1>8. ASSUME NEW r \in Ranks, ReduceTotal(r) PROVE ReleaseInv'
    BY <1>8 DEF ReduceTotal, NextSample
  <1>9. ASSUME NEW r \in Ranks, CollectResult(r) PROVE ReleaseInv'
    BY <1>9 DEF CollectResult, Goto, IInv, SampleInv
  <1>10. ASSUME NEW r \in Ranks, LandReset(r) PROVE ReleaseInv'
    BY <1>10 DEF LandReset, IInv, LandingInv
  <1>11. ASSUME NEW c \in Copies, RaiseDeviceLatch(c) PROVE ReleaseInv'
    <2>1. InWindow(FirstRank) /\ hostLatch[FirstRank] = 1 /\ Helper = "multi"
      BY <1>11 DEF RaiseDeviceLatch, Spinning, FirstStage, IInv, StreamInv
    <2>2. pc[FirstRank] = "drain"
      BY <2>1
    <2>3. \A r \in Ranks : pc[r] \in {"entry", "enqueue", "drain"} => ReleasedSince(r)
      BY <2>1, <2>2, Aligned
    <2>4. deviceLatch' = 1 /\ UNCHANGED <<pc, sample, hostLatch, retired>>
      BY <1>11 DEF RaiseDeviceLatch
    <2>5. QED
      BY <2>1, <2>2, <2>3, <2>4
  <1>12. ASSUME NEW c \in Copies, SpinReleased(c) PROVE ReleaseInv'
    <2>1. InWindow(RankOf[c])
      BY <1>12 DEF SpinReleased, Spinning, IInv, StreamInv
    <2>2. GateOpen
      BY <1>12 DEF SpinReleased, LatchUp
    <2>3. ReleasedSince(RankOf[c])
      BY <1>12, <2>1, <2>2 DEF SpinReleased, LatchUp
    <2>4. /\ UNCHANGED <<pc, sample, hostLatch, deviceLatch>>
          /\ \A d \in Copies : d # c => retired'[d] = retired[d]
      BY <1>12 DEF SpinReleased, Completed
    <2>5. QED
      BY <2>2, <2>3, <2>4
  <1>13. ASSUME NEW c \in Copies, Retire(c) PROVE ReleaseInv'
    BY <1>13 DEF Retire, Completed
  <1>14. CASE UNCHANGED vars
    BY <1>14 DEF vars
  <1>15. QED
    BY <1>1, <1>2, <1>3, <1>4, <1>5, <1>6, <1>7, <1>8, <1>9, <1>10, <1>11, <1>12,
       <1>13, <1>14 DEF Next, Host, Device, SpinTimeout, Finished

LEMMA Released ==
  ASSUME ~AsyncReset, ~MayTimeOut
  PROVE  Spec => [](IInv /\ ReleaseInv)
  <1>1. Init => IInv /\ ReleaseInv
    BY InitIInv, InitReleaseInv
  <1>2. IInv /\ ReleaseInv /\ [Next]_vars => IInv' /\ ReleaseInv'
    BY ReleaseStep, TypeStep, SampleStep, BarrierStep, StreamStep DEF IInv
  <1>3. QED
    BY <1>1, <1>2, PTL DEF Spec

\* streamBlockerBlock and streamBlockerRelease: on no rank does a copy, not
\* even a warmup copy, run before the first rank has queued and released the
\* whole sample, in the same sample.
THEOREM ReleaseStartsTheCopies ==
  ASSUME ~AsyncReset, ~MayTimeOut
  PROVE  Spec => []NoCopyBeforeRelease
  <1>1. IInv /\ ReleaseInv => NoCopyBeforeRelease
    BY RankOfType, ReleasedInWindow
       DEF ReleaseInv, PassedInv, NoCopyBeforeRelease, Begun, InWindow
  <1>2. QED
    BY Released, <1>1, PTL

-------------------------------------------------------------------------------
(***************************************************************************)
(* The latches implement the gate.                                         *)
(***************************************************************************)
LEMMA GateInit == Init => Gate!Init
  <1> SUFFICES ASSUME Init PROVE Gate!Init
    OBVIOUS
  <1>1. NotStarted
    BY DEF Init, NotStarted
  <1>2. GateOpen \in BOOLEAN
    BY DEF GateOpen
  <1>3. Through = IF GateOpen THEN Copies ELSE {}
    BY <1>1 DEF Through
  <1>4. QED
    BY <1>2, <1>3 DEF Gate!Init

\* Steps that neither move a latch nor take a copy past it.
LEMMA GateStutter ==
  ASSUME GateOpen' = GateOpen,
         GateOpen => /\ NotStarted' <=> NotStarted
                     /\ \A c \in Copies : PastGate(c)' <=> PastGate(c)
  PROVE  UNCHANGED Gate!vars
  BY DEF Through, Gate!vars

LEMMA GateOpens ==
  ASSUME ~GateOpen, GateOpen', ~NotStarted', \A c \in Copies : ~PastGate(c)'
  PROVE  Gate!Open
  BY DEF Through, Gate!Open, GateOpen

LEMMA GateCloses ==
  ASSUME GateOpen, ~GateOpen', NotStarted \/ \A c \in Copies : PastGate(c)
  PROVE  Gate!Close
  BY DEF Through, Gate!Close, GateOpen

\* Whoever resets an open gate finds every copy of the last sample through.
LEMMA ResetFindsAllThrough ==
  ASSUME IInv, ReleaseInv, NEW r \in Ranks, pc[r] = "reset", GateOpen, ~NotStarted,
         NEW c \in Copies
  PROVE  PastGate(c)
  <1> DEFINE q == RankOf[c]
  <1> USE FirstRankType, RankOfType, SamplesAssumption
  <1>1. TypeOK /\ SampleInv /\ BarrierInv /\ q \in Ranks
    BY DEF IInv
  <1>2. ~InWindow(q)
    BY <1>1, NobodyInWindow
  <1>3. pc[q] # "entry"
    <2> SUFFICES ASSUME pc[q] = "entry" PROVE FALSE
      OBVIOUS
    <2>1. q # r /\ Helper = "multi"
      BY <1>1, HelperAssumption
    <2>2. ReleasedSince(q)
      BY <1>1, <2>1 DEF ReleaseInv, LatchInv, GateOpen
    <2>3. /\ Entered(q) >= Left(r)
          /\ Entered(r) >= Left(FirstRank)
          /\ Entered(q) >= Left(FirstRank)
      BY <1>1 DEF BarrierInv
    <2>4. /\ sample[q] \in Int /\ sample[r] \in Int /\ sample[FirstRank] \in Int
          /\ pc[FirstRank] \in HostPC
      BY <1>1 DEF TypeOK
    <2>5. QED
      BY <2>2, <2>3, <2>4 DEF ReleasedSince, Entered, Left, Slot, LeftSlot, HostPC
  <1>4. sample[q] > 0 \/ pc[q] \in {"exit", "stats", "reduce"}
    <2> SUFFICES ASSUME sample[q] = 0, pc[q] \notin {"exit", "stats", "reduce"} PROVE FALSE
      BY <1>1 DEF TypeOK
    <2>1. pc[q] = "reset"
      BY <1>1, <1>2, <1>3 DEF TypeOK, SampleInv, InWindow, HostPC
    <2>2. \A p \in Ranks : sample[p] = 0 /\ pc[p] \in {"reset", "entry"}
      <3> SUFFICES ASSUME NEW p \in Ranks
                   PROVE  sample[p] = 0 /\ pc[p] \in {"reset", "entry"}
        OBVIOUS
      <3>1. Entered(q) >= Left(p) /\ sample[p] \in Nat /\ pc[p] \in HostPC
        BY <1>1 DEF BarrierInv, TypeOK
      <3>2. sample[p] = 0 /\ pc[p] \in {"reset", "entry", "collect", "done"}
        BY <2>1, <3>1 DEF Entered, Left, Slot, LeftSlot, HostPC
      <3>3. QED
        BY <1>1, <3>2 DEF SampleInv
    <2>3. QED
      BY <2>2 DEF NotStarted
  <1>5. queued[c] = Last(c) /\ retired[c] = queued[c]
    BY <1>2, <1>4 DEF IInv, StreamInv, InWindow
  <1>6. QED
    BY <1>3, <1>5, LastType DEF PastGate, Spin, End, Total

\* Every step of the operation is a step of the gate or leaves it alone.
LEMMA GateStep ==
  ASSUME ~AsyncReset, ~MayTimeOut, IInv, ReleaseInv, [Next]_vars
  PROVE  [Gate!Next]_Gate!vars
  <1> USE SamplesAssumption, FirstRankType, RankOfType, HelperAssumption
  <1>0. TypeOK /\ SampleInv /\ StreamInv /\ LatchInv /\ PassedInv
    BY DEF IInv, ReleaseInv
  <1> USE <1>0
  <1>1. ASSUME NEW r \in Ranks, StreamBlockerReset(r) PROVE [Gate!Next]_Gate!vars
    <2>1. pc[r] = "reset" /\ ~GateOpen'
      BY <1>1 DEF StreamBlockerReset, Goto, GateOpen, TypeOK
    <2>2. CASE GateOpen
      BY <2>1, <2>2, ResetFindsAllThrough, GateCloses DEF Gate!Next
    <2>3. CASE ~GateOpen
      <3>1. GateOpen' = GateOpen
        BY <2>1, <2>3 DEF GateOpen
      <3>2. QED
        BY <2>3, <3>1, GateStutter
    <2>4. QED
      BY <2>2, <2>3
  <1>2. ASSUME NEW r \in Ranks, BeginSample(r) PROVE UNCHANGED Gate!vars
    <2>1. pc[r] = "entry" /\ GateOpen' = GateOpen
      BY <1>2 DEF BeginSample, Goto, GateOpen
    <2>2. ASSUME GateOpen PROVE ~NotStarted
      <3>1. ReleasedSince(r)
        BY <2>1, <2>2 DEF GateOpen, LatchInv
      <3>2. QED
        BY <3>1 DEF ReleasedSince, NotStarted, TypeOK
    <2>3. ~NotStarted'
      BY <1>2 DEF BeginSample, Goto, NotStarted, TypeOK
    <2>4. ASSUME NEW c \in Copies PROVE PastGate(c)' <=> PastGate(c)
      <3>1. CASE RankOf[c] = r
        BY <1>2, <2>1, <3>1 DEF BeginSample, Goto, PastGate, Local, Spin, TypeOK
      <3>2. CASE RankOf[c] # r
        BY <1>2, <3>2 DEF BeginSample, Goto, PastGate, Local, TypeOK
      <3>3. QED
        BY <3>1, <3>2
    <2>5. QED
      BY <2>1, <2>2, <2>3, <2>4, GateStutter
  <1>3. ASSUME NEW r \in Ranks, NEW c \in Local(r), Enqueue(r, c)
        PROVE  UNCHANGED Gate!vars
    BY <1>3, GateStutter DEF Enqueue, GateOpen, NotStarted, PastGate
  <1>4. ASSUME NEW r \in Ranks, StreamBlockerRelease(r) PROVE [Gate!Next]_Gate!vars
    <2>1. /\ pc[r] = "enqueue" /\ pc' = [pc EXCEPT ![r] = "drain"]
          /\ hostLatch' = [hostLatch EXCEPT ![r] = 1]
          /\ UNCHANGED <<sample, deviceLatch, retired>>
      BY <1>4 DEF StreamBlockerRelease, Goto
    <2>2. ~NotStarted /\ ~NotStarted'
      BY <2>1 DEF NotStarted, TypeOK
    <2>3. \A c \in Copies : PastGate(c)' <=> PastGate(c)
      BY <2>1 DEF PastGate, TypeOK
    <2>4. CASE Helper = "single"
      <3>1. r = FirstRank /\ \A c \in Copies : RankOf[c] = FirstRank
        BY <2>4
      <3>2. ~GateOpen /\ GateOpen'
        BY <2>1, <2>4, <3>1 DEF GateOpen, LatchInv, TypeOK
      <3>3. \A c \in Copies : ~PastGate(c)
        BY <2>1, <3>1, <3>2 DEF PassedInv, PastGate, Begun, InWindow
      <3>4. QED
        BY <2>2, <2>3, <3>2, <3>3, GateOpens DEF Gate!Next
    <2>5. CASE Helper = "multi"
      <3>1. GateOpen' = GateOpen
        BY <2>1, <2>5 DEF GateOpen
      <3>2. QED
        BY <2>2, <2>3, <3>1, GateStutter
    <2>6. QED
      BY <2>4, <2>5
  <1>5. ASSUME NEW r \in Ranks,
               DrainStreams(r) \/ EndSample(r) \/ ReadSample(r) \/ ReduceTotal(r)
               \/ CollectResult(r)
        PROVE  UNCHANGED Gate!vars
    <2>1. /\ pc[r] \notin {"reset", "entry"} /\ pc'[r] # "entry"
          /\ pc' = [pc EXCEPT ![r] = pc'[r]]
          /\ UNCHANGED <<hostLatch, deviceLatch, retired>>
      BY <1>5 DEF DrainStreams, EndSample, ReadSample, ReduceTotal, CollectResult,
                  Goto, NextSample, TypeOK
    <2>2. sample'[r] > 0 \/ pc'[r] # "reset"
      BY <1>5 DEF DrainStreams, EndSample, ReadSample, ReduceTotal, CollectResult,
                  Goto, NextSample, TypeOK
    <2>3. ~NotStarted /\ ~NotStarted'
      BY <2>1, <2>2 DEF NotStarted, TypeOK
    <2>4. \A c \in Copies : PastGate(c)' <=> PastGate(c)
      BY <2>1 DEF PastGate, TypeOK
    <2>5. QED
      BY <2>1, <2>3, <2>4, GateStutter DEF GateOpen
  <1>6. ASSUME NEW r \in Ranks, LandReset(r) PROVE FALSE
    BY <1>6 DEF LandReset, IInv, LandingInv
  <1>7. ASSUME NEW c \in Copies, RaiseDeviceLatch(c) PROVE [Gate!Next]_Gate!vars
    <2>1. InWindow(FirstRank) /\ Helper = "multi"
      BY <1>7 DEF RaiseDeviceLatch, Spinning, Spin, FirstStage, StreamInv, TypeOK
    <2>2. GateOpen' /\ UNCHANGED <<pc, sample, hostLatch, retired>>
      BY <1>7, <2>1 DEF RaiseDeviceLatch, GateOpen
    <2>3. ~NotStarted /\ ~NotStarted'
      <3>1. pc'[FirstRank] = pc[FirstRank] /\ pc[FirstRank] \in {"enqueue", "drain"}
        BY <2>1, <2>2 DEF InWindow
      <3>2. QED
        BY <3>1 DEF NotStarted
    <2>4. \A d \in Copies : PastGate(d)' <=> PastGate(d)
      BY <2>2 DEF PastGate
    <2>5. CASE GateOpen
      <3>1. GateOpen' = GateOpen
        BY <2>2, <2>5 DEF GateOpen
      <3>2. QED
        BY <2>3, <2>4, <3>1, GateStutter
    <2>6. CASE ~GateOpen
      <3> SUFFICES ASSUME NEW d \in Copies PROVE ~PastGate(d)
        BY <2>2, <2>3, <2>4, <2>6, GateOpens DEF Gate!Next
      <3>1. pc[RankOf[d]] # "reset"
        BY <2>1, NobodyInWindow
      <3>2. pc[RankOf[d]] \notin {"stats", "reduce", "collect", "done"}
        <4> DEFINE q == RankOf[d]
        <4>1. /\ Entered(q) >= Left(FirstRank) /\ Entered(FirstRank) >= Left(q)
              /\ sample[q] \in Int /\ sample[FirstRank] \in Int
          BY DEF IInv, BarrierInv, TypeOK
        <4>2. QED
          BY <2>1, <4>1 DEF InWindow, Entered, Left, Slot, LeftSlot
      <3>3. QED
        BY <2>1, <2>6, <3>1, <3>2 DEF PassedInv, PastGate, Begun, TypeOK, HostPC
    <2>7. QED
      BY <2>5, <2>6
  <1>8. ASSUME NEW c \in Copies, SpinReleased(c) PROVE Gate!Pass(c)
    <2>1. InWindow(RankOf[c]) /\ retired[c] = 0 /\ GateOpen
      BY <1>8 DEF SpinReleased, Spinning, Spin, LatchUp, GateOpen, StreamInv, TypeOK
    <2>2. /\ retired' = [retired EXCEPT ![c] = @ + 1]
          /\ UNCHANGED <<pc, sample, hostLatch, deviceLatch>>
      BY <1>8 DEF SpinReleased, Completed
    <2>3. ~NotStarted /\ ~NotStarted'
      <3>1. /\ pc'[RankOf[c]] = pc[RankOf[c]] /\ pc[RankOf[c]] \in {"enqueue", "drain"}
            /\ RankOf[c] \in Ranks
        BY <2>1, <2>2 DEF InWindow
      <3>2. QED
        BY <3>1 DEF NotStarted
    <2>4. GateOpen' /\ GateOpen' = GateOpen
      BY <2>1, <2>2 DEF GateOpen
    <2>5. Through = {d \in Copies : PastGate(d)} /\ Through' = {d \in Copies : PastGate(d)'}
      BY <2>1, <2>3, <2>4 DEF Through
    <2>6. PastGate(c)' /\ ~PastGate(c)
      BY <2>1, <2>2 DEF PastGate, InWindow, Spin, TypeOK
    <2>7. \A d \in Copies \ {c} : PastGate(d)' <=> PastGate(d)
      BY <2>2 DEF PastGate, TypeOK
    <2>8. QED
      BY <2>1, <2>4, <2>5, <2>6, <2>7 DEF Gate!Pass
  <1>9. ASSUME NEW c \in Copies, Retire(c) PROVE UNCHANGED Gate!vars
    <2>1. \A d \in Copies : PastGate(d)' <=> PastGate(d)
      BY <1>9 DEF Retire, Completed, PastGate, Spin, TypeOK, Total
    <2>2. UNCHANGED <<pc, sample, hostLatch, deviceLatch>>
      BY <1>9 DEF Retire, Completed
    <2>3. GateOpen' = GateOpen /\ NotStarted' = NotStarted
      BY <2>2 DEF GateOpen, NotStarted
    <2>4. QED
      BY <2>1, <2>3, GateStutter
  <1>10. CASE UNCHANGED vars
    BY <1>10, GateStutter DEF vars, GateOpen, NotStarted, PastGate
  <1>11. QED
    BY <1>1, <1>2, <1>3, <1>4, <1>5, <1>6, <1>7, <1>8, <1>9, <1>10
       DEF Next, Host, Device, SpinTimeout, Finished, Gate!Next

\* The two-stage latch of NodeHelperMulti, and the single latch of
\* NodeHelperSingle, implement the gate that StreamGate specifies: opened once
\* a sample, closed only when every copy of every rank is through.
THEOREM BlockerImplementsGate ==
  ASSUME ~AsyncReset, ~MayTimeOut
  PROVE  Spec => ImplementsGate
  <1>1. IInv /\ ReleaseInv /\ [Next]_vars => [Gate!Next]_Gate!vars
    BY GateStep
  <1>2. QED
    BY Released, GateInit, <1>1, PTL DEF Spec, ImplementsGate, Gate!Spec
===============================================================================
