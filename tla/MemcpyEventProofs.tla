-------------------------- MODULE MemcpyEventProofs --------------------------
(***************************************************************************)
(* What the events of MemcpyCore bound, for every number of ranks, copies  *)
(* and samples, and also when spin kernels time out.                       *)
(***************************************************************************)
EXTENDS MemcpyCoreProofs, FiniteSetTheorems, WellFoundedInduction

\* A set of natural numbers that is not empty has a least element: the sets
\* 0 .. n - 1 are finite, and finite sets are well-founded under inclusion.
LEMMA LeastNatural ==
  ASSUME NEW S, S \subseteq Nat, S # {}
  PROVE  \E m \in S : \A n \in S : m <= n
  <1> DEFINE Below(n) == 0 .. (n - 1)
             T == {Below(n) : n \in S}
             R == StrictSubsetOrdering(Nat)
  <1>1. IsWellFoundedOn(R, FiniteSubsetsOf(Nat))
    BY FS_StrictSubsetOrderingWellFounded
  <1>2. \A n \in S : IsFiniteSet(Below(n))
    BY FS_Interval
  <1>3. T \subseteq FiniteSubsetsOf(Nat)
    BY <1>2 DEF FiniteSubsetsOf
  <1>4. T # {}
    OBVIOUS
  <1>5. \E x \in T : \A y \in T : ~(<<y, x>> \in R)
    <2> HIDE DEF T, R
    <2>1. QED
      BY <1>1, <1>3, <1>4, WFMin
  <1>6. PICK m \in S : \A n \in S : ~(<<Below(n), Below(m)>> \in R)
    BY <1>5
  <1>7. ASSUME NEW n \in S, n < m PROVE FALSE
    <2>1. /\ Below(n) \subseteq Below(m)
          /\ n \in Below(m) /\ n \notin Below(n)
      BY <1>7
    <2>2. Below(n) \in SUBSET Nat /\ Below(m) \in SUBSET Nat
      OBVIOUS
    <2>3. <<Below(n), Below(m)>> \in R
      BY <2>1, <2>2 DEF StrictSubsetOrdering
    <2>4. QED
      BY <2>3, <1>6
  <1>8. QED
    BY <1>7

\* The first stream of a rank is one of its own, and the same for all of them.
LEMMA LeadIsLocal ==
  ASSUME NEW c \in Copies
  PROVE  Lead(c) \in Copies /\ RankOf[Lead(c)] = RankOf[c]
  <1> DEFINE S == Local(RankOf[c])
  <1>1. S \subseteq Nat /\ S # {}
    BY DEF Local, Copies
  <1>2. \E m \in S : \A n \in S : m <= n
    <2> HIDE DEF S
    <2>1. QED
      BY <1>1, LeastNatural
  <1>3. Lead(c) \in S
    BY <1>2 DEF Lead
  <1>4. QED
    BY <1>3 DEF Local

\* What the start event and the total event wait for.
LEMMA EventWaits ==
  ASSUME NEW c \in Copies
  PROVE  /\ Ready(c, Start) => c = Lead(c) \/ retired[Lead(c)] >= Start
         /\ Ready(c, Total) /\ Value = "TOTAL_BW" =>
              \A d \in Local(RankOf[c]) : d # c => retired[d] >= End
  <1>1. Start # Total
    BY DEF Start, Total
  <1>2. QED
    BY <1>1, Zenon DEF Ready

EventInv == StartTogether /\ TotalCoversEveryCopy

\* What a step does to what the streams have completed: nothing, all the local
\* streams of a rank start again, or one stream completes its next operation.
CompletesNothing == UNCHANGED retired

StartsAgain(r) ==
  retired' = [c \in Copies |-> IF c \in Local(r) THEN 0 ELSE retired[c]]

CompletesOne(c) ==
  /\ retired[c] < Total
  /\ retired' = [retired EXCEPT ![c] = @ + 1]
  /\ retired[c] = 0 \/ Ready(c, retired[c] + 1)

LEMMA RetiredStep ==
  ASSUME IInv, [Next]_vars
  PROVE  \/ CompletesNothing
         \/ \E r \in Ranks : StartsAgain(r)
         \/ \E c \in Copies : CompletesOne(c)
  <1> USE DEF CompletesNothing
  <1>1. ASSUME NEW r \in Ranks, Host(r), ~BeginSample(r) PROVE CompletesNothing
    BY <1>1 DEF Host, StreamBlockerReset, Enqueue, StreamBlockerRelease, DrainStreams,
                EndSample, ReadSample, ReduceTotal, CollectResult
  <1>2. ASSUME NEW r \in Ranks, BeginSample(r) PROVE StartsAgain(r)
    BY <1>2 DEF BeginSample, StartsAgain
  <1>3. ASSUME NEW r \in Ranks, LandReset(r) PROVE CompletesNothing
    BY <1>3 DEF LandReset
  <1>4. ASSUME NEW c \in Copies, Device(c) PROVE CompletesNothing \/ CompletesOne(c)
    <2> USE DEF CompletesOne, Completed, IInv, TypeOK, Spin, Total
    <2>1. CASE RaiseDeviceLatch(c)
      BY <2>1 DEF RaiseDeviceLatch
    <2>2. CASE SpinReleased(c) \/ SpinTimeout(c)
      BY <2>2 DEF SpinReleased, SpinTimeout, Spinning
    <2>3. CASE Retire(c)
      BY <2>3 DEF Retire
    <2>4. QED
      BY <1>4, <2>1, <2>2, <2>3 DEF Device
  <1>5. CASE UNCHANGED vars
    BY <1>5 DEF vars
  <1>6. QED
    BY <1>1, <1>2, <1>3, <1>4, <1>5 DEF Next, Finished

\* An event is behind the ones its stream waits for, and all the streams of a
\* rank start again together.
LEMMA EventStep == IInv /\ EventInv /\ [Next]_vars => EventInv'
  <1> SUFFICES ASSUME IInv, EventInv, [Next]_vars PROVE EventInv'
    OBVIOUS
  <1> USE LeadIsLocal DEF EventInv, StartTogether, TotalCoversEveryCopy
  <1>0. retired \in [Copies -> 0 .. Total]
    BY DEF IInv, TypeOK
  <1>1. CASE CompletesNothing
    BY <1>1 DEF CompletesNothing
  <1>2. ASSUME NEW r \in Ranks, StartsAgain(r) PROVE EventInv'
    <2>1. \A c \in Copies : retired'[c] = IF RankOf[c] = r THEN 0 ELSE retired[c]
      BY <1>2 DEF StartsAgain, Local
    <2>2. StartTogether'
      BY <2>1 DEF Start
    <2>3. TotalCoversEveryCopy'
      BY <2>1 DEF Local, Total, End
    <2>4. QED
      BY <2>2, <2>3
  <1>3. ASSUME NEW c \in Copies, CompletesOne(c) PROVE EventInv'
    <2>1. \A d \in Copies : retired'[d] = IF d = c THEN retired[c] + 1 ELSE retired[d]
      BY <1>0, <1>3 DEF CompletesOne
    <2>2. \A d \in Copies : retired[d] \in 0 .. 6 /\ retired'[d] \in Int /\ retired'[d] >= retired[d]
      BY <1>0, <2>1 DEF Total
    <2>3. StartTogether'
      <3> SUFFICES ASSUME NEW d \in Copies, retired'[d] >= Start
                   PROVE  retired'[Lead(d)] >= Start
        OBVIOUS
      <3>1. CASE d = c /\ retired[c] < Start
        <4>1. retired[c] + 1 = Start
          BY <2>1, <2>2, <3>1 DEF Start
        <4>2. Ready(c, Start)
          BY <1>3, <2>2, <4>1 DEF CompletesOne, Start
        <4>3. c = Lead(c) \/ retired[Lead(c)] >= Start
          BY <4>2, EventWaits
        <4>4. QED
          BY <2>1, <2>2, <3>1, <4>1, <4>3 DEF Start
      <3>2. CASE d # c \/ retired[c] >= Start
        <4>1. retired[d] >= Start
          BY <2>1, <3>2
        <4>2. retired[Lead(d)] >= Start
          BY <4>1
        <4>3. QED
          BY <2>2, <4>2 DEF Start
      <3>3. QED
        BY <2>2, <3>1, <3>2 DEF Start
    <2>4. TotalCoversEveryCopy'
      <3> SUFFICES ASSUME Value = "TOTAL_BW", NEW d \in Copies, retired'[d] >= Total,
                          NEW e \in Local(RankOf[d])
                   PROVE  retired'[e] >= End
        OBVIOUS
      <3>0. e \in Copies
        BY DEF Local
      <3>1. CASE d = c /\ retired[c] < Total
        <4>1. retired[c] + 1 = Total
          BY <2>1, <2>2, <3>1 DEF Total
        <4>2. Ready(c, Total)
          BY <1>3, <2>2, <4>1 DEF CompletesOne, Total
        <4>3. e # c => retired[e] >= End
          BY <3>1, <4>2, EventWaits
        <4>4. QED
          BY <2>1, <2>2, <3>0, <3>1, <4>1, <4>3 DEF Total, End
      <3>2. CASE d # c \/ retired[c] >= Total
        <4>1. retired[e] >= End
          BY <2>1, <3>2
        <4>2. QED
          BY <2>2, <3>0, <4>1 DEF End
      <3>3. QED
        BY <2>2, <3>1, <3>2 DEF Total
    <2>5. QED
      BY <2>3, <2>4
  <1>4. QED
    BY <1>1, <1>2, <1>3, RetiredStep

LEMMA EventsHold == Spec => []EventInv
  <1>1. Init => EventInv
    BY DEF Init, EventInv, StartTogether, TotalCoversEveryCopy, Start, Total
  <1>2. QED
    BY <1>1, EventStep, Inductive, PTL DEF Spec

\* cuStreamWaitEvent on the first start event: no copy of a rank begins before
\* the one whose start event the total bandwidth is counted from, whatever
\* released or timed out the spin kernels.
THEOREM CopiesStartTogether == Spec => []StartTogether
  <1>1. EventInv => StartTogether
    BY DEF EventInv
  <1>2. QED
    BY EventsHold, <1>1, PTL

\* cuStreamWaitEvent on the end events: the interval of the total bandwidth
\* ends after the last copy of the rank, for any number of streams.
THEOREM TotalSpansTheCopies == Spec => []TotalCoversEveryCopy
  <1>1. EventInv => TotalCoversEveryCopy
    BY DEF EventInv
  <1>2. QED
    BY EventsHold, <1>1, PTL

\* README: all events are enqueued before the copies start, so that the
\* overhead of enqueueing is not measured.  True of the only process and of the
\* rank of the first copy, while no spin kernel times out.
THEOREM OverheadExcluded ==
  ASSUME ~AsyncReset, ~MayTimeOut
  PROVE  Spec => []EnqueueOverheadExcluded
  <1>1. IInv /\ ReleaseInv => EnqueueOverheadExcluded
    <2> SUFFICES ASSUME IInv, ReleaseInv, InWindow(FirstRank),
                        NEW c \in Local(FirstRank), retired[c] >= Start
                 PROVE  Unqueued(FirstRank) = {}
      BY DEF EnqueueOverheadExcluded
    <2> DEFINE r == RankOf[c]
    <2>1. c \in Copies /\ r = FirstRank /\ r \in Ranks
      BY FirstRankType DEF Local
    <2>2. retired[c] >= Spin
      BY <2>1 DEF Start, Spin, IInv, TypeOK
    <2>3. ReleasedSince(r)
      BY <2>1, <2>2 DEF ReleaseInv, PassedInv, Begun, InWindow
    <2>4. pc[r] = "drain"
      BY <2>1, <2>3, ReleasedInWindow DEF InWindow
    <2>5. \A d \in Local(r) : queued[d] = Last(d)
      BY <2>4 DEF IInv, StreamInv, Local
    <2>6. QED
      BY <2>1, <2>5, LastType DEF Unqueued, Local, End, Total
  <1>2. QED
    BY Released, <1>1, PTL
===============================================================================
