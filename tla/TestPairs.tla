------------------------------- MODULE TestPairs -------------------------------
(***************************************************************************)
(* generateTestPairs: which pairs of ranks the multinode device-to-device  *)
(* testcases measure.                                                      *)
(*                                                                         *)
(* Every testcase calls it on every rank.  Rank 0 selects the pairs once   *)
(* and broadcasts them; the function's static variables serve the later    *)
(* calls, without any communication, so a rank whose statics differ would  *)
(* build other buffers than the rest, or wait for a broadcast nobody       *)
(* sends.                                                                  *)
(*                                                                         *)
(* Both lists are shuffled.  The model leaves the order out: any uncovered *)
(* GPU may come next, and any of its pairs be the first in the list.       *)
(***************************************************************************)
EXTENDS Integers, Sequences, FiniteSets

CONSTANTS
  WorldSize,  \* ranks, one GPU each
  Targets,    \* values of targetNumPairs to explore
  Calls       \* testcases that ask for the pairs

Ranks == 0 .. WorldSize - 1
Pairs == {p \in Ranks \X Ranks : p[1] # p[2]}
MaxPairs == WorldSize * (WorldSize - 1)

\* createNodeTestcases has no multinode testcase for one rank, and main
\* rejects other targets.
ASSUME WorldAssumption == WorldSize \in Nat /\ WorldSize >= 2 /\ Calls \in Nat
ASSUME TargetsAssumption == Targets \subseteq -1 .. MaxPairs

VARIABLES
  target,           \* targetNumPairs
  phase,            \* where each rank is in its call
  entered,          \* collective calls each rank has entered
  pairsCalculated,  \* static, on each rank
  allValidPairs,    \* static
  selectedPairs,    \* static
  returned          \* what the calls returned on each rank, in order

vars == <<target, phase, entered, pairsCalculated, allValidPairs, selectedPairs, returned>>

Phases == {"idle", "cover", "fill", "barrier", "size", "data"}

Init ==
  /\ target \in Targets
  /\ phase = [r \in Ranks |-> "idle"]
  /\ entered = [r \in Ranks |-> 0]
  /\ pairsCalculated = [r \in Ranks |-> FALSE]
  /\ allValidPairs = [r \in Ranks |-> {}]
  /\ selectedPairs = [r \in Ranks |-> {}]
  /\ returned = [r \in Ranks |-> <<>>]

Wanted == IF target = -1 THEN MaxPairs ELSE target

UseSampling == Wanted < MaxPairs

Covered(S) == {p[1] : p \in S} \union {p[2] : p \in S}

Move(r, from, to) == phase[r] = from /\ phase' = [phase EXCEPT ![r] = to]

Enter(r) == entered' = [entered EXCEPT ![r] = @ + 1]

Return(r, S) == returned' = [returned EXCEPT ![r] = Append(@, S)]

-------------------------------------------------------------------------------
\* The call that the statics, or a target of 0, answer at once.
Cached(r) ==
  \/ target = 0
  \/ pairsCalculated[r] /\ ~UseSampling
  \/ pairsCalculated[r] /\ selectedPairs[r] # {}

Answer(r) ==
  /\ phase[r] = "idle"
  /\ Len(returned[r]) < Calls
  /\ Cached(r)
  /\ Return(r, IF target = 0 THEN {}
               ELSE IF UseSampling THEN selectedPairs[r] ELSE allValidPairs[r])
  /\ UNCHANGED <<target, phase, entered, pairsCalculated, allValidPairs, selectedPairs>>

\* The others go straight to the barrier.
Join(r) ==
  /\ r # 0
  /\ Move(r, "idle", "barrier")
  /\ Len(returned[r]) < Calls
  /\ ~Cached(r)
  /\ Enter(r)
  /\ UNCHANGED <<target, pairsCalculated, allValidPairs, selectedPairs, returned>>

\* Rank 0 lists all pairs.
Generate ==
  /\ Len(returned[0]) < Calls
  /\ ~Cached(0)
  /\ ~pairsCalculated[0]
  /\ allValidPairs' = [allValidPairs EXCEPT ![0] = Pairs]
  /\ IF UseSampling
     THEN Move(0, "idle", "cover") /\ UNCHANGED entered
     ELSE Move(0, "idle", "barrier") /\ Enter(0)
  /\ UNCHANGED <<target, pairsCalculated, selectedPairs, returned>>

Select(p) == selectedPairs' = [selectedPairs EXCEPT ![0] = @ \union {p}]

\* (Mutants: the first pass does not look who is covered; one pair too many.)
AnyPair(p) == TRUE
CoversNew(p) == ~({p[1], p[2]} \subseteq Covered(selectedPairs[0]))

MissingInclusive == Cardinality(selectedPairs[0]) <= Wanted
Missing == Cardinality(selectedPairs[0]) < Wanted

\* First pass: a pair of the next GPU that no pair includes.
CoverGpu ==
  /\ phase[0] = "cover"
  /\ Missing
  /\ \E p \in allValidPairs[0] \ selectedPairs[0] : CoversNew(p) /\ Select(p)
  /\ UNCHANGED <<target, phase, entered, pairsCalculated, allValidPairs, returned>>

EndFirstPass ==
  /\ Move(0, "cover", "fill")
  /\ Missing => Covered(selectedPairs[0]) = Ranks
  /\ UNCHANGED <<target, entered, pairsCalculated, allValidPairs, selectedPairs, returned>>

\* Second pass: random pairs for the remaining slots.
FillSlot ==
  /\ phase[0] = "fill"
  /\ Missing
  /\ \E p \in allValidPairs[0] \ selectedPairs[0] : Select(p)
  /\ UNCHANGED <<target, phase, entered, pairsCalculated, allValidPairs, returned>>

EndSecondPass ==
  /\ Move(0, "fill", "barrier")
  /\ ~Missing
  /\ Enter(0)
  /\ UNCHANGED <<target, pairsCalculated, allValidPairs, selectedPairs, returned>>

-------------------------------------------------------------------------------
LeaveBarrier(r) ==
  /\ Move(r, "barrier", "size")
  /\ \A q \in Ranks : entered[q] >= entered[r]
  /\ pairsCalculated' = [pairsCalculated EXCEPT ![r] = TRUE]
  /\ Enter(r)
  /\ UNCHANGED <<target, allValidPairs, selectedPairs, returned>>

\* A broadcast from rank 0 returns when rank 0 has entered it.
Sent(r) == entered[0] >= entered[r]

ShareSize(r) ==
  /\ Move(r, "size", "data")
  /\ Sent(r)
  /\ Enter(r)
  /\ UNCHANGED <<target, pairsCalculated, allValidPairs, selectedPairs, returned>>

FinalPairs == IF UseSampling THEN selectedPairs[0] ELSE allValidPairs[0]

\* (Mutant: the receivers return the pairs and do not keep them.)
ReceiveOnly(r) == UNCHANGED <<allValidPairs, selectedPairs>>

Keep(r) ==
  IF UseSampling
  THEN /\ selectedPairs' = [selectedPairs EXCEPT ![r] = FinalPairs]
       /\ UNCHANGED allValidPairs
  ELSE /\ allValidPairs' = [allValidPairs EXCEPT ![r] = FinalPairs]
       /\ UNCHANGED selectedPairs

ShareData(r) ==
  /\ Move(r, "data", "idle")
  /\ Sent(r)
  /\ Keep(r)
  /\ Return(r, FinalPairs)
  /\ UNCHANGED <<target, entered, pairsCalculated>>

-------------------------------------------------------------------------------
RankZero == Generate \/ CoverGpu \/ EndFirstPass \/ FillSlot \/ EndSecondPass

Communicate(r) ==
  \/ Answer(r)
  \/ Join(r)
  \/ LeaveBarrier(r)
  \/ ShareSize(r)
  \/ ShareData(r)

Finished == (\A r \in Ranks : Len(returned[r]) = Calls) /\ UNCHANGED vars

Next == RankZero \/ (\E r \in Ranks : Communicate(r)) \/ Finished

\* Each process runs; only the collective calls make it wait.
Spec ==
  /\ Init
  /\ [][Next]_vars
  /\ WF_vars(RankZero)
  /\ \A r \in Ranks : WF_vars(Communicate(r))

-------------------------------------------------------------------------------
(***************************************************************************)
(* Properties.                                                             *)
(***************************************************************************)
TypeOK ==
  /\ target \in Targets
  /\ phase \in [Ranks -> Phases]
  /\ entered \in [Ranks -> 0 .. 3]
  /\ pairsCalculated \in [Ranks -> BOOLEAN]
  /\ allValidPairs \in [Ranks -> SUBSET Pairs]
  /\ selectedPairs \in [Ranks -> SUBSET Pairs]
  /\ returned \in [Ranks -> Seq(SUBSET Pairs)]

Results(r) == {returned[r][n] : n \in DOMAIN returned[r]}

\* Every call on every rank returns the same pairs: the ranks construct the
\* same buffers, and all testcases measure the same cells of their matrices.
RanksAgree ==
  \A r, q \in Ranks : \A S \in Results(r), T \in Results(q) : S = T

\* "Test exactly <number> pairs"; all of them by default.
TargetIsMet ==
  \A r \in Ranks : \A S \in Results(r) : Cardinality(S) = Wanted

\* Sampling covers one GPU more than it has pairs, until it covers all: from
\* WorldSize - 1 pairs on, every GPU takes part in a measurement.
CoverageGrows ==
  \A r \in Ranks : \A S \in Results(r) :
    target # 0 => \/ Covered(S) = Ranks
                  \/ Cardinality(Covered(S)) > Wanted

\* Every rank gets its pairs for every testcase: no rank enters a collective
\* call that the others answer from their statics.
EveryCallReturns == <>(\A r \in Ranks : Len(returned[r]) = Calls)
===============================================================================
