---------------------------- MODULE TestPairsProofs ----------------------------
(***************************************************************************)
(* What holds of TestPairs for every number of ranks, every target and     *)
(* every number of testcases.                                              *)
(***************************************************************************)
EXTENDS TestPairs, FiniteSetTheorems, FunctionTheorems, TLAPS

\* Where a rank is in its first call tells how many collective calls it has
\* entered; a later call is answered by the statics.
ProgressInv ==
  \A r \in Ranks :
    /\ phase[r] \in {"cover", "fill"} => r = 0 /\ entered[r] = 0
    /\ phase[r] = "barrier" => entered[r] = 1
    /\ phase[r] = "size" => entered[r] = 2
    /\ phase[r] = "data" => entered[r] = 3
    /\ phase[r] = "idle" => entered[r] = IF pairsCalculated[r] THEN 3 ELSE 0
    /\ pairsCalculated[r] <=> entered[r] >= 2
    /\ phase[r] # "idle" \/ pairsCalculated[r] => target # 0
    /\ entered[r] >= 2 => entered[0] >= 1

\* As many GPUs as pairs and one more, until all are covered.
Spreads(S, n) == Covered(S) = Ranks \/ Cardinality(Covered(S)) > n

Complete(S) == Cardinality(S) = Wanted /\ Spreads(S, Wanted)

\* What rank 0 has selected, at each stage of the selection.
SelectionInv ==
  /\ phase[0] \in {"cover", "fill"} => UseSampling
  /\ phase[0] = "idle" /\ entered[0] = 0 => selectedPairs[0] = {}
  /\ phase[0] = "cover" =>
       /\ Cardinality(selectedPairs[0]) <= Wanted
       /\ selectedPairs[0] # {} => Spreads(selectedPairs[0], Cardinality(selectedPairs[0]))
  /\ phase[0] = "fill" =>
       /\ Cardinality(selectedPairs[0]) <= Wanted
       /\ Spreads(selectedPairs[0], Wanted)
  /\ entered[0] >= 1 => Complete(FinalPairs)

\* Who has been through the first call has kept what rank 0 sent, and all that
\* was ever returned is that.
KeptInv ==
  /\ \A r \in Ranks :
       pairsCalculated[r] /\ phase[r] = "idle" =>
         IF UseSampling THEN selectedPairs[r] = FinalPairs ELSE allValidPairs[r] = FinalPairs
  /\ \A r \in Ranks : \A S \in Results(r) :
       IF target = 0 THEN S = {} ELSE S = FinalPairs /\ entered[0] >= 1

PairsInv == TypeOK /\ ProgressInv /\ SelectionInv /\ KeptInv

-------------------------------------------------------------------------------
(***************************************************************************)
(* Pairs and the GPUs they cover.                                          *)
(***************************************************************************)
LEMMA RanksFinite ==
  /\ IsFiniteSet(Ranks) /\ Cardinality(Ranks) = WorldSize
  /\ 0 \in Ranks /\ 1 \in Ranks
  BY WorldAssumption, FS_Interval DEF Ranks

LEMMA PairsFinite ==
  ASSUME NEW S \in SUBSET Pairs
  PROVE  /\ IsFiniteSet(S) /\ Cardinality(S) \in Nat
         /\ Covered(S) \subseteq Ranks
         /\ IsFiniteSet(Covered(S)) /\ Cardinality(Covered(S)) \in Nat
  <1>1. IsFiniteSet(Ranks \X Ranks)
    BY RanksFinite, FS_Product
  <1>2. S \in SUBSET (Ranks \X Ranks)
    BY DEF Pairs
  <1>3. IsFiniteSet(S) /\ Cardinality(S) \in Nat
    BY <1>1, <1>2, FS_Subset, FS_CardinalityType
  <1>4. Covered(S) \in SUBSET Ranks
    BY <1>2 DEF Covered
  <1>5. IsFiniteSet(Covered(S)) /\ Cardinality(Covered(S)) \in Nat
    BY <1>4, RanksFinite, FS_Subset, FS_CardinalityType
  <1>6. QED
    BY <1>3, <1>4, <1>5

\* All the pairs are as many as the default of targetNumPairs says.
LEMMA AllPairs == Cardinality(Pairs) = MaxPairs
  <1> DEFINE D == {<<r, r>> : r \in Ranks}
             f == [r \in Ranks |-> <<r, r>>]
  <1>1. f \in Bijection(Ranks, D)
    <2>1. f \in [Ranks -> D]
      OBVIOUS
    <2>2. \A a, b \in Ranks : f[a] = f[b] => a = b
      OBVIOUS
    <2>3. \A d \in D : \E r \in Ranks : f[r] = d
      OBVIOUS
    <2> HIDE DEF f, D
    <2>4. f \in Injection(Ranks, D) /\ f \in Surjection(Ranks, D)
      BY <2>1, <2>2, <2>3, Fun_IsInj, Fun_IsSurj
    <2>5. QED
      BY <2>4 DEF Bijection
  <1> HIDE DEF f
  <1>2. IsFiniteSet(D) /\ Cardinality(D) = WorldSize
    <2> HIDE DEF D
    <2>1. ExistsBijection(Ranks, D)
      BY <1>1 DEF ExistsBijection
    <2>2. QED
      BY <2>1, RanksFinite, FS_Bijection
  <1>3. /\ IsFiniteSet(Ranks \X Ranks)
        /\ Cardinality(Ranks \X Ranks) = WorldSize * WorldSize
    BY RanksFinite, FS_Product
  <1>4. (Ranks \X Ranks) \cap D = D
    OBVIOUS
  <1>5. Pairs = (Ranks \X Ranks) \ D
    BY DEF Pairs
  <1> HIDE DEF D
  <1>6. Cardinality(Pairs) = WorldSize * WorldSize - WorldSize
    <2>1. Cardinality((Ranks \X Ranks) \ D)
            = Cardinality(Ranks \X Ranks) - Cardinality((Ranks \X Ranks) \cap D)
      BY <1>3, FS_Difference
    <2>2. QED
      BY <1>2, <1>3, <1>4, <1>5, <2>1
  <1>7. WorldSize * WorldSize - WorldSize = WorldSize * (WorldSize - 1)
    BY WorldAssumption
  <1>8. QED
    BY <1>6, <1>7 DEF MaxPairs

LEMMA AllCovered == Covered(Pairs) = Ranks
  <1>1. ASSUME NEW r \in Ranks PROVE r \in Covered(Pairs)
    <2>1. PICK q \in Ranks : q # r
      BY RanksFinite
    <2>2. <<r, q>> \in Pairs /\ <<r, q>>[1] = r
      BY <2>1 DEF Pairs
    <2>3. QED
      BY <2>2 DEF Covered
  <1>2. QED
    BY <1>1 DEF Covered, Pairs

LEMMA CoveredByOneMore ==
  ASSUME NEW S \in SUBSET Pairs, NEW p \in Pairs
  PROVE  /\ Covered(S \union {p}) = (Covered(S) \union {p[1]}) \union {p[2]}
         /\ p[1] \in Ranks /\ p[2] \in Ranks /\ p[1] # p[2]
  BY DEF Covered, Pairs

\* A pair that was not covered adds a GPU, and the first one adds two.
LEMMA NewPairSpreads ==
  ASSUME NEW S \in SUBSET Pairs, NEW p \in Pairs, ~({p[1], p[2]} \subseteq Covered(S)),
         S # {} => Spreads(S, Cardinality(S))
  PROVE  Spreads(S \union {p}, Cardinality(S) + 1)
  <1> DEFINE C == Covered(S)
  <1>1. /\ IsFiniteSet(C) /\ Cardinality(C) \in Nat /\ C \subseteq Ranks
        /\ IsFiniteSet(S) /\ Cardinality(S) \in Nat
    BY PairsFinite
  <1>2. /\ Covered(S \union {p}) = (C \union {p[1]}) \union {p[2]}
        /\ p[1] \in Ranks /\ p[2] \in Ranks /\ p[1] # p[2]
    BY CoveredByOneMore
  <1>3. /\ IsFiniteSet(C \union {p[1]})
        /\ Cardinality(C \union {p[1]}) = IF p[1] \in C THEN Cardinality(C) ELSE Cardinality(C) + 1
    BY <1>1, FS_AddElement
  <1>4. Cardinality(Covered(S \union {p})) =
          IF p[2] \in C \union {p[1]} THEN Cardinality(C \union {p[1]})
                                      ELSE Cardinality(C \union {p[1]}) + 1
    <2> DEFINE D == C \union {p[1]}
    <2>1. Cardinality(D \union {p[2]}) =
            IF p[2] \in D THEN Cardinality(D) ELSE Cardinality(D) + 1
      <3> HIDE DEF D
      <3>1. IsFiniteSet(D)
        BY <1>3 DEF D
      <3>2. QED
        BY <3>1, FS_AddElement
    <2>2. QED
      BY <1>2, <2>1
  <1>5. CASE S = {}
    <2>1. C = {} /\ Cardinality(C) = 0 /\ Cardinality(S) = 0
      BY <1>5, FS_EmptySet DEF Covered
    <2>2. Cardinality(Covered(S \union {p})) = 2
      BY <1>2, <1>3, <1>4, <2>1
    <2>3. QED
      BY <2>1, <2>2 DEF Spreads
  <1>6. CASE S # {}
    <2>1. C # Ranks
      BY <1>2
    <2>2. Cardinality(C) > Cardinality(S)
      BY <1>6, <2>1 DEF Spreads
    <2>3. Cardinality(Covered(S \union {p})) >= Cardinality(C) + 1
      <3>1. CASE p[1] \in C
        BY <1>1, <1>2, <1>3, <1>4, <3>1
      <3>2. CASE p[1] \notin C
        BY <1>1, <1>3, <1>4, <3>2
      <3>3. QED
        BY <3>1, <3>2
    <2>4. Cardinality(Covered(S \union {p})) \in Nat
      BY PairsFinite
    <2> HIDE DEF C
    <2>5. QED
      BY <1>1, <2>2, <2>3, <2>4 DEF Spreads
  <1>7. QED
    BY <1>5, <1>6

LEMMA StillCovered ==
  ASSUME NEW S \in SUBSET Pairs, NEW p \in Pairs, Covered(S) = Ranks
  PROVE  Covered(S \union {p}) = Ranks
  <1>1. /\ Covered(S \union {p}) = (Covered(S) \union {p[1]}) \union {p[2]}
        /\ p[1] \in Ranks /\ p[2] \in Ranks
    BY CoveredByOneMore
  <1>2. QED
    BY <1>1

LEMMA OneMore ==
  ASSUME NEW S \in SUBSET Pairs, NEW p \in Pairs \ S
  PROVE  Cardinality(S \union {p}) = Cardinality(S) + 1
  BY PairsFinite, FS_AddElement

\* With a target other than 0 there is at least one pair to select.
LEMMA WantedType ==
  ASSUME TypeOK
  PROVE  /\ MaxPairs \in Nat \ {0} /\ Wanted \in 0 .. MaxPairs
         /\ target # 0 => Wanted >= 1
  <1>1. MaxPairs \in Nat \ {0}
    <2>1. WorldSize - 1 >= 1 /\ WorldSize >= 2 /\ WorldSize \in Int
      BY WorldAssumption
    <2>2. WorldSize * (WorldSize - 1) >= 1
      BY <2>1
    <2>3. QED
      BY <2>1, <2>2 DEF MaxPairs
  <1>2. target \in -1 .. MaxPairs
    BY TargetsAssumption DEF TypeOK
  <1>3. QED
    BY <1>1, <1>2 DEF Wanted

-------------------------------------------------------------------------------
LEMMA InitPairsInv == Init => PairsInv
  <1> SUFFICES ASSUME Init PROVE PairsInv
    OBVIOUS
  <1> USE RanksFinite
  <1>1. TypeOK
    BY DEF Init, TypeOK, Phases
  <1>2. ProgressInv
    BY DEF Init, ProgressInv
  <1>3. SelectionInv
    BY DEF Init, SelectionInv
  <1>4. KeptInv
    BY DEF Init, KeptInv, Results
  <1>5. QED
    BY <1>1, <1>2, <1>3, <1>4 DEF PairsInv

\* Who has been through the first call is answered by its statics.
LEMMA StaticsAnswer ==
  ASSUME PairsInv, NEW r \in Ranks, pairsCalculated[r], phase[r] = "idle"
  PROVE  Cached(r)
  <1>1. target # 0 /\ entered[0] >= 1 /\ entered[r] = 3
    BY DEF PairsInv, ProgressInv
  <1>2. CASE UseSampling
    <2>1. selectedPairs[r] = FinalPairs /\ Cardinality(FinalPairs) = Wanted
      BY <1>1, <1>2 DEF PairsInv, KeptInv, SelectionInv, Complete
    <2>2. Wanted >= 1 /\ Wanted \in Nat
      BY <1>1, WantedType DEF PairsInv
    <2>3. selectedPairs[r] # {}
      BY <2>1, <2>2, FS_EmptySet
    <2>4. QED
      BY <2>3 DEF Cached
  <1>3. CASE ~UseSampling
    BY <1>3 DEF Cached
  <1>4. QED
    BY <1>2, <1>3

\* A step of rank r that returns nothing and changes no pairs.
LEMMA SamePairs ==
  ASSUME PairsInv, UNCHANGED <<target, allValidPairs, selectedPairs, returned>>,
         entered[0] >= 1 => entered'[0] >= 1,
         \A q \in Ranks : pairsCalculated'[q] /\ phase'[q] = "idle" =>
                            pairsCalculated[q] /\ phase[q] = "idle"
  PROVE  KeptInv'
  BY DEF PairsInv, KeptInv, Results, FinalPairs, UseSampling, Wanted

\* As long as nobody has been through its first call there is nothing to keep.
LEMMA NothingKept ==
  ASSUME \A r \in Ranks : Results(r) = {} /\ ~pairsCalculated[r],
         UNCHANGED <<returned, pairsCalculated>>
  PROVE  KeptInv'
  <1>1. \A r \in Ranks : Results(r)' = Results(r)
    BY DEF Results
  <1>2. QED
    BY <1>1 DEF KeptInv

\* The types of the two variables every step of the first call changes.
LEMMA PhaseType ==
  ASSUME phase \in [Ranks -> Phases], NEW r \in Ranks, NEW ph \in Phases,
         phase' = [phase EXCEPT ![r] = ph]
  PROVE  phase' \in [Ranks -> Phases]
  OBVIOUS

LEMMA EnteredType ==
  ASSUME entered \in [Ranks -> 0 .. 3], NEW r \in Ranks, entered[r] <= 2,
         entered' = [entered EXCEPT ![r] = @ + 1]
  PROVE  entered' \in [Ranks -> 0 .. 3]
  <1>1. entered[r] + 1 \in 0 .. 3
    OBVIOUS
  <1>2. QED
    BY <1>1

LEMMA JoinStep ==
  ASSUME PairsInv, NEW r \in Ranks, Join(r)
  PROVE  PairsInv'
  <1> USE RanksFinite DEF PairsInv, TypeOK, Join, Move, Enter
  <1>1. ~pairsCalculated[r] /\ target # 0 /\ phase[r] = "idle" /\ entered[r] = 0
    BY StaticsAnswer DEF Cached, ProgressInv
  <1>2. TypeOK'
    BY <1>1 DEF Phases
  <1>3. ProgressInv'
    BY <1>1 DEF ProgressInv
  <1>4. phase'[0] = phase[0] /\ entered'[0] = entered[0]
    OBVIOUS
  <1>5. SelectionInv'
    BY <1>4 DEF SelectionInv, FinalPairs, UseSampling, Wanted, Complete, Spreads, Covered
  <1>6. KeptInv'
    BY <1>4, SamePairs
  <1>7. QED
    BY <1>2, <1>3, <1>5, <1>6

LEMMA GenerateStep ==
  ASSUME PairsInv, Generate
  PROVE  PairsInv'
  <1> USE RanksFinite
  <1>1. phase[0] = "idle" /\ entered[0] = 0 /\ ~pairsCalculated[0] /\ target # 0
    BY DEF PairsInv, ProgressInv, Generate, Move, Cached
  <1>2. /\ allValidPairs' = [allValidPairs EXCEPT ![0] = Pairs]
        /\ UNCHANGED <<target, pairsCalculated, selectedPairs, returned>>
        /\ IF UseSampling
           THEN phase' = [phase EXCEPT ![0] = "cover"] /\ entered' = entered
           ELSE phase' = [phase EXCEPT ![0] = "barrier"] /\ entered' = [entered EXCEPT ![0] = @ + 1]
    BY DEF Generate, Move, Enter
  <1>3. UseSampling' = UseSampling /\ Wanted' = Wanted
    BY <1>2 DEF UseSampling, Wanted
  <1>4. TypeOK'
    <2>1. allValidPairs' \in [Ranks -> SUBSET Pairs]
      BY <1>2 DEF PairsInv, TypeOK
    <2>2. phase \in [Ranks -> Phases] /\ entered \in [Ranks -> 0 .. 3] /\ entered[0] <= 2
      BY <1>1 DEF PairsInv, TypeOK
    <2>3. phase' \in [Ranks -> Phases]
      <3>1. "cover" \in Phases /\ "barrier" \in Phases
        BY DEF Phases
      <3>2. phase' = [phase EXCEPT ![0] = "cover"] \/ phase' = [phase EXCEPT ![0] = "barrier"]
        BY <1>2
      <3>3. QED
        BY <2>2, <3>1, <3>2, PhaseType
    <2>4. entered' \in [Ranks -> 0 .. 3]
      BY <1>2, <2>2, EnteredType
    <2>5. QED
      BY <1>2, <2>1, <2>3, <2>4 DEF PairsInv, TypeOK
  <1>5. ProgressInv'
    BY <1>1, <1>2 DEF PairsInv, TypeOK, ProgressInv
  <1>6. selectedPairs[0] = {} /\ Cardinality(selectedPairs[0]) = 0
    BY <1>1, FS_EmptySet DEF PairsInv, SelectionInv
  <1>7. SelectionInv'
    <2>1. CASE UseSampling
      <3>1. phase'[0] = "cover" /\ entered'[0] = 0
        BY <1>1, <1>2, <2>1 DEF PairsInv, TypeOK
      <3>2. Wanted >= 0
        BY WantedType DEF PairsInv
      <3>3. QED
        BY <1>2, <1>3, <1>6, <2>1, <3>1, <3>2 DEF SelectionInv
    <2>2. CASE ~UseSampling
      <3>1. phase'[0] = "barrier" /\ FinalPairs' = Pairs
        BY <1>2, <1>3, <2>2 DEF PairsInv, TypeOK, FinalPairs
      <3>2. Wanted = MaxPairs
        BY <2>2, WantedType DEF PairsInv, UseSampling
      <3>3. Complete(FinalPairs)'
        BY <1>3, <3>1, <3>2, AllPairs, AllCovered DEF Complete, Spreads, Covered
      <3>4. QED
        BY <3>1, <3>3 DEF SelectionInv
    <2>3. QED
      BY <2>1, <2>2
  <1>8. \A r \in Ranks : Results(r) = {} /\ ~pairsCalculated[r]
    BY <1>1 DEF PairsInv, ProgressInv, KeptInv, TypeOK
  <1>9. KeptInv'
    BY <1>2, <1>8, NothingKept
  <1>10. QED
    BY <1>4, <1>5, <1>7, <1>9 DEF PairsInv

\* The steps of the selection: nobody has the pairs yet.
LEMMA SelectingStep ==
  ASSUME PairsInv, phase[0] \in {"cover", "fill"},
         UNCHANGED <<target, pairsCalculated, allValidPairs, returned>>,
         NEW S \in SUBSET Pairs, selectedPairs' = [selectedPairs EXCEPT ![0] = S],
         \/ UNCHANGED <<phase, entered>>
         \/ phase[0] = "cover" /\ phase' = [phase EXCEPT ![0] = "fill"] /\ UNCHANGED entered
         \/ /\ phase' = [phase EXCEPT ![0] = "barrier"]
            /\ phase[0] = "fill" /\ entered' = [entered EXCEPT ![0] = @ + 1]
  PROVE  TypeOK' /\ ProgressInv' /\ KeptInv'
  <1> USE RanksFinite DEF PairsInv
  <1>1. entered[0] = 0 /\ ~pairsCalculated[0] /\ target # 0
    BY DEF ProgressInv
  <1>2. TypeOK'
    <2>1. selectedPairs' \in [Ranks -> SUBSET Pairs]
      BY DEF TypeOK
    <2>2. phase \in [Ranks -> Phases] /\ entered \in [Ranks -> 0 .. 3] /\ entered[0] <= 2
      BY <1>1 DEF TypeOK
    <2>3. phase' \in [Ranks -> Phases]
      <3>1. "fill" \in Phases /\ "barrier" \in Phases
        BY DEF Phases
      <3>2. QED
        BY <2>2, <3>1, PhaseType
    <2>4. entered' \in [Ranks -> 0 .. 3]
      BY <2>2, EnteredType
    <2>5. QED
      BY <2>1, <2>3, <2>4 DEF TypeOK
  <1>3. ProgressInv'
    BY <1>1 DEF ProgressInv, TypeOK
  <1>4. \A r \in Ranks : Results(r) = {} /\ ~pairsCalculated[r]
    BY <1>1 DEF ProgressInv, KeptInv, TypeOK
  <1>5. KeptInv'
    BY <1>4, NothingKept
  <1>6. QED
    BY <1>2, <1>3, <1>5

LEMMA SelectionStep ==
  ASSUME PairsInv, CoverGpu \/ EndFirstPass \/ FillSlot \/ EndSecondPass
  PROVE  PairsInv'
  <1> DEFINE S == selectedPairs[0]
  <1> USE RanksFinite
  <1>1. /\ selectedPairs \in [Ranks -> SUBSET Pairs] /\ S \in SUBSET Pairs
        /\ allValidPairs[0] \in SUBSET Pairs /\ phase \in [Ranks -> Phases]
        /\ entered \in [Ranks -> 0 .. 3]
    BY DEF PairsInv, TypeOK
  <1>2. /\ UNCHANGED <<target, allValidPairs>>
        /\ UseSampling' = UseSampling /\ Wanted' = Wanted
        /\ phase[0] \in {"cover", "fill"}
    BY DEF CoverGpu, EndFirstPass, FillSlot, EndSecondPass, Move, UseSampling, Wanted
  <1>3. UseSampling /\ entered[0] = 0 /\ Wanted \in Nat
    BY <1>2, WantedType DEF PairsInv, SelectionInv, ProgressInv
  <1>4. Cardinality(S) \in Nat /\ Cardinality(S) <= Wanted
    BY <1>1, <1>2, PairsFinite DEF PairsInv, SelectionInv
  <1>5. CASE CoverGpu \/ FillSlot
    <2>1. PICK p \in Pairs \ S : /\ selectedPairs' = [selectedPairs EXCEPT ![0] = S \union {p}]
                                 /\ phase[0] = "cover" => ~({p[1], p[2]} \subseteq Covered(S))
      BY <1>1, <1>5 DEF CoverGpu, FillSlot, CoversNew, Select
    <2>2. /\ selectedPairs'[0] = S \union {p} /\ S \union {p} \in SUBSET Pairs
          /\ UNCHANGED <<phase, entered, pairsCalculated, returned>>
      BY <1>1, <1>5, <2>1 DEF CoverGpu, FillSlot
    <2>3. /\ Cardinality(S \union {p}) = Cardinality(S) + 1
          /\ Cardinality(S) + 1 <= Wanted
      BY <1>1, <1>3, <1>4, <1>5, <2>1, OneMore DEF CoverGpu, FillSlot, Missing
    <2>4. ASSUME phase[0] = "cover" PROVE Spreads(S \union {p}, Cardinality(S \union {p}))
      <3>1. S # {} => Spreads(S, Cardinality(S))
        BY <2>4 DEF PairsInv, SelectionInv
      <3>2. QED
        BY <1>1, <2>1, <2>3, <2>4, <3>1, NewPairSpreads
    <2>5. ASSUME phase[0] = "fill" PROVE Spreads(S \union {p}, Wanted)
      <3>1. Spreads(S, Wanted)
        BY <2>5 DEF PairsInv, SelectionInv
      <3>2. CASE Covered(S) = Ranks
        BY <1>1, <2>1, <3>2, StillCovered DEF Spreads
      <3>3. CASE Cardinality(Covered(S)) > Wanted
        <4>1. Covered(S) \subseteq Covered(S \union {p})
          BY DEF Covered
        <4>2. /\ IsFiniteSet(Covered(S \union {p})) /\ Cardinality(Covered(S)) \in Nat
              /\ Cardinality(Covered(S \union {p})) \in Nat
          BY <1>1, <2>2, PairsFinite
        <4>3. Cardinality(Covered(S)) <= Cardinality(Covered(S \union {p}))
          BY <4>1, <4>2, FS_Subset
        <4>4. QED
          BY <1>3, <3>3, <4>2, <4>3 DEF Spreads
      <3>4. QED
        BY <3>1, <3>2, <3>3 DEF Spreads
    <2>6. SelectionInv'
      BY <1>2, <1>3, <2>2, <2>3, <2>4, <2>5 DEF SelectionInv, Spreads, Covered
    <2>7. QED
      BY <1>2, <2>1, <2>2, <2>6, SelectingStep DEF PairsInv
  <1>6. CASE EndFirstPass
    <2>1. /\ phase[0] = "cover" /\ phase' = [phase EXCEPT ![0] = "fill"]
          /\ UNCHANGED <<entered, pairsCalculated, returned, selectedPairs>>
          /\ phase'[0] = "fill"
      BY <1>1, <1>6 DEF EndFirstPass, Move
    <2>2. Spreads(S, Wanted)
      <3>1. CASE Missing
        BY <1>6, <3>1 DEF EndFirstPass, Spreads
      <3>2. CASE ~Missing
        <4>1. Cardinality(S) = Wanted
          BY <1>3, <1>4, <3>2 DEF Missing
        <4>2. S # {}
          <5>1. target # 0
            BY <2>1 DEF PairsInv, ProgressInv
          <5>2. QED
            BY <4>1, <5>1, WantedType, FS_EmptySet DEF PairsInv
        <4>3. QED
          BY <2>1, <4>1, <4>2 DEF PairsInv, SelectionInv
      <3>3. QED
        BY <3>1, <3>2
    <2>3. SelectionInv'
      BY <1>2, <1>3, <1>4, <2>1, <2>2 DEF SelectionInv, Spreads, Covered
    <2>4. selectedPairs' = [selectedPairs EXCEPT ![0] = S]
      BY <1>1, <2>1
    <2>5. QED
      BY <1>1, <1>2, <2>1, <2>3, <2>4, SelectingStep DEF PairsInv
  <1>7. CASE EndSecondPass
    <2>1. /\ phase[0] = "fill" /\ phase' = [phase EXCEPT ![0] = "barrier"]
          /\ entered' = [entered EXCEPT ![0] = @ + 1]
          /\ UNCHANGED <<pairsCalculated, returned, selectedPairs>>
          /\ phase'[0] = "barrier"
      BY <1>1, <1>7 DEF EndSecondPass, Move, Enter
    <2>2. Cardinality(S) = Wanted /\ Spreads(S, Wanted)
      BY <1>3, <1>4, <1>7, <2>1 DEF EndSecondPass, Missing, PairsInv, SelectionInv
    <2>3. FinalPairs' = S
      BY <1>2, <1>3, <2>1 DEF FinalPairs
    <2>4. SelectionInv'
      BY <1>2, <2>1, <2>2, <2>3 DEF SelectionInv, Complete, Spreads, Covered
    <2>5. selectedPairs' = [selectedPairs EXCEPT ![0] = S]
      BY <1>1, <2>1
    <2>6. QED
      BY <1>1, <1>2, <2>1, <2>4, <2>5, SelectingStep DEF PairsInv
  <1>8. QED
    BY <1>5, <1>6, <1>7

\* Past the barrier of its first call, a rank knows that rank 0 has selected.
LEMMA ShareStep ==
  ASSUME PairsInv, NEW r \in Ranks, LeaveBarrier(r) \/ ShareSize(r)
  PROVE  PairsInv'
  <1> USE RanksFinite DEF PairsInv
  <1>1. /\ UNCHANGED <<target, allValidPairs, selectedPairs, returned>>
        /\ entered' = [entered EXCEPT ![r] = @ + 1]
        /\ \/ /\ phase[r] = "barrier" /\ phase' = [phase EXCEPT ![r] = "size"]
              /\ pairsCalculated' = [pairsCalculated EXCEPT ![r] = TRUE]
              /\ entered[0] >= entered[r]
           \/ /\ phase[r] = "size" /\ phase' = [phase EXCEPT ![r] = "data"]
              /\ UNCHANGED pairsCalculated
    BY DEF LeaveBarrier, ShareSize, Move, Enter
  <1>2. TypeOK'
    <2>1. phase \in [Ranks -> Phases] /\ entered \in [Ranks -> 0 .. 3] /\ entered[r] <= 2
      BY <1>1 DEF TypeOK, ProgressInv
    <2>2. phase' \in [Ranks -> Phases]
      <3>1. "size" \in Phases /\ "data" \in Phases
        BY DEF Phases
      <3>2. QED
        BY <1>1, <2>1, <3>1, PhaseType
    <2>3. entered' \in [Ranks -> 0 .. 3]
      BY <1>1, <2>1, EnteredType
    <2>4. pairsCalculated' \in [Ranks -> BOOLEAN]
      BY <1>1, Zenon DEF TypeOK
    <2>5. QED
      BY <1>1, <2>2, <2>3, <2>4 DEF TypeOK
  <1>3. ProgressInv'
    BY <1>1 DEF TypeOK, ProgressInv
  <1>4. entered[0] >= 1 /\ entered'[0] >= 1
    BY <1>1 DEF TypeOK, ProgressInv
  <1>5. phase'[0] \in {"barrier", "size", "data"} \/ phase'[0] = phase[0]
    BY <1>1 DEF TypeOK
  <1>6. SelectionInv'
    BY <1>1, <1>4, <1>5 DEF SelectionInv, FinalPairs, UseSampling, Wanted, Complete,
                            Spreads, Covered, ProgressInv
  <1>7. KeptInv'
    BY <1>1, <1>4, SamePairs DEF TypeOK
  <1>8. QED
    BY <1>2, <1>3, <1>6, <1>7

\* One more result.
LEMMA ReturnStep ==
  ASSUME TypeOK, NEW r \in Ranks, NEW S \in SUBSET Pairs, Return(r, S)
  PROVE  /\ returned' \in [Ranks -> Seq(SUBSET Pairs)]
         /\ \A q \in Ranks : Results(q)' = IF q = r THEN Results(r) \union {S} ELSE Results(q)
  <1>1. returned[r] \in Seq(SUBSET Pairs)
    BY DEF TypeOK
  <1> DEFINE new == Append(returned[r], S)
  <1>2. /\ new \in Seq(SUBSET Pairs)
        /\ DOMAIN new = 1 .. Len(returned[r]) + 1 /\ Len(returned[r]) \in Nat
        /\ DOMAIN returned[r] = 1 .. Len(returned[r])
        /\ new[Len(returned[r]) + 1] = S
        /\ \A n \in 1 .. Len(returned[r]) : new[n] = returned[r][n]
    BY <1>1
  <1>3. returned' = [returned EXCEPT ![r] = new]
    BY DEF Return
  <1> HIDE DEF new
  <1>4. /\ returned'[r] = new
        /\ \A q \in Ranks : q # r => returned'[q] = returned[q]
        /\ returned' \in [Ranks -> Seq(SUBSET Pairs)]
    BY <1>2, <1>3 DEF TypeOK
  <1>5. Results(r)' = Results(r) \union {S}
    <2>1. Results(r)' = {new[n] : n \in 1 .. Len(returned[r]) + 1}
      BY <1>2, <1>4 DEF Results
    <2>2. Results(r) = {new[n] : n \in 1 .. Len(returned[r])}
      BY <1>2 DEF Results
    <2>3. 1 .. Len(returned[r]) + 1 = (1 .. Len(returned[r])) \union {Len(returned[r]) + 1}
      BY <1>2
    <2>4. QED
      BY <1>2, <2>1, <2>2, <2>3, Zenon
  <1>6. \A q \in Ranks : q # r => Results(q)' = Results(q)
    BY <1>4 DEF Results
  <1>7. QED
    BY <1>4, <1>5, <1>6

LEMMA AnswerStep ==
  ASSUME PairsInv, NEW r \in Ranks, Answer(r)
  PROVE  PairsInv'
  <1> USE RanksFinite
  <1> DEFINE S == IF target = 0 THEN {}
                  ELSE IF UseSampling THEN selectedPairs[r] ELSE allValidPairs[r]
  <1>1. /\ Return(r, S) /\ Cached(r) /\ phase[r] = "idle"
        /\ UNCHANGED <<target, phase, entered, pairsCalculated, allValidPairs, selectedPairs>>
    BY DEF Answer
  <1>2. /\ target = 0 => S = {}
        /\ target # 0 => S = IF UseSampling THEN selectedPairs[r] ELSE allValidPairs[r]
    OBVIOUS
  <1> HIDE DEF S
  <1>3. S \in SUBSET Pairs
    BY <1>2 DEF PairsInv, TypeOK
  <1>4. target # 0 => S = FinalPairs /\ entered[0] >= 1
    <2> SUFFICES ASSUME target # 0 PROVE S = FinalPairs /\ entered[0] >= 1
      OBVIOUS
    <2>1. pairsCalculated[r]
      BY <1>1 DEF Cached
    <2>2. entered[0] >= 1
      BY <2>1 DEF PairsInv, ProgressInv
    <2>3. QED
      BY <1>1, <1>2, <2>1, <2>2 DEF PairsInv, KeptInv
  <1>5. /\ returned' \in [Ranks -> Seq(SUBSET Pairs)]
        /\ \A q \in Ranks : Results(q)' = IF q = r THEN Results(r) \union {S} ELSE Results(q)
    BY <1>1, <1>3, ReturnStep DEF PairsInv
  <1>6. FinalPairs' = FinalPairs /\ UseSampling' = UseSampling /\ Wanted' = Wanted
    BY <1>1 DEF FinalPairs, UseSampling, Wanted
  <1>7. TypeOK'
    BY <1>1, <1>5 DEF PairsInv, TypeOK
  <1>8. ProgressInv'
    BY <1>1 DEF PairsInv, ProgressInv
  <1>9. SelectionInv'
    BY <1>1, <1>6 DEF PairsInv, SelectionInv, Complete, Spreads, Covered
  <1>10. KeptInv'
    <2>1. ASSUME NEW q \in Ranks, pairsCalculated'[q], phase'[q] = "idle"
          PROVE  IF UseSampling THEN selectedPairs'[q] = FinalPairs
                                ELSE allValidPairs'[q] = FinalPairs
      BY <1>1, <2>1 DEF PairsInv, KeptInv
    <2>2. ASSUME NEW q \in Ranks, NEW T \in Results(q)'
          PROVE  IF target = 0 THEN T = {} ELSE T = FinalPairs /\ entered[0] >= 1
      <3>1. T = S \/ T \in Results(q)
        BY <1>5, <2>2
      <3>2. QED
        BY <1>2, <1>4, <3>1 DEF PairsInv, KeptInv
    <2>3. QED
      BY <1>1, <1>6, <2>1, <2>2 DEF KeptInv
  <1>11. QED
    BY <1>7, <1>8, <1>9, <1>10 DEF PairsInv

LEMMA DataStep ==
  ASSUME PairsInv, NEW r \in Ranks, ShareData(r)
  PROVE  PairsInv'
  <1> USE RanksFinite
  <1>1. /\ phase[r] = "data" /\ phase' = [phase EXCEPT ![r] = "idle"]
        /\ Keep(r) /\ Return(r, FinalPairs)
        /\ UNCHANGED <<target, entered, pairsCalculated>>
    BY DEF ShareData, Move
  <1>2. entered[0] >= 1 /\ entered[r] = 3 /\ pairsCalculated[r] /\ target # 0
    BY <1>1 DEF PairsInv, ProgressInv
  <1>3. FinalPairs \in SUBSET Pairs
    BY DEF PairsInv, TypeOK, FinalPairs
  <1>4. /\ returned' \in [Ranks -> Seq(SUBSET Pairs)]
        /\ \A q \in Ranks :
             Results(q)' = IF q = r THEN Results(r) \union {FinalPairs} ELSE Results(q)
    BY <1>1, <1>3, ReturnStep DEF PairsInv
  <1>5. UseSampling' = UseSampling /\ Wanted' = Wanted
    BY <1>1 DEF UseSampling, Wanted
  <1>6. /\ UseSampling => /\ selectedPairs' = [selectedPairs EXCEPT ![r] = FinalPairs]
                          /\ UNCHANGED allValidPairs
        /\ ~UseSampling => /\ allValidPairs' = [allValidPairs EXCEPT ![r] = FinalPairs]
                           /\ UNCHANGED selectedPairs
    BY <1>1 DEF Keep
  <1>7. FinalPairs' = FinalPairs
    <2>1. CASE UseSampling
      BY <1>5, <1>6, <2>1 DEF FinalPairs, PairsInv, TypeOK
    <2>2. CASE ~UseSampling
      BY <1>5, <1>6, <2>2 DEF FinalPairs, PairsInv, TypeOK
    <2>3. QED
      BY <2>1, <2>2
  <1>8. TypeOK'
    BY <1>1, <1>3, <1>4, <1>6 DEF PairsInv, TypeOK, Phases
  <1>9. ProgressInv'
    BY <1>1, <1>2 DEF PairsInv, ProgressInv, TypeOK
  <1>10. SelectionInv'
    <2>1. phase'[0] \notin {"cover", "fill"} /\ entered'[0] >= 1
      BY <1>1, <1>2 DEF PairsInv, ProgressInv, TypeOK
    <2>2. Complete(FinalPairs)
      BY <1>2 DEF PairsInv, SelectionInv
    <2>3. Complete(FinalPairs)'
      BY <1>5, <1>7, <2>2 DEF Complete, Spreads, Covered
    <2>4. ~(phase'[0] = "idle" /\ entered'[0] = 0)
      BY <1>1, <1>2
    <2>5. QED
      BY <2>1, <2>3, <2>4 DEF SelectionInv
  <1>11. KeptInv'
    <2>1. ASSUME NEW q \in Ranks, pairsCalculated'[q], phase'[q] = "idle"
          PROVE  IF UseSampling THEN selectedPairs'[q] = FinalPairs
                                ELSE allValidPairs'[q] = FinalPairs
      <3>1. CASE q = r
        BY <1>6, <3>1 DEF PairsInv, TypeOK
      <3>2. CASE q # r
        BY <1>1, <1>6, <2>1, <3>2 DEF PairsInv, KeptInv, TypeOK
      <3>3. QED
        BY <3>1, <3>2
    <2>2. ASSUME NEW q \in Ranks, NEW S \in Results(q)'
          PROVE  S = FinalPairs
      BY <1>2, <1>4, <2>2 DEF PairsInv, KeptInv
    <2>3. QED
      BY <1>1, <1>2, <1>5, <1>7, <2>1, <2>2 DEF KeptInv
  <1>12. QED
    BY <1>8, <1>9, <1>10, <1>11 DEF PairsInv

LEMMA PairsStep == PairsInv /\ [Next]_vars => PairsInv'
  <1> SUFFICES ASSUME PairsInv, [Next]_vars PROVE PairsInv'
    OBVIOUS
  <1>1. CASE RankZero
    BY <1>1, GenerateStep, SelectionStep DEF RankZero
  <1>2. ASSUME NEW r \in Ranks, Communicate(r) PROVE PairsInv'
    BY <1>2, AnswerStep, JoinStep, ShareStep, DataStep DEF Communicate
  <1>3. CASE UNCHANGED vars
    <2>1. /\ UNCHANGED <<target, phase, entered, pairsCalculated>>
          /\ UNCHANGED <<allValidPairs, selectedPairs, returned>>
      BY <1>3 DEF vars
    <2>2. TypeOK'
      BY <2>1 DEF PairsInv, TypeOK
    <2>3. ProgressInv'
      BY <2>1 DEF PairsInv, ProgressInv
    <2>4. FinalPairs' = FinalPairs /\ UseSampling' = UseSampling /\ Wanted' = Wanted
      BY <2>1 DEF FinalPairs, UseSampling, Wanted
    <2>5. SelectionInv'
      <3>1. Complete(FinalPairs)' = Complete(FinalPairs)
        BY <2>4 DEF Complete, Spreads, Covered
      <3>2. QED
        BY <2>1, <2>4, <3>1 DEF PairsInv, SelectionInv, Spreads, Covered
    <2>6. KeptInv'
      BY <2>1, SamePairs
    <2>7. QED
      BY <2>2, <2>3, <2>5, <2>6 DEF PairsInv
  <1>4. QED
    BY <1>1, <1>2, <1>3 DEF Next, Finished

LEMMA PairsInductive == Spec => []PairsInv
  BY InitPairsInv, PairsStep, PTL DEF Spec

-------------------------------------------------------------------------------
\* Each rank makes three collective calls at most, however often it is asked for
\* the pairs, and keeps nothing but pairs of ranks.
THEOREM PairsTypeCorrect == Spec => []TypeOK
  <1>1. PairsInv => TypeOK
    BY DEF PairsInv
  <1>2. QED
    BY PairsInductive, <1>1, PTL

\* The static variables of generateTestPairs: whatever rank and whichever of
\* its testcases asks, the answer is the list that rank 0 broadcast once.
THEOREM RanksReturnTheSame == Spec => []RanksAgree
  <1>1. PairsInv => RanksAgree
    BY DEF PairsInv, KeptInv, RanksAgree
  <1>2. QED
    BY PairsInductive, <1>1, PTL

\* targetNumPairs: exactly as many pairs as asked for, and all of them by
\* default, for every number of ranks.
THEOREM ExactlyTheTarget == Spec => []TargetIsMet
  <1>1. PairsInv => TargetIsMet
    <2> SUFFICES ASSUME PairsInv, NEW r \in Ranks, NEW S \in Results(r)
                 PROVE  Cardinality(S) = Wanted
      BY DEF TargetIsMet
    <2>1. CASE target = 0
      <3>1. S = {} /\ Wanted = 0
        BY <2>1 DEF PairsInv, KeptInv, Wanted
      <3>2. QED
        BY <3>1, FS_EmptySet
    <2>2. CASE target # 0
      BY <2>2 DEF PairsInv, KeptInv, SelectionInv, Complete
    <2>3. QED
      BY <2>1, <2>2
  <1>2. QED
    BY PairsInductive, <1>1, PTL

\* The first pass: a sample of n pairs covers more than n GPUs, until all of
\* them are covered, whatever order the shuffles produce.
THEOREM SamplesSpread == Spec => []CoverageGrows
  <1>1. PairsInv => CoverageGrows
    BY DEF PairsInv, KeptInv, SelectionInv, Complete, Spreads, CoverageGrows
  <1>2. QED
    BY PairsInductive, <1>1, PTL
===============================================================================
