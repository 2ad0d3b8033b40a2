----------------------------- MODULE MCTestPairs -----------------------------
(***************************************************************************)
(* Four ranks: no pair, too few pairs to cover them in every selection, a  *)
(* pair for all but one, and all pairs in both spellings.                  *)
(***************************************************************************)
EXTENDS TestPairs

SampledTargets == {-1, 0, 1, 2, 3, MaxPairs}
===============================================================================
