----------------------------- MODULE MCStatistics -----------------------------
(***************************************************************************)
(* Rows of three GPUs, pairs measured in both directions, sums and totals. *)
(***************************************************************************)
EXTENDS Statistics

Shape(rows, columns, copies, halves, value) ==
  [rows |-> rows, columns |-> columns, copies |-> copies, halves |-> halves, value |-> value]

SmallTestcases ==
  {Shape(1, 3, 1, 1, "FIRST"), Shape(2, 1, 1, 2, "FIRST"), Shape(2, 1, 2, 1, "VECTOR"),
   Shape(1, 1, 2, 1, "SUM"), Shape(1, 1, 2, 1, "TOTAL")}
===============================================================================
