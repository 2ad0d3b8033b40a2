------------------------------ MODULE Statistics ------------------------------
(***************************************************************************)
(* From elapsed times to the report: the integer arithmetic at the end of  *)
(* a sample in doMemcpyCore, PerformanceStatistic, the choice of a value,  *)
(* PeerValueMatrix, and what the text and the JSON output make of it.      *)
(*                                                                         *)
(* Times are in quarters of a microsecond.  A reported value is scaled by  *)
(* 2 * samples, which makes means and medians whole numbers.               *)
(***************************************************************************)
EXTENDS Integers, SequencesExt

CONSTANTS
  Testcases,  \* shapes of testcases, see Testcase
  Works,      \* adjustedCopySize * loopCount, in bytes
  Times,      \* elapsed times of a copy
  Samples,    \* values of --testSamples
  Micro,      \* microseconds in a second
  Wrap        \* unsigned long long counts modulo Wrap

\* The matrix, the copies measured together, how many bandwidths a copy stands
\* for (two for a split-warp copy), and the value taken from the copies.  TOTAL
\* is one bandwidth for all of them, from the first start to the last end.
Testcase ==
  [rows : Nat \ {0}, columns : Nat \ {0}, copies : {1, 2}, halves : {1, 2},
   value : {"FIRST", "SUM", "VECTOR", "TOTAL"}]

ASSUME StatisticsAssumption ==
  /\ Testcases \subseteq Testcase
  /\ \A t \in Testcases :
       (t.value = "VECTOR" => t.copies = 2) /\ (t.value = "TOTAL" => t.halves = 1)
  /\ Works \subseteq Nat /\ Times \subseteq Nat
  /\ Samples \subseteq Nat \ {0}
  /\ {Micro, Wrap} \subseteq Nat \ {0}

VARIABLES
  test, work, useMean, samples,
  pc,
  cell,      \* the cell of the matrix that is measured, row by row
  taken,     \* elapsed times of its samples, one for each copy and their total
  stats,     \* the PerformanceStatistic of each copy and of the total
  matrices,  \* the matrices of the testcase, each a sequence of cells
  text,      \* what operator<< makes of each matrix
  json       \* the members of the testcase in the JSON document

options == <<test, work, useMean, samples>>
vars == <<options, pc, cell, taken, stats, matrices, text, json>>

NA == -1                 \* std::nullopt, and "N/A"
Huge == Wrap * Wrap * Micro  \* above every bandwidth
Tiny == 0                \* the smallest positive double rounds to it here

CellCount == test.rows * test.columns
Copies == 1 .. test.copies
Total == 3               \* the place of the total among the statistics
Measured == Copies \union (IF test.value = "TOTAL" THEN {Total} ELSE {})
Add(values) == FoldLeft(LAMBDA a, b : a + b, 0, values)
Larger(a, b) == IF a >= b THEN a ELSE b
Lesser(a, b) == IF a <= b THEN a ELSE b

-------------------------------------------------------------------------------
(***************************************************************************)
(* A sample and its statistic.                                             *)
(***************************************************************************)
Microseconds(time) == time \div 4
AdjustedBandwidth(bandwidth) == bandwidth \div test.halves
Bandwidth(time) == AdjustedBandwidth(((work * Micro) % Wrap) \div Microseconds(time))

\* In floating point: neither reduced nor cut to microseconds.
TotalBandwidth(time) == (4 * test.copies * work * Micro) \div time

\* Sorted insertion.  (Mutant: in the order of the samples.)
RecordAtEnd(values, v) == Append(values, v)
RecordSample(values, v) ==
  InsertAt(values, Cardinality({i \in DOMAIN values : values[i] < v}) + 1, v)

Mean(values) == 2 * Add(values)

\* (Mutant: an off-by-one in the middle of an even number of values.)
MedianAbove(values) ==
  LET n == Len(values)
  IN  IF n % 2 = 0
      THEN n * (values[Lesser(n, n \div 2 + 2)] + values[n \div 2 + 1])
      ELSE 2 * n * values[n \div 2 + 1]
Median(values) ==
  LET n == Len(values)
  IN  IF n % 2 = 0
      THEN n * (values[n \div 2 + 1] + values[n \div 2])
      ELSE 2 * n * values[n \div 2 + 1]

ReturnAppropriateMetric(values) == IF useMean THEN Mean(values) ELSE Median(values)

\* The values of a measurement: one per matrix of the testcase.
Values ==
  LET metric == [k \in Measured |-> ReturnAppropriateMetric(stats[k])]
  IN  CASE test.value = "FIRST"  -> <<metric[1]>>
        [] test.value = "SUM"    -> <<Add(metric)>>
        [] test.value = "TOTAL"  -> <<metric[Total]>>
        [] test.value = "VECTOR" -> <<metric[1], metric[2], metric[1] + metric[2]>>

-------------------------------------------------------------------------------
(***************************************************************************)
(* What becomes of a matrix.                                               *)
(***************************************************************************)
ValueOr0(v) == IF v = NA THEN 0 ELSE v

\* operator<< for PeerValueMatrix.
TextSummary(m) ==
  LET values == [c \in DOMAIN m |-> ValueOr0(m[c])]
  IN  [sum   |-> Add(values),
       count |-> Len(SelectSeq(values, LAMBDA v : v > 0)),
       min   |-> FoldLeft(Lesser, Huge, values),
       max   |-> FoldLeft(Larger, Tiny, values)]

\* JsonOutput::addTestcaseResults: the rows are appended to those of the
\* matrices before, the rest is overwritten.
\* (Mutant: it sums up what is not available, as the text does.)
CountEverything(m) == [c \in DOMAIN m |-> ValueOr0(m[c])]
Shown(m) == SelectSeq(m, LAMBDA v : v > 0)

JsonRow(m, r) ==
  [c \in 1 .. test.columns |->
     LET v == m[(r - 1) * test.columns + c] IN IF v > 0 THEN v ELSE NA]

AddTestcaseResults(m) ==
  LET values == Shown(m)
  IN  [matrix |-> json.matrix \o [r \in 1 .. test.rows |-> JsonRow(m, r)],
       sum    |-> Add(values),
       count  |-> Len(values),
       min    |-> FoldLeft(Lesser, Huge, values),
       max    |-> FoldLeft(Larger, Tiny, values)]

-------------------------------------------------------------------------------
(***************************************************************************)
(* A testcase.                                                             *)
(***************************************************************************)
NoStats == <<<<>>, <<>>, <<>>>>
MatrixCount(t) == IF t.value = "VECTOR" THEN 3 ELSE 1

Init ==
  /\ test \in Testcases /\ work \in Works /\ useMean \in BOOLEAN /\ samples \in Samples
  /\ pc = "cell"
  /\ cell = 1
  /\ taken = <<>>
  /\ stats = NoStats
  /\ matrices = [m \in 1 .. MatrixCount(test) |-> [c \in 1 .. test.rows * test.columns |-> NA]]
  /\ text = <<>>
  /\ json = [matrix |-> <<>>, sum |-> 0, count |-> 0, min |-> 0, max |-> 0]

\* A pair that the testcase does not measure.
Skip ==
  /\ pc = "cell" /\ cell <= CellCount /\ taken = <<>>
  /\ cell' = cell + 1
  /\ UNCHANGED <<options, pc, taken, stats, matrices, text, json>>

\* All start together and the total ends after each of them (StartTogether and
\* TotalCoversEveryCopy of MemcpyCore).
Sample ==
  /\ pc = "cell" /\ cell <= CellCount /\ Len(taken) < samples
  /\ \E times \in [Measured -> Times] :
       /\ \A k \in Copies : Microseconds(times[k]) > 0
       /\ Total \in Measured => \A k \in Copies : times[Total] >= times[k]
       /\ taken' = Append(taken, times)
       /\ stats' = [k \in DOMAIN stats |->
                      CASE k \in Copies   -> RecordSample(stats[k], Bandwidth(times[k]))
                        [] k \in Measured \ Copies
                                         -> RecordSample(stats[k], TotalBandwidth(times[k]))
                        [] OTHER         -> <<>>]
  /\ UNCHANGED <<options, pc, cell, matrices, text, json>>

\* A copy of less than a microsecond divides by zero.
DivideByZero ==
  /\ pc = "cell" /\ cell <= CellCount /\ Len(taken) < samples
  /\ \E time \in Times : Microseconds(time) = 0
  /\ pc' = "exited"
  /\ UNCHANGED <<options, cell, taken, stats, matrices, text, json>>

\* The cell keeps the value; the statistics end with the measurement.
Keep ==
  /\ pc = "cell" /\ Len(taken) = samples
  /\ matrices' = [m \in DOMAIN matrices |-> [matrices[m] EXCEPT ![cell] = Values[m]]]
  /\ pc' = "kept"
  /\ UNCHANGED <<options, cell, taken, stats, text, json>>

\* (Mutant: the statistics of one measurement go on into the next.)
CarriedOver == stats
FreshStats == NoStats

NextCell ==
  /\ pc = "kept"
  /\ cell' = cell + 1
  /\ taken' = <<>>
  /\ stats' = FreshStats
  /\ pc' = "cell"
  /\ UNCHANGED <<options, matrices, text, json>>

Report ==
  /\ pc = "cell" /\ cell > CellCount /\ Len(text) < Len(matrices)
  /\ LET m == matrices[Len(text) + 1]
     IN  /\ text' = Append(text, TextSummary(m))
         /\ json' = AddTestcaseResults(m)
  /\ UNCHANGED <<options, pc, cell, taken, stats, matrices>>

Next == Skip \/ Sample \/ DivideByZero \/ Keep \/ NextCell \/ Report

Spec == Init /\ [][Next]_vars

-------------------------------------------------------------------------------
(***************************************************************************)
(* Properties.                                                             *)
(***************************************************************************)
\* The product of size, loop count and 10^6 is not reduced.
Fits == work * Micro < Wrap

\* Bounds of the exact bandwidth of copy k in a sample, scaled: that of its
\* real time less the roundings, and that of its whole microseconds.
Scaled == 2 * samples
AtLeast(time) == (4 * work * Micro * Scaled) \div (time * test.halves) - 2 * Scaled
AtMost(time) == (work * Micro * Scaled) \div (Microseconds(time) * test.halves)

\* A value kept for copy k of this cell is that of its samples, as far as whole
\* microseconds tell: within the slowest and the fastest of them, and for a
\* median no slower than half of them and no faster than half of them.
IsOfTheSamples(v, k) ==
  LET slower == {n \in DOMAIN taken : AtLeast(taken[n][k]) <= v}
      faster == {n \in DOMAIN taken : AtMost(taken[n][k]) >= v}
  IN  /\ slower # {} /\ faster # {}
      /\ ~useMean => 2 * Cardinality(slower) >= samples /\ 2 * Cardinality(faster) >= samples

\* What the matrix keeps for a pair comes from the times of that pair alone, in
\* every one of the ways to take a value; a total is no faster than its copies
\* by themselves, and no slower than the whole time of one of its samples.
KeepsWhatWasMeasured ==
  (pc = "kept" /\ Fits) =>
    CASE test.value = "FIRST"  -> IsOfTheSamples(matrices[1][cell], 1)
      [] test.value = "VECTOR" ->
           /\ \A k \in Copies : IsOfTheSamples(matrices[k][cell], k)
           /\ matrices[3][cell] = matrices[1][cell] + matrices[2][cell]
      [] test.value = "SUM"    ->
           LET bound(B(_)) == {B(taken[n][1]) + B(taken[m][2]) : n, m \in DOMAIN taken}
           IN  /\ \E low \in bound(AtLeast) : low <= matrices[1][cell]
               /\ \E high \in bound(AtMost) : high >= matrices[1][cell]
      [] test.value = "TOTAL"  ->
           LET apart(n) == FoldFunctionOnSet(LAMBDA a, b : a + b, 0,
                                             [k \in Copies |-> AtMost(taken[n][k])], Copies)
               together(n) == AtLeast(taken[n][Total]) * test.copies
           IN  /\ \E n \in DOMAIN taken : together(n) <= matrices[1][cell]
               /\ \E n \in DOMAIN taken : apart(n) >= matrices[1][cell]

\* What is reported of the n-th matrix when it has just been added.
\* Both outputs agree on the sum, the number of values and the largest of them;
\* the JSON minimum is a value that was measured, the one of the text only when
\* every pair was; the rows of a matrix are the last ones of the document, and
\* show N/A exactly for pairs without traffic; the last matrix of a
\* bidirectional testcase sums the two before it.
SummaryIsOfTheMatrix ==
  LET n == Len(text)
      m == matrices[n]
      positive == {m[c] : c \in DOMAIN m} \ {NA, 0}
      rows == SubSeq(json.matrix, (n - 1) * test.rows + 1, Len(json.matrix))
  IN  n > 0 =>
        /\ json.sum = text[n].sum /\ json.count = text[n].count /\ json.max = text[n].max
        /\ positive # {} =>
             /\ json.min \in positive /\ json.max \in positive
             /\ json.min * json.count <= json.sum /\ json.sum <= json.max * json.count
        /\ (positive # {} /\ \A c \in DOMAIN m : m[c] \in positive) => json.min = text[n].min
        /\ Len(rows) = test.rows
        /\ \A r \in 1 .. test.rows, c \in 1 .. test.columns :
             LET v == m[(r - 1) * test.columns + c]
             IN  rows[r][c] = IF v \in positive THEN v ELSE NA
        /\ n = 3 => json.sum = text[1].sum + text[2].sum
===============================================================================
