--------------------------- MODULE CopyVerifyProofs ---------------------------
(***************************************************************************)
(* What holds of CopyVerify for every size of buffer, block, grid and      *)
(* threshold.                                                              *)
(*                                                                         *)
(* The elements that a grid touches are an interval from 0 (2), within     *)
(* what is reported, which is what is filled and compared (3).  After a    *)
(* copy, the compared words that moved hold the pattern and the others do  *)
(* not (4), which decides the verification (5).                            *)
(***************************************************************************)
EXTENDS CopyVerify, FiniteSetTheorems, TLAPS

-------------------------------------------------------------------------------
(***************************************************************************)
(* 1. Quotients and remainders.                                            *)
(***************************************************************************)
LEMMA DivMod ==
  ASSUME NEW a \in Nat, NEW b \in Nat \ {0}
  PROVE  /\ a \div b \in Nat /\ a % b \in 0 .. b - 1
         /\ a = b * (a \div b) + (a % b)
  OBVIOUS

LEMMA ProductType ==
  ASSUME NEW a \in Nat, NEW b \in Nat
  PROVE  a * b \in Nat /\ a * b = b * a /\ (a >= 1 /\ b >= 1 => a * b >= 1)
  OBVIOUS

LEMMA ProductMonotone ==
  ASSUME NEW a \in Nat, NEW b \in Nat, NEW c \in Nat, a <= b
  PROVE  a * c <= b * c /\ c * a <= c * b
  OBVIOUS

\* The numbers below a * b are those of a rows of b.
LEMMA Rows ==
  ASSUME NEW a \in Nat, NEW b \in Nat \ {0}, NEW e \in Nat
  PROVE  /\ e < a * b => e \div b \in 0 .. a - 1
         /\ e % b \in 0 .. b - 1
         /\ e = (e % b) + (e \div b) * b
  <1>1. /\ e \div b \in Nat /\ e % b \in 0 .. b - 1 /\ e = b * (e \div b) + (e % b)
    BY DivMod
  <1>2. e \div b >= a => e >= a * b
    <2> SUFFICES ASSUME e \div b >= a PROVE e >= a * b
      OBVIOUS
    <2>1. b * a <= b * (e \div b)
      BY <1>1, ProductMonotone
    <2>2. QED
      BY <1>1, <2>1, ProductType
  <1>3. b * (e \div b) = (e \div b) * b
    BY <1>1, ProductType
  <1>4. QED
    BY <1>1, <1>2, <1>3, ProductType

LEMMA InRows ==
  ASSUME NEW a \in Nat, NEW b \in Nat \ {0}, NEW q \in 0 .. a - 1, NEW t \in 0 .. b - 1
  PROVE  t + q * b \in 0 .. a * b - 1
  <1>1. (q + 1) * b <= a * b
    BY ProductMonotone
  <1>2. (q + 1) * b = q * b + b
    OBVIOUS
  <1>3. QED
    BY <1>1, <1>2, ProductType

LEMMA Exact ==
  ASSUME NEW a \in Nat, NEW b \in Nat \ {0}
  PROVE  (a * b) \div b = a /\ (b * a) \div b = a
  <1>1. /\ a * b \in Nat /\ b * a = a * b
    BY ProductType
  <1>2. a * b = b * ((a * b) \div b) + ((a * b) % b) /\ (a * b) % b \in 0 .. b - 1
        /\ (a * b) \div b \in Nat
    BY <1>1, DivMod
  <1>3. QED
    BY <1>1, <1>2

LEMMA DivMonotone ==
  ASSUME NEW a \in Nat, NEW b \in Nat, NEW c \in Nat \ {0}, a <= b
  PROVE  a \div c <= b \div c /\ c * (a \div c) <= a /\ (c <= a => a \div c >= 1)
  <1>1. /\ a = c * (a \div c) + (a % c) /\ a % c \in 0 .. c - 1 /\ a \div c \in Nat
        /\ b = c * (b \div c) + (b % c) /\ b % c \in 0 .. c - 1 /\ b \div c \in Nat
    BY DivMod
  <1>2. a \div c > b \div c => c * (a \div c) >= c * (b \div c) + c
    <2> SUFFICES ASSUME a \div c > b \div c PROVE c * (a \div c) >= c * (b \div c) + c
      OBVIOUS
    <2>1. c * ((b \div c) + 1) <= c * (a \div c)
      BY <1>1, ProductMonotone
    <2>2. QED
      BY <1>1, <2>1
  <1>3. c * (a \div c) \in Nat /\ c * (b \div c) \in Nat
    BY <1>1, ProductType
  <1>4. c <= a => a \div c # 0
    BY <1>1
  <1>5. QED
    BY <1>1, <1>2, <1>3, <1>4

-------------------------------------------------------------------------------
(***************************************************************************)
(* 2. The elements a grid touches are an interval from 0.                  *)
(***************************************************************************)
LEMMA Units ==
  /\ KiB \in Nat \ {0} /\ MiB \in Nat \ {0} /\ Threshold \in Nat \ {0} /\ Block \in Nat \ {0}
  /\ Threads \in Nat \ {0} /\ Pipe \in Nat \ {0} /\ Warp \in Nat \ {0}
  /\ KiB % 8 = 0 /\ MiB % (8 * Block) = 0 /\ Threshold % MiB = 0 /\ 8 * Threads <= Threshold
  BY UnitAssumption

\* The whole pipes and the rest are all that a thread has to do.
LEMMA RoundsAll ==
  ASSUME NEW chunk \in Nat
  PROVE  Rounds(chunk) = 0 .. chunk - 1
  <1>1. /\ chunk \div Pipe \in Nat /\ Pipe * (chunk \div Pipe) <= chunk
        /\ (chunk \div Pipe) * Pipe = Pipe * (chunk \div Pipe)
        /\ (chunk \div Pipe) * Pipe \in Nat
    BY Units, DivMod, DivMonotone, ProductType
  <1>2. QED
    BY <1>1 DEF Rounds, WholePipes

LEMMA StridingAll ==
  ASSUME NEW chunk \in Nat
  PROVE  StridingElements(chunk) = 0 .. chunk * Threads - 1
  <1>1. StridingElements(chunk) = {t + r * Threads : t \in 0 .. Threads - 1, r \in 0 .. chunk - 1}
    BY RoundsAll DEF StridingElements
  <1>2. chunk * Threads \in Nat
    BY Units, ProductType
  <1>3. ASSUME NEW e \in 0 .. chunk * Threads - 1 PROVE e \in StridingElements(chunk)
    <2>1. /\ e \div Threads \in 0 .. chunk - 1 /\ e % Threads \in 0 .. Threads - 1
          /\ e = (e % Threads) + (e \div Threads) * Threads
      <3>1. e \in Nat /\ e < chunk * Threads
        BY <1>2
      <3>2. QED
        BY <3>1, Units, Rows
    <2>2. QED
      BY <1>1, <2>1
  <1>4. ASSUME NEW t \in 0 .. Threads - 1, NEW r \in 0 .. chunk - 1
        PROVE  t + r * Threads \in 0 .. chunk * Threads - 1
    BY Units, InRows
  <1>5. QED
    BY <1>1, <1>3, <1>4

LEMMA MulticastAll ==
  ASSUME NEW n \in Nat
  PROVE  MulticastElements(n) = 0 .. n - 1
  <1>1. ASSUME NEW e \in 0 .. n - 1 PROVE e \in MulticastElements(n)
    <2>1. /\ e \div Threads \in Nat /\ e % Threads \in 0 .. Threads - 1
          /\ e = (e % Threads) + (e \div Threads) * Threads
      <3>1. e \in Nat
        OBVIOUS
      <3>2. QED
        BY <3>1, Units, Rows, DivMod
    <2>2. e \div Threads <= n \div Threads /\ n \div Threads \in Nat
      BY Units, DivMonotone, DivMod
    <2>3. e \div Threads \in 0 .. n \div Threads
      BY <2>1, <2>2
    <2>4. QED
      BY <2>1, <2>3 DEF MulticastElements
  <1>2. QED
    BY <1>1 DEF MulticastElements

\* A grid of whole blocks has at most the threads that it is asked for, and all
\* of them if they are whole blocks or fit into one.
LEMMA GridBound ==
  ASSUME NEW n \in Nat \ {0}
  PROVE  /\ GridThreads(n) \in 0 .. n
         /\ n % Block = 0 => GridThreads(n) = n
  <1>1. CASE n <= Block
    <2>1. n * (n \div n) = n
      <3>1. n \div n = 1
        BY Exact
      <3>2. QED
        BY <3>1
    <2>2. QED
      BY <1>1, <2>1, Units DEF GridThreads, Smaller
  <1>2. CASE n > Block
    <2>1. GridThreads(n) = Block * (n \div Block)
      BY <1>2, Units DEF GridThreads, Smaller
    <2>2. /\ n = Block * (n \div Block) + (n % Block) /\ n % Block \in 0 .. Block - 1
          /\ n \div Block \in Nat /\ Block * (n \div Block) \in Nat
      BY Units, DivMod, ProductType
    <2>3. QED
      BY <2>1, <2>2
  <1>3. QED
    BY <1>1, <1>2, Units

LEMMA RowsOfReads ==
  ASSUME NEW threads \in Nat \ {0}, NEW p \in Nat, NEW reads \in Nat, reads <= threads * p,
         NEW e \in 0 .. reads - 1
  PROVE  \E t \in 0 .. threads - 1, j \in 0 .. p - 1 : e = t + j * threads
  <1>1. e \in Nat /\ e < p * threads
    BY ProductType
  <1>2. /\ e \div threads \in 0 .. p - 1 /\ e % threads \in 0 .. threads - 1
        /\ e = (e % threads) + (e \div threads) * threads
    BY <1>1, Rows
  <1>3. QED
    BY <1>2

\* The words of an interval of elements are an interval.
LEMMA WordsAll ==
  ASSUME NEW n \in Nat, NEW k, k.elements = 0 .. n - 1, k.width \in Nat \ {0}
  PROVE  Words(k) = 0 .. n * k.width - 1
  <1> DEFINE w == k.width
  <1>1. ASSUME NEW i \in 0 .. n * w - 1 PROVE i \in Words(k)
    <2>1. n * w \in Nat /\ i \in Nat /\ i < n * w
      <3>1. n * w \in Nat
        BY ProductType
      <3>2. QED
        BY <3>1
    <2>2. i \div w \in 0 .. n - 1 /\ i % w \in 0 .. w - 1 /\ i = (i % w) + (i \div w) * w
      BY <2>1, Rows
    <2>3. i = (i \div w) * w + (i % w)
      <3>1. i \div w \in Nat /\ w \in Nat /\ i % w \in Nat
        BY <2>2
      <3>2. (i \div w) * w \in Nat
        BY <3>1, ProductType
      <3>3. QED
        BY <2>2, <3>1, <3>2
    <2>4. QED
      BY <2>2, <2>3 DEF Words
  <1>2. ASSUME NEW e \in 0 .. n - 1, NEW i \in 0 .. w - 1 PROVE e * w + i \in 0 .. n * w - 1
    <2>1. i + e * w \in 0 .. n * w - 1
      BY InRows
    <2>2. QED
      BY <2>1, ProductType
  <1>3. Words(k) = {e * w + i : e \in 0 .. n - 1, i \in 0 .. w - 1}
    BY DEF Words
  <1>4. Words(k) \subseteq 0 .. n * w - 1
    BY <1>2, <1>3
  <1>5. QED
    BY <1>1, <1>4

LEMMA WordsReadAll ==
  ASSUME NEW n \in Nat, NEW k, k.elements = 0 .. n - 1, k.width \in ReadWidths
  PROVE  WordsRead(k) = 0 .. n * k.width - 1
  <1> DEFINE w == k.width
  <1>1. CASE w = 2
    BY <1>1, WordsAll DEF WordsRead
  <1>2. CASE w \in {4, 8}
    <2> DEFINE loads == w \div Uint4
    <2>1. loads \in {1, 2} /\ loads * 4 = w
      BY <1>2 DEF Uint4
    <2>2. WordsRead(k) = {e * w + l * 4 + i : e \in 0 .. n - 1, l \in 0 .. loads - 1, i \in 0 .. 3}
      <3>1. w # 2 /\ Uint4 = 4
        BY <1>2 DEF Uint4
      <3>2. WordsRead(k) = {e * w + l * Uint4 + i :
                              e \in k.elements, l \in 0 .. loads - 1, i \in 0 .. Uint4 - 1}
        BY <3>1 DEF WordsRead
      <3>3. QED
        BY <3>1, <3>2
    <2>3. Words(k) = 0 .. n * w - 1
      BY <1>2, WordsAll
    <2>4. WordsRead(k) = Words(k)
      <3>1. ASSUME NEW e \in 0 .. n - 1, NEW l \in 0 .. loads - 1, NEW i \in 0 .. 3
            PROVE  e * w + l * 4 + i \in Words(k)
        <4>1. l * 4 + i \in 0 .. w - 1 /\ e * w \in Nat
          BY <2>1, ProductType
        <4>2. e * w + l * 4 + i = e * w + (l * 4 + i)
          BY <2>1, <4>1
        <4>3. QED
          BY <4>1, <4>2 DEF Words
      <3>2. ASSUME NEW e \in 0 .. n - 1, NEW i \in 0 .. w - 1
            PROVE  e * w + i \in WordsRead(k)
        <4>1. PICK l \in 0 .. loads - 1, c \in 0 .. 3 : i = l * 4 + c
          <5>1. i < 4 \/ (w = 8 /\ i - 4 \in 0 .. 3)
            BY <1>2
          <5>2. CASE i < 4
            <6>1. 0 \in 0 .. loads - 1 /\ i \in 0 .. 3 /\ i = 0 * 4 + i
              BY <2>1, <5>2
            <6>2. QED
              BY <6>1
          <5>3. CASE w = 8 /\ i - 4 \in 0 .. 3
            <6>1. 1 \in 0 .. loads - 1 /\ i = 1 * 4 + (i - 4)
              BY <2>1, <5>3
            <6>2. QED
              BY <5>3, <6>1
          <5>4. QED
            BY <5>1, <5>2, <5>3
        <4>2. e * w + i = e * w + l * 4 + c
          <5>1. e * w \in Nat
            BY <1>2, ProductType
          <5>2. QED
            BY <2>1, <4>1, <5>1
        <4>3. QED
          BY <2>2, <4>1, <4>2
      <3>3. WordsRead(k) \subseteq Words(k)
        BY <2>2, <3>1
      <3>4. Words(k) = {e * w + i : e \in 0 .. n - 1, i \in 0 .. w - 1}
        BY DEF Words
      <3>5. Words(k) \subseteq WordsRead(k)
        BY <3>2, <3>4
      <3>6. QED
        BY <3>3, <3>5
    <2>5. QED
      BY <2>3, <2>4
  <1>3. QED
    BY <1>1, <1>2 DEF ReadWidths

-------------------------------------------------------------------------------
(***************************************************************************)
(* 3. What is filled, moved and reported.                                  *)
(***************************************************************************)
\* A buffer is a whole number of KiB.
GoodSize == \E n \in Nat \ {0} : size = KiB * n

\* Kernel k touches the first n elements, no more than it reports; what it
\* reports is what is filled and compared, and inside the buffers.
Covers(o, k, n) ==
  /\ k.elements = 0 .. n - 1
  /\ k.width \in Nat \ {0}
  /\ n * k.width \in Nat
  /\ n * k.width <= k.claimed
  /\ k.claimed = AdjustedCopySize(o)
  /\ AdjustedCopySize(o) \in Nat /\ AdjustedCopySize(o) <= size
  /\ o.kind = "SM" /\ (size % MiB = 0 \/ size >= Threshold) => n * k.width = k.claimed
  /\ o.kind \in {"CE", "Multicast"} => n * k.width = k.claimed

LEMMA SizeFacts ==
  ASSUME GoodSize
  PROVE  size \in Nat \ {0} /\ size >= 8 /\ size % 8 = 0
  <1>1. PICK n \in Nat \ {0} : size = KiB * n
    BY DEF GoodSize
  <1>2. /\ KiB \div 8 \in Nat /\ KiB = 8 * (KiB \div 8)
    BY Units
  <1>3. size = 8 * ((KiB \div 8) * n)
    BY <1>1, <1>2
  <1>4. (KiB \div 8) * n \in Nat \ {0}
    BY <1>2, Units, ProductType
  <1>5. QED
    BY <1>3, <1>4

LEMMA Regroup ==
  ASSUME NEW a \in Nat, NEW b \in Nat, NEW c \in Nat, NEW d \in Nat, NEW e \in Nat
  PROVE  (((a * b) * c) * d) * e = a * (c * (b * d * e))
  OBVIOUS

LEMMA QuotientFacts ==
  ASSUME GoodSize, NEW w \in {1, 2, 4, 8}
  PROVE  /\ size \div w \in Nat \ {0} /\ (size \div w) * w \in Nat /\ (size \div w) * w <= size
         /\ size % MiB = 0 => (size \div w) % Block = 0
  <1>1. size \in Nat \ {0} /\ size >= 8
    BY SizeFacts
  <1>2. size \div w \in Nat \ {0} /\ (size \div w) * w \in Nat /\ (size \div w) * w <= size
    BY <1>1
  <1>3. ASSUME size % MiB = 0 PROVE (size \div w) % Block = 0
    <2> DEFINE m == size \div MiB
               b == MiB \div (8 * Block)
    <2>1. size = MiB * m /\ m \in Nat
      <3>1. size = MiB * m + (size % MiB) /\ m \in Nat /\ MiB * m \in Nat
        BY <1>1, Units, DivMod, ProductType
      <3>2. QED
        BY <1>3, <3>1
    <2>2. MiB = (8 * Block) * b /\ b \in Nat
      <3>1. 8 * Block \in Nat \ {0}
        BY Units
      <3>2. MiB = (8 * Block) * b + (MiB % (8 * Block)) /\ b \in Nat /\ (8 * Block) * b \in Nat
        BY <3>1, Units, DivMod, ProductType
      <3>3. QED
        BY <3>2, Units
    <2>3. PICK c \in {1, 2, 4, 8} : 8 = w * c
      BY w = 1 => 8 = w * 8, w = 2 => 8 = w * 4, w = 4 => 8 = w * 2, w = 8 => 8 = w * 1
    <2>4. size = w * (Block * (c * b * m))
      <3>1. size = ((8 * Block) * b) * m
        BY <2>1, <2>2
      <3>2. size = (((w * c) * Block) * b) * m
        BY <2>3, <3>1
      <3>3. QED
        <4>1. w \in Nat /\ c \in Nat /\ Block \in Nat /\ b \in Nat /\ m \in Nat
          BY <2>1, <2>2, <2>3, Units
        <4> HIDE DEF b, m
        <4>2. (((w * c) * Block) * b) * m = w * (Block * (c * b * m))
          BY <4>1, Regroup
        <4>3. QED
          BY <3>2, <4>2
    <2>5. c * b * m \in Nat /\ Block * (c * b * m) \in Nat
      BY <2>1, <2>2, Units
    <2> HIDE DEF m, b
    <2>6. size \div w = Block * (c * b * m)
      BY <2>4, <2>5, Exact
    <2>7. (Block * (c * b * m)) % Block = 0
      <3> DEFINE z == c * b * m
      <3>1. z \in Nat /\ Block \in Nat \ {0} /\ Block * z \in Nat
        BY <2>5, Units
      <3> HIDE DEF z
      <3>2. (Block * z) \div Block = z
        BY <3>1, Exact
      <3>3. Block * z = Block * ((Block * z) \div Block) + ((Block * z) % Block)
            /\ (Block * z) % Block \in 0 .. Block - 1
        BY <3>1, DivMod
      <3>4. (Block * z) % Block = 0
        BY <3>1, <3>2, <3>3
      <3>5. QED
        BY <3>4 DEF z
    <2>8. QED
      BY <2>6, <2>7
  <1>4. QED
    BY <1>2, <1>3

\* The large kernels give every thread the same number of elements.
LEMMA TruncatedFacts ==
  ASSUME GoodSize, NEW w \in {1, 2, 4, 8}
  PROVE  /\ Truncated(w) \in Nat /\ Truncated(w) <= size \div w
         /\ Truncated(w) * w \in Nat /\ Truncated(w) * w <= size
         /\ StridingElements(Truncated(w) \div Threads) = 0 .. Truncated(w) - 1
  <1> DEFINE n == size \div w
             chunk == n \div Threads
  <1>1. n \in Nat /\ n * w \in Nat /\ n * w <= size /\ size \in Nat
    BY QuotientFacts, SizeFacts
  <1>2. chunk \in Nat /\ Threads * chunk <= n /\ Threads * chunk \in Nat
    <2>1. chunk \in Nat /\ Threads \in Nat
      BY <1>1, Units, DivMod
    <2>2. Threads * chunk \in Nat
      BY <2>1, ProductType
    <2>3. Threads * chunk <= n
      BY <1>1, Units, DivMonotone
    <2>4. QED
      BY <2>1, <2>2, <2>3
  <1>3. Truncated(w) = Threads * chunk
    BY DEF Truncated
  <1>4. Truncated(w) * w \in Nat /\ Truncated(w) * w <= n * w
    BY <1>1, <1>2, <1>3
  <1>5. Truncated(w) \div Threads = chunk
    BY <1>2, <1>3, Units, Exact
  <1>6. StridingElements(chunk) = 0 .. Truncated(w) - 1
    <2>1. chunk * Threads = Threads * chunk
      BY <1>2, Units, ProductType
    <2>2. QED
      BY <1>2, <1>3, <2>1, StridingAll
  <1>7. QED
    BY <1>1, <1>2, <1>3, <1>4, <1>5, <1>6

LEMMA SmCovers ==
  ASSUME GoodSize, NEW o \in Ops, o.kind = "SM"
  PROVE  \E n \in Nat : Covers(o, Kernel(o), n)
  <1> DEFINE w == o.width
             k == Kernel(o)
  <1>1. w \in {1, 2, 4, 8} /\ k = CopyKernel(w)
    BY DEF Ops, Widths, Kernel
  <1>2. size \in Nat /\ Threshold \in Nat
    BY SizeFacts, Units
  <1>3. CASE size < Threshold
    <2> DEFINE n == GridThreads(size \div w)
    <2>1. /\ k.elements = 0 .. n - 1 /\ k.width = w /\ k.claimed = (size \div w) * w
          /\ AdjustedCopySize(o) = (size \div w) * w
      BY <1>1, <1>3 DEF CopyKernel, SimpleElements, AdjustedCopySize
    <2>2. /\ size \div w \in Nat \ {0} /\ (size \div w) * w \in Nat /\ (size \div w) * w <= size
          /\ size % MiB = 0 => (size \div w) % Block = 0
      BY <1>1, QuotientFacts
    <2>3. n \in Nat /\ n <= size \div w /\ (size % MiB = 0 => n = size \div w)
      BY <2>2, GridBound
    <2>4. n * w \in Nat /\ n * w <= (size \div w) * w
      BY <1>1, <2>2, <2>3, ProductMonotone
    <2>5. ~(size >= Threshold)
      BY <1>2, <1>3
    <2>6. Covers(o, k, n)
      BY <1>1, <2>1, <2>2, <2>3, <2>4, <2>5 DEF Covers
    <2>7. QED
      BY <2>3, <2>6
  <1>4. CASE ~(size < Threshold)
    <2> DEFINE n == Truncated(w)
    <2>1. /\ k.elements = 0 .. n - 1 /\ k.width = w /\ k.claimed = n * w
          /\ AdjustedCopySize(o) = n * w
      BY <1>1, <1>4, TruncatedFacts DEF CopyKernel, AdjustedCopySize
    <2>2. n \in Nat /\ n * w \in Nat /\ n * w <= size
      BY <1>1, TruncatedFacts
    <2>3. Covers(o, k, n)
      BY <1>1, <2>1, <2>2 DEF Covers
    <2>4. QED
      BY <2>2, <2>3
  <1>5. QED
    BY <1>3, <1>4

LEMMA SplitWarpCovers ==
  ASSUME GoodSize, NEW o \in Ops, o.kind = "SplitWarp"
  PROVE  /\ Covers(o, Kernel(o), GridThreads(size \div 4))
         /\ GridThreads(size \div 4) \in Nat /\ Kernel(o).width = 4
         /\ AdjustedCopySize(o) \div 4 = size \div 4
  <1> DEFINE k == Kernel(o)
             q == size \div 4
             n == GridThreads(q)
  <1>1. /\ k.elements = 0 .. n - 1 /\ k.width = 4 /\ k.claimed = q * 4
        /\ AdjustedCopySize(o) = q * 4
    BY DEF Kernel, SplitWarpKernel, AdjustedCopySize, Uint4
  <1>2. q \in Nat \ {0} /\ q * 4 \in Nat /\ q * 4 <= size
    BY QuotientFacts
  <1>3. n \in Nat /\ n <= q
    BY <1>2, GridBound
  <1>4. Covers(o, k, n)
    <2> HIDE DEF n, q
    <2>1. n * 4 \in Nat /\ n * 4 <= q * 4
      BY <1>2, <1>3
    <2>2. QED
      BY <1>1, <1>2, <1>3, <2>1 DEF Covers
  <1>5. (q * 4) \div 4 = q
    BY <1>2, Exact
  <1>6. QED
    BY <1>1, <1>3, <1>4, <1>5

LEMMA WholeCovers ==
  ASSUME GoodSize, NEW o \in Ops, o.kind \in {"CE", "Multicast"}
  PROVE  Covers(o, Kernel(o), size) /\ size \in Nat
  <1> DEFINE k == Kernel(o)
  <1>1. size \in Nat
    BY SizeFacts
  <1>2. k.elements = 0 .. size - 1 /\ k.width = 1 /\ k.claimed = size
    BY <1>1, MulticastAll DEF Kernel, EngineCopy, MulticastCopy
  <1>3. AdjustedCopySize(o) = size
    BY DEF AdjustedCopySize
  <1>4. QED
    BY <1>1, <1>2, <1>3 DEF Covers

\* A host read reads as many distinct words as it reports, and the words it
\* writes are inside the destination.
LEMMA HostReadFacts ==
  ASSUME GoodSize, NEW o \in Ops, o.kind = "HostRead"
  PROVE  /\ \E n \in Nat : WordsRead(Kernel(o)) = 0 .. n - 1 /\ Kernel(o).claimed = n
         /\ Sink(o) \subseteq 0 .. size - 1
  <1> DEFINE k == Kernel(o)
             r == o.width
             p == o.parallel
             threads == SinkThreads(r, p)
  <1>1. /\ r \in {2, 4, 8} /\ p \in {1, 2, 4} /\ k = HostReadKernel(r, p)
        /\ r \in ReadWidths
    BY DEF Ops, ReadWidths, Parallelism, Kernel
  <1>2. size \in Nat /\ Threshold \in Nat
    BY SizeFacts, Units
  <1>3. CASE size < Threshold
    <2> DEFINE q == size \div 4
               n == NumReads(r, p)
               t == (n + p - 1) \div p
               reads == Smaller(n, threads * p)
    <2>1. q \in Nat \ {0} /\ q * 4 <= size /\ size \div r \in Nat \ {0}
      BY <1>1, QuotientFacts
    <2>2. n \in Nat \ {0} /\ n <= q * p
      BY <1>1, <2>1 DEF NumReads, Smaller, Uint4
    <2>3. t \in Nat \ {0} /\ t <= q
      <3> HIDE DEF n, q
      <3>1. p = 1 => (n + p - 1) \div p \in Nat \ {0} /\ (n + p - 1) \div p <= q
        BY <2>1, <2>2
      <3>2. p = 2 => (n + p - 1) \div p \in Nat \ {0} /\ (n + p - 1) \div p <= q
        BY <2>1, <2>2
      <3>3. p = 4 => (n + p - 1) \div p \in Nat \ {0} /\ (n + p - 1) \div p <= q
        BY <2>1, <2>2
      <3>4. QED
        BY <1>1, <3>1, <3>2, <3>3
    <2>4. threads = GridThreads(t)
      BY <1>3 DEF SinkThreads
    <2>5. threads \in Nat /\ threads <= t
      BY <2>3, <2>4, GridBound
    <2>6. threads # 0
      <3>1. CASE t <= Block
        <4>1. GridThreads(t) = t * (t \div t) /\ t \div t = 1
          BY <2>3, <3>1, Exact DEF GridThreads, Smaller
        <4>2. QED
          BY <2>3, <2>4, <4>1
      <3>2. CASE ~(t <= Block)
        <4>1. GridThreads(t) = Block * (t \div Block)
          BY <3>2 DEF GridThreads, Smaller
        <4>2. t \div Block \in Nat /\ t \div Block >= 1
          <5>1. t \in Nat /\ Block \in Nat \ {0} /\ Block <= t
            BY <2>3, <3>2, Units
          <5>2. t \div Block \in Nat
            BY <5>1, DivMod
          <5>3. t \div Block >= 1
            BY <5>1, DivMonotone
          <5>4. QED
            BY <5>2, <5>3
        <4>3. QED
          BY <2>4, <4>1, <4>2, Units, ProductType
      <3>3. QED
        BY <3>1, <3>2
    <2>7. reads \in Nat /\ reads <= threads * p
      <3>1. threads * p \in Nat
        BY <1>1, <2>5
      <3>2. QED
        BY <2>2, <3>1 DEF Smaller
    <2>8. k.elements = 0 .. reads - 1 /\ k.width = r /\ k.claimed = reads * r
      <3>1. /\ k.elements = {i + j * threads : i \in 0 .. threads - 1, j \in 0 .. p - 1}
                              \intersect (0 .. reads - 1)
            /\ k.width = r /\ k.claimed = reads * r
        BY <1>1, <1>3 DEF HostReadKernel
      <3>2. QED
        <4>1. threads \in Nat \ {0} /\ p \in Nat
          BY <1>1, <2>5, <2>6
        <4> HIDE DEF threads, reads
        <4>2. \A e \in 0 .. reads - 1 :
                \E i \in 0 .. threads - 1, j \in 0 .. p - 1 : e = i + j * threads
          BY <2>7, <4>1, RowsOfReads
        <4>3. 0 .. reads - 1 \subseteq k.elements
          BY <3>1, <4>2
        <4>4. k.elements \subseteq 0 .. reads - 1
          BY <3>1
        <4>5. QED
          BY <3>1, <4>3, <4>4
    <2>9. WordsRead(k) = 0 .. reads * r - 1 /\ reads * r \in Nat
      <3>1. reads * r \in Nat
        BY <1>1, <2>7
      <3>2. QED
        BY <1>1, <2>7, <2>8, <3>1, WordsReadAll
    <2>10. threads * 4 <= size
      <3> HIDE DEF q, t, threads
      <3>1. threads <= q
        BY <2>1, <2>3, <2>5
      <3>2. QED
        BY <1>2, <2>1, <2>5, <3>1
    <2>11. Sink(o) \subseteq 0 .. size - 1
      BY <1>2, <2>5, <2>10 DEF Sink, Uint4
    <2>12. QED
      BY <2>8, <2>9, <2>11
  <1>4. CASE ~(size < Threshold)
    <2> DEFINE n == Truncated(r)
    <2>1. k.elements = 0 .. n - 1 /\ k.width = r /\ k.claimed = n * r
      BY <1>1, <1>4, TruncatedFacts DEF HostReadKernel
    <2>2. n \in Nat /\ n * r \in Nat
      BY <1>1, TruncatedFacts
    <2>3. WordsRead(k) = 0 .. n * r - 1
      BY <1>1, <2>1, <2>2, WordsReadAll
    <2>4. threads = Threads /\ Threads * 4 <= size
      BY <1>2, <1>4, Units DEF SinkThreads
    <2>5. Sink(o) \subseteq 0 .. size - 1
      BY <1>2, <2>4, Units DEF Sink, Uint4
    <2>6. QED
      BY <2>1, <2>2, <2>3, <2>5
  <1>5. QED
    BY <1>3, <1>4

-------------------------------------------------------------------------------
(***************************************************************************)
(* 4. What the buffers hold.                                               *)
(***************************************************************************)
Moving == Words(Kernel(op))
Extent == AdjustedCopySize(op)
HostReads == op.kind = "HostRead"

\* Between the fill and the comparison, when the words in W have moved.
Contents(W) ==
  \A i \in 0 .. Extent - 1 :
    IF op.kind = "SplitWarp"
    THEN /\ dst[i] = IF i \in Moving \ W /\ OddWarp(i) THEN "zero" ELSE "BAADF00D"
         /\ src[i] = IF i \in Moving \ W /\ ~OddWarp(i) THEN "zero" ELSE "BAADF00D"
    ELSE /\ src[i] = "BAADF00D"
         /\ dst[i] = IF i \in W THEN "BAADF00D" ELSE "CAFEBABE"

BuffersInv ==
  /\ op \in Ops
  /\ GoodSize
  /\ DOMAIN src = 0 .. size - 1
  /\ DOMAIN dst = 0 .. size - 1

SampleInv ==
  /\ stage \in {"fill", "copy", "compare", "passed", "failed"}
  /\ stage = "copy" /\ ~HostReads => Contents({})
  /\ Copied => claimed = Kernel(op).claimed
  /\ Copied /\ HostReads => moved = WordsRead(Kernel(op))
  /\ Copied /\ ~HostReads => moved \subseteq Moving /\ Contents(moved)
  /\ stage = "passed" => Match
  /\ stage = "failed" => ~Match

CopyInv == BuffersInv /\ SampleInv

\* What moves is inside what is compared, and that inside the buffers.
LEMMA MovingFacts ==
  ASSUME BuffersInv, ~HostReads
  PROVE  /\ Extent \in Nat /\ size \in Nat /\ Extent <= size
         /\ Kernel(op).claimed = Extent
         /\ Moving \subseteq 0 .. Extent - 1
         /\ op.kind # "SplitWarp" /\ (size % MiB = 0 \/ size >= Threshold) =>
              Moving = 0 .. Extent - 1
  <1>1. size \in Nat
    BY SizeFacts DEF BuffersInv
  <1>2. op.kind \in {"CE", "Multicast", "SplitWarp", "SM"}
    BY DEF BuffersInv, Ops, HostReads
  <1>3. PICK n \in Nat : Covers(op, Kernel(op), n)
    BY <1>1, <1>2, SmCovers, SplitWarpCovers, WholeCovers DEF BuffersInv
  <1>4. Moving = 0 .. n * Kernel(op).width - 1
    BY <1>3, WordsAll DEF Covers, Moving
  <1>5. QED
    BY <1>1, <1>2, <1>3, <1>4 DEF Covers, Extent

\* The cleared elements of a split-warp copy are those that move.
LEMMA ClearedFacts ==
  ASSUME BuffersInv, op.kind = "SplitWarp", NEW i \in Nat
  PROVE  i \div Uint4 \in ClearElements <=> i \in Moving
  <1> DEFINE n == GridThreads(size \div 4)
  <1>1. /\ Covers(op, Kernel(op), n) /\ n \in Nat /\ Kernel(op).width = 4
        /\ ClearElements = 0 .. n - 1
    BY SplitWarpCovers DEF BuffersInv, ClearElements, Uint4
  <1>2. Moving = 0 .. n * 4 - 1
    BY <1>1, WordsAll DEF Covers, Moving
  <1> HIDE DEF n
  <1>3. i \div 4 \in 0 .. n - 1 <=> i \in 0 .. n * 4 - 1
    BY <1>1
  <1>4. QED
    BY <1>1, <1>2, <1>3 DEF Uint4

\* A grid that is rounded up to whole blocks reaches every word.
LEMMA GridCovers ==
  ASSUME NEW n \in Nat
  PROVE  0 .. n - 1 \subseteq 0 .. Block * ((n + Block - 1) \div Block) - 1
  <1> DEFINE m == n + Block - 1
             q == m \div Block
  <1>1. m \in Nat /\ Block \in Nat \ {0}
    BY Units
  <1>2. m = Block * q + (m % Block) /\ m % Block \in 0 .. Block - 1 /\ q \in Nat
    BY <1>1, DivMod
  <1>3. Block * q \in Nat
    BY <1>1, <1>2, ProductType
  <1>4. Block * q >= n
    BY <1>1, <1>2, <1>3
  <1> HIDE DEF q
  <1>5. 0 .. n - 1 \subseteq 0 .. Block * q - 1
    BY <1>3, <1>4
  <1>6. QED
    BY <1>5 DEF q

LEMMA ComparedAll ==
  ASSUME NEW n \in Nat
  PROVE  Compared(n) = 0 .. n - 1
  <1>1. Compared(n) \subseteq 0 .. n - 1
    BY DEF Compared
  <1>2. 0 .. n - 1 \subseteq Compared(n)
    BY GridCovers DEF Compared
  <1>3. QED
    BY <1>1, <1>2

LEMMA MemsetFacts ==
  ASSUME NEW b, DOMAIN b = 0 .. size - 1, NEW n \in Nat, size \in Nat, n <= size, NEW p
  PROVE  \A i \in 0 .. n - 1 : Memset(b, n, p)[i] = p
  BY GridCovers DEF Memset

\* The verification passes if no word of what it compares holds anything else.
LEMMA Decides ==
  ASSUME BuffersInv, ~HostReads
  PROVE  Match <=> \A i \in 0 .. Extent - 1 :
                     dst[i] = "BAADF00D" /\ (op.kind = "SplitWarp" => src[i] = "BAADF00D")
  <1>1. Compared(AdjustedCopySize(op)) = 0 .. Extent - 1
    BY MovingFacts, ComparedAll DEF Extent
  <1>2. CASE op.kind = "SplitWarp"
    <2>1. Match <=> Matches(dst) /\ Matches(src)
      BY <1>2 DEF Match
    <2>2. QED
      BY <1>1, <1>2, <2>1 DEF Matches
  <1>3. CASE op.kind # "SplitWarp"
    <2>1. Match <=> Matches(dst)
      BY <1>3 DEF Match, HostReads
    <2>2. QED
      BY <1>1, <1>3, <2>1 DEF Matches
  <1>4. QED
    BY <1>2, <1>3

-------------------------------------------------------------------------------
(***************************************************************************)
(* 5. The sample.                                                          *)
(***************************************************************************)
LEMMA InitCopyInv == Init => CopyInv
  <1> SUFFICES ASSUME Init PROVE CopyInv
    OBVIOUS
  <1>1. GoodSize
    BY DEF Init, GoodSize
  <1>2. QED
    BY <1>1 DEF Init, CopyInv, BuffersInv, SampleInv, Copied

LEMMA SameCopy ==
  ASSUME UNCHANGED <<op, size>>
  PROVE  /\ GoodSize' <=> GoodSize
         /\ Extent' = Extent /\ Moving' = Moving /\ Kernel(op)' = Kernel(op)
         /\ HostReads' <=> HostReads
  BY DEF GoodSize, Extent, AdjustedCopySize, Truncated, Moving, Kernel, CopyKernel,
         SimpleElements, SplitWarpKernel, HostReadKernel, NumReads, SinkThreads, MulticastCopy,
         EngineCopy, HostReads

LEMMA SameBuffers ==
  ASSUME BuffersInv, UNCHANGED <<op, size>>, DOMAIN src' = DOMAIN src, DOMAIN dst' = DOMAIN dst
  PROVE  BuffersInv'
  BY SameCopy DEF BuffersInv

LEMMA FillStep ==
  ASSUME CopyInv, MemsetPattern
  PROVE  CopyInv'
  <1>1. BuffersInv /\ stage' = "copy" /\ UNCHANGED <<op, size>>
    BY DEF MemsetPattern, CopyInv
  <1>2. DOMAIN src' = DOMAIN src /\ DOMAIN dst' = DOMAIN dst
    BY DEF MemsetPattern, Filled, Memset, Cleared
  <1>3. ASSUME ~HostReads PROVE Contents({})'
    <2>1. /\ Extent \in Nat /\ size \in Nat /\ Extent <= size /\ Extent' = Extent /\ Moving' = Moving
          /\ DOMAIN src = 0 .. size - 1 /\ DOMAIN dst = 0 .. size - 1
      BY <1>1, <1>3, MovingFacts, SameCopy DEF BuffersInv
    <2>2. ASSUME NEW i \in 0 .. Extent - 1, NEW p
          PROVE  /\ i \in DOMAIN src /\ i \in DOMAIN dst /\ i \in Nat
                 /\ Filled(src, p)[i] = p /\ Filled(dst, p)[i] = p
      BY <2>1, MemsetFacts DEF Filled, Extent
    <2>3. CASE op.kind = "SplitWarp"
      <3>1. /\ dst' = Cleared(Filled(dst, "BAADF00D"), TRUE)
            /\ src' = Cleared(Filled(src, "BAADF00D"), FALSE)
        BY <2>3 DEF MemsetPattern
      <3>2. ASSUME NEW i \in 0 .. Extent - 1
            PROVE  /\ dst'[i] = IF i \in Moving /\ OddWarp(i) THEN "zero" ELSE "BAADF00D"
                   /\ src'[i] = IF i \in Moving /\ ~OddWarp(i) THEN "zero" ELSE "BAADF00D"
        <4>1. i \div Uint4 \in ClearElements <=> i \in Moving
          BY <1>1, <2>2, <2>3, ClearedFacts
        <4>2. i \in DOMAIN Filled(dst, "BAADF00D") /\ i \in DOMAIN Filled(src, "BAADF00D")
          BY <2>2 DEF Filled, Memset
        <4>3. /\ dst'[i] = IF i \div Uint4 \in ClearElements /\ OddWarp(i) = TRUE
                           THEN "zero" ELSE "BAADF00D"
              /\ src'[i] = IF i \div Uint4 \in ClearElements /\ OddWarp(i) = FALSE
                           THEN "zero" ELSE "BAADF00D"
          BY <2>2, <3>1, <4>2 DEF Cleared
        <4>4. OddWarp(i) \in BOOLEAN
          BY DEF OddWarp
        <4>5. QED
          BY <4>1, <4>3, <4>4
      <3>3. QED
        BY <1>1, <2>1, <2>3, <3>2 DEF Contents
    <2>4. CASE op.kind # "SplitWarp"
      <3>1. dst' = Filled(dst, "CAFEBABE") /\ src' = Filled(src, "BAADF00D")
        BY <2>4 DEF MemsetPattern
      <3>2. QED
        BY <1>1, <2>1, <2>2, <2>4, <3>1 DEF Contents
    <2>5. QED
      BY <2>3, <2>4
  <1>4. QED
    BY <1>1, <1>2, <1>3, SameBuffers, SameCopy DEF CopyInv, SampleInv, Copied

LEMMA CopyStep ==
  ASSUME CopyInv, Memcpy
  PROVE  CopyInv'
  <1>1. /\ BuffersInv /\ SampleInv /\ stage = "copy" /\ stage' = "compare"
        /\ UNCHANGED <<op, size>> /\ claimed' = Kernel(op).claimed
    BY DEF Memcpy, CopyInv
  <1>2. CASE HostReads
    <2>1. /\ moved' = WordsRead(Kernel(op)) /\ src' = src
          /\ DOMAIN dst' = DOMAIN dst \union Sink(op)
      BY <1>2 DEF Memcpy, HostReads
    <2>2. Sink(op) \subseteq DOMAIN dst
      BY <1>1, <1>2, HostReadFacts DEF BuffersInv, HostReads
    <2>3. WordsRead(Kernel(op))' = WordsRead(Kernel(op)) /\ HostReads'
      BY <1>1, <1>2, SameCopy DEF WordsRead, Words
    <2>4. QED
      BY <1>1, <2>1, <2>2, <2>3, SameBuffers, SameCopy DEF CopyInv, SampleInv, Copied
  <1>3. CASE ~HostReads
    <2>1. PICK W \in SUBSET Moving :
            LET Back == IF op.kind = "SplitWarp" THEN {i \in W : ~OddWarp(i)} ELSE {}
            IN  /\ moved' = W
                /\ dst' = Stored(dst, src, W \ Back)
                /\ src' = Stored(src, dst, Back)
      BY <1>3 DEF Memcpy, HostReads, Moving
    <2> DEFINE Back == IF op.kind = "SplitWarp" THEN {i \in W : ~OddWarp(i)} ELSE {}
    <2>2. /\ Extent \in Nat /\ size \in Nat /\ Extent <= size /\ Moving \subseteq 0 .. Extent - 1
          /\ DOMAIN src = 0 .. size - 1 /\ DOMAIN dst = 0 .. size - 1
          /\ 0 .. Extent - 1 \subseteq 0 .. size - 1
      BY <1>1, <1>3, MovingFacts DEF BuffersInv
    <2>3. /\ DOMAIN dst' = 0 .. size - 1 /\ DOMAIN src' = 0 .. size - 1
          /\ \A i \in 0 .. size - 1 :
               /\ dst'[i] = IF i \in W \ Back THEN src[i] ELSE dst[i]
               /\ src'[i] = IF i \in Back THEN dst[i] ELSE src[i]
      <3>1. W \ Back \subseteq 0 .. size - 1 /\ Back \subseteq 0 .. size - 1
        BY <2>2
      <3> HIDE DEF Back
      <3>2. dst' = Stored(dst, src, W \ Back) /\ src' = Stored(src, dst, Back)
        BY <2>1 DEF Back
      <3> DEFINE V == W \ Back
      <3> HIDE DEF V
      <3>3. /\ DOMAIN Stored(dst, src, V) = 0 .. size - 1
            /\ \A i \in 0 .. size - 1 :
                 Stored(dst, src, V)[i] = IF i \in V THEN src[i] ELSE dst[i]
        <4>1. V \subseteq 0 .. size - 1
          BY <3>1 DEF V
        <4>2. QED
          BY <2>2, <4>1 DEF Stored
      <3>4. /\ DOMAIN Stored(src, dst, Back) = 0 .. size - 1
            /\ \A i \in 0 .. size - 1 :
                 Stored(src, dst, Back)[i] = IF i \in Back THEN dst[i] ELSE src[i]
        BY <2>2, <3>1 DEF Stored
      <3>5. dst' = Stored(dst, src, V)
        BY <3>2 DEF V
      <3>6. /\ DOMAIN dst' = 0 .. size - 1 /\ DOMAIN src' = 0 .. size - 1
            /\ \A i \in 0 .. size - 1 :
                 /\ dst'[i] = IF i \in V THEN src[i] ELSE dst[i]
                 /\ src'[i] = IF i \in Back THEN dst[i] ELSE src[i]
        BY <3>2, <3>3, <3>4, <3>5
      <3>7. QED
        BY <3>6 DEF V
    <2>4. Contents({}) /\ Extent' = Extent /\ Moving' = Moving /\ ~HostReads'
          /\ Kernel(op)' = Kernel(op)
      BY <1>1, <1>3, SameCopy DEF SampleInv
    <2>5. Contents(W)'
      <3>1. CASE op.kind = "SplitWarp"
        <4>1. ASSUME NEW i \in 0 .. Extent - 1
              PROVE  /\ dst'[i] = IF i \in Moving \ W /\ OddWarp(i) THEN "zero" ELSE "BAADF00D"
                     /\ src'[i] = IF i \in Moving \ W /\ ~OddWarp(i) THEN "zero" ELSE "BAADF00D"
          <5>1. /\ dst[i] = IF i \in Moving /\ OddWarp(i) THEN "zero" ELSE "BAADF00D"
                /\ src[i] = IF i \in Moving /\ ~OddWarp(i) THEN "zero" ELSE "BAADF00D"
            BY <2>4, <3>1 DEF Contents
          <5>2. /\ dst'[i] = IF i \in W /\ OddWarp(i) THEN src[i] ELSE dst[i]
                /\ src'[i] = IF i \in W /\ ~OddWarp(i) THEN dst[i] ELSE src[i]
            BY <2>2, <2>3, <3>1
          <5>3. i \in W => i \in Moving
            OBVIOUS
          <5>4. QED
            BY <5>1, <5>2, <5>3
        <4>2. QED
          BY <1>1, <2>4, <3>1, <4>1 DEF Contents
      <3>2. CASE op.kind # "SplitWarp"
        <4>1. \A i \in 0 .. Extent - 1 :
                /\ src'[i] = "BAADF00D"
                /\ dst'[i] = IF i \in W THEN "BAADF00D" ELSE "CAFEBABE"
          BY <2>2, <2>3, <2>4, <3>2 DEF Contents
        <4>2. QED
          BY <1>1, <2>4, <3>2, <4>1 DEF Contents
      <3>3. QED
        BY <3>1, <3>2
    <2>6. BuffersInv'
      BY <1>1, <2>2, <2>3, SameBuffers
    <2>7. moved' = W /\ Contents(moved)'
      BY <2>1, <2>5
    <2>8. QED
      BY <1>1, <2>4, <2>6, <2>7 DEF CopyInv, SampleInv, Copied
  <1>4. QED
    BY <1>2, <1>3

LEMMA CopyInvStep == CopyInv /\ [Next]_vars => CopyInv'
  <1> SUFFICES ASSUME CopyInv, [Next]_vars PROVE CopyInv'
    OBVIOUS
  <1>1. ASSUME UNCHANGED <<op, size, src, dst, moved, claimed>>
        PROVE  /\ BuffersInv' /\ (HostReads' <=> HostReads) /\ (Match' <=> Match)
               /\ Kernel(op)' = Kernel(op) /\ Moving' = Moving
               /\ WordsRead(Kernel(op))' = WordsRead(Kernel(op))
               /\ (Contents({})' <=> Contents({})) /\ (Contents(moved)' <=> Contents(moved))
    <2>1. BuffersInv' /\ (HostReads' <=> HostReads) /\ Extent' = Extent
          /\ Kernel(op)' = Kernel(op) /\ Moving' = Moving
      BY <1>1, SameBuffers, SameCopy DEF CopyInv
    <2>2. Match' <=> Match
      BY <1>1, <2>1 DEF Match, Matches, Extent
    <2>3. QED
      BY <1>1, <2>1, <2>2 DEF Contents, WordsRead, Words
  <1>2. CASE MemcmpPattern
    BY <1>1, <1>2 DEF MemcmpPattern, CopyInv, SampleInv, Copied
  <1>3. CASE NextSample
    BY <1>1, <1>3 DEF NextSample, CopyInv, SampleInv, Copied
  <1>4. CASE UNCHANGED vars
    BY <1>1, <1>4 DEF vars, CopyInv, SampleInv, Copied
  <1>5. QED
    BY <1>2, <1>3, <1>4, FillStep, CopyStep DEF Next

LEMMA CopyInductive == Spec => []CopyInv
  BY InitCopyInv, CopyInvStep, PTL DEF Spec

-------------------------------------------------------------------------------
\* No launch of a copy, whatever its grid, block, stride and number of threads,
\* stores outside the buffers: neither the copies nor the sink of a host read.
THEOREM StoresInside == Spec => []StoresStayInside
  <1>1. CopyInv => StoresStayInside
    BY DEF CopyInv, BuffersInv, StoresStayInside
  <1>2. QED
    BY <1>1, CopyInductive, PTL

\* What memcpyFunc reports is what getAdjustedCopySize has filled and compared.
THEOREM ReportsWhatIsVerified == Spec => []ReportedIsVerified
  <1>1. CopyInv => ReportedIsVerified
    BY MovingFacts DEF CopyInv, SampleInv, ReportedIsVerified, HostReads, Extent
  <1>2. QED
    BY <1>1, CopyInductive, PTL

\* A sample whose comparison passes has moved every word that it reports, and a
\* split-warp copy every word that its grid covers.
THEOREM PassedIsDelivered == Spec => []PassedMeansDelivered
  <1>1. CopyInv => PassedMeansDelivered
    <2> SUFFICES ASSUME CopyInv, stage = "passed"
                 PROVE  CASE op.kind = "SplitWarp" -> moved = Words(SplitWarpKernel)
                          [] op.kind = "HostRead"  -> Cardinality(moved) = claimed
                          [] OTHER                 -> moved = 0 .. claimed - 1
      BY DEF PassedMeansDelivered
    <2>1. BuffersInv /\ SampleInv /\ Copied /\ claimed = Kernel(op).claimed
      BY DEF CopyInv, SampleInv, Copied
    <2>2. CASE HostReads
      <3>1. PICK n \in Nat : moved = 0 .. n - 1 /\ claimed = n
        BY <2>1, <2>2, HostReadFacts DEF SampleInv, BuffersInv, HostReads
      <3>2. Cardinality(0 .. n - 1) = n
        <4>1. 0 \in Int /\ n - 1 \in Int /\ 0 <= n - 1 + 1
          OBVIOUS
        <4>2. Cardinality(0 .. n - 1) = IF 0 > n - 1 THEN 0 ELSE n - 1 - 0 + 1
          BY <4>1, FS_Interval
        <4>3. QED
          BY <4>2
      <3>3. QED
        BY <2>2, <3>1, <3>2 DEF HostReads
    <2>3. CASE ~HostReads
      <3>1. /\ \A i \in 0 .. Extent - 1 :
                 dst[i] = "BAADF00D" /\ (op.kind = "SplitWarp" => src[i] = "BAADF00D")
            /\ moved \subseteq Moving /\ Contents(moved)
            /\ Moving \subseteq 0 .. Extent - 1 /\ claimed = Extent
        BY <2>1, <2>3, Decides, MovingFacts DEF SampleInv
      <3>2. CASE op.kind = "SplitWarp"
        <4>1. \A i \in 0 .. Extent - 1 : i \notin Moving \ moved
          BY <3>1, <3>2 DEF Contents
        <4>2. moved = Moving
          BY <3>1, <4>1
        <4>3. QED
          BY <3>2, <4>2 DEF Moving, Kernel
      <3>3. CASE op.kind # "SplitWarp"
        <4>1. \A i \in 0 .. Extent - 1 : i \in moved
          BY <3>1, <3>3 DEF Contents
        <4>2. moved = 0 .. claimed - 1
          BY <3>1, <4>1
        <4>3. QED
          BY <2>3, <3>3, <4>2 DEF HostReads
      <3>4. QED
        BY <3>2, <3>3
    <2>4. QED
      BY <2>2, <2>3
  <1>2. QED
    BY <1>1, CopyInductive, PTL

\* For buffers of whole MiB, or of the threshold and more, a comparison fails
\* only if a word that the kernel touches was lost: no tail is left over.
THEOREM WholeMiBPasses == Spec => []WholeMiBNeverFails
  <1>1. CopyInv => WholeMiBNeverFails
    <2> SUFFICES ASSUME CopyInv, stage = "failed", size % MiB = 0 \/ size >= Threshold,
                        moved = Moving
                 PROVE  FALSE
      BY DEF WholeMiBNeverFails, Moving
    <2>1. BuffersInv /\ SampleInv /\ Copied /\ ~Match
      BY DEF CopyInv, SampleInv, Copied
    <2>2. ~HostReads
      BY <2>1 DEF Match, HostReads
    <2>3. Contents(Moving) /\ Moving \subseteq 0 .. Extent - 1
      BY <2>1, <2>2, MovingFacts DEF SampleInv
    <2>4. CASE op.kind = "SplitWarp"
      <3>1. \A i \in 0 .. Extent - 1 : dst[i] = "BAADF00D" /\ src[i] = "BAADF00D"
        BY <2>3, <2>4 DEF Contents
      <3>2. QED
        BY <2>1, <2>2, <3>1, Decides
    <2>5. CASE op.kind # "SplitWarp"
      <3>1. Moving = 0 .. Extent - 1
        BY <2>1, <2>2, <2>5, MovingFacts
      <3>2. \A i \in 0 .. Extent - 1 : dst[i] = "BAADF00D"
        BY <2>3, <2>5, <3>1 DEF Contents
      <3>3. QED
        BY <2>1, <2>2, <2>5, <3>2, Decides
    <2>6. QED
      BY <2>4, <2>5
  <1>2. QED
    BY <1>1, CopyInductive, PTL
===============================================================================
