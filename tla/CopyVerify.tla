------------------------------ MODULE CopyVerify ------------------------------
(***************************************************************************)
(* What one copy moves, what it reports and what its verification sees:    *)
(* the MemcpyInitiator classes of memcpy.cpp with the kernels they launch. *)
(*                                                                         *)
(* A sample fills both buffers (memsetPattern), copies (memcpyFunc) and    *)
(* compares (memcmpPattern).  The extent that is filled and compared comes *)
(* from getAdjustedCopySize, the bytes the bandwidth is computed from are  *)
(* what memcpyFunc returns, and the words that move are those the kernel   *)
(* touches with the grid it is given: three computations of one size.      *)
(*                                                                         *)
(* The unit is the 32-bit word of the pattern.  Both patterns depend on    *)
(* the index alone, so the contents of a word are named by the pattern it  *)
(* comes from.  A copy may lose a word on the way, which is what the       *)
(* verification is there for.                                              *)
(***************************************************************************)
EXTENDS Integers, FiniteSets

CONSTANTS
  KiB,        \* words in a KiB: every buffer is a multiple of it
  MiB,        \* words in a MiB
  MaxKiB,     \* bound: the largest buffer explored
  Threshold,  \* smallBufferThreshold, in words
  Block,      \* most threads of a block in the small kernels, 1024
  Threads,    \* totalThreadCount of the large kernels: numSm * numThreadPerBlock
  Pipe,       \* loads in flight of one thread of stridingMemcpyKernel, 12
  Warp,       \* warpSize
  Samples     \* averageLoopCount

Uint4 == 4                        \* words in a uint4
Widths == {1, 2, 4, 8}            \* smCopyBytes
ReadWidths == {2, 4, 8}           \* hostReadBytes (bound: of 2 .. 64)
Parallelism == {1, 2, 4}          \* hostReadParallelism (bound: of 1 .. 32)

\* The initiators with their options.
Ops ==
  [kind : {"CE", "Multicast", "SplitWarp"}, width : {1}, parallel : {1}]
    \union [kind : {"SM"}, width : Widths, parallel : {1}]
    \union [kind : {"HostRead"}, width : ReadWidths, parallel : Parallelism]

ASSUME UnitAssumption ==
  /\ {KiB, MiB, MaxKiB, Threshold, Block, Threads, Pipe, Warp, Samples} \subseteq Nat \ {0}
  /\ KiB % 8 = 0               \* a KiB is a whole number of every element
  /\ MiB % (8 * Block) = 0     \* and a MiB of full blocks of them
  /\ Threshold % MiB = 0
  /\ 8 * Threads <= Threshold  \* one element for each thread of a large kernel

VARIABLES
  op,       \* the initiator and its options
  size,     \* getBufferSize of both buffers
  src, dst, \* contents of the buffers
  moved,    \* words of the source that reached their destination
  claimed,  \* what memcpyFunc returned
  stage,    \* where the sample is
  sample    \* the sample that is taken

vars == <<op, size, src, dst, moved, claimed, stage, sample>>

Smaller(a, b) == IF a <= b THEN a ELSE b

-------------------------------------------------------------------------------
(***************************************************************************)
(* Sizes, and the elements the kernels touch.                              *)
(***************************************************************************)
\* size rounded down to elements of w words, each thread the same number.
Truncated(w) == Threads * ((size \div w) \div Threads)

\* (Mutant: the threshold itself counts as small.)
AdjustedAtThreshold(o) ==
  CASE o.kind \in {"SM", "HostRead"} ->
         IF size <= Threshold THEN (size \div o.width) * o.width
                              ELSE Truncated(o.width) * o.width
    [] OTHER -> size

\* getAdjustedCopySize: how much of the buffers is filled and compared.
\* (A host read inherits the rounding to smCopyBytes, here its default.)
AdjustedCopySize(o) ==
  CASE o.kind = "SM" ->
         IF size < Threshold THEN (size \div o.width) * o.width
                             ELSE Truncated(o.width) * o.width
    [] o.kind = "HostRead"  -> IF size < Threshold THEN size ELSE Truncated(Uint4) * Uint4
    [] o.kind = "SplitWarp" -> (size \div Uint4) * Uint4
    [] OTHER                -> size

\* The threads of a grid of whole blocks for n elements.
\* (Mutant: the last block is filled up.)
RoundedUp(n) ==
  LET block == Smaller(n, Block) IN block * ((n + block - 1) \div block)

GridThreads(n) == LET block == Smaller(n, Block) IN block * (n \div block)

\* stridingMemcpyKernel: each thread takes chunk elements, Threads apart, Pipe
\* at a time and the rest one by one.  (Mutant: without the rest.)
WholePipes(chunk) == 0 .. (chunk \div Pipe) * Pipe - 1

Rounds(chunk) ==
  WholePipes(chunk) \union ((chunk \div Pipe) * Pipe .. chunk - 1)

StridingElements(chunk) == {t + r * Threads : t \in 0 .. Threads - 1, r \in Rounds(chunk)}

\* simpleCopyKernel: each thread takes the element of its index.
SimpleElements(n) == 0 .. GridThreads(n) - 1

\* launchCopyKernel
CopyKernel(w) ==
  IF size < Threshold
  THEN [elements |-> SimpleElements(size \div w), width |-> w,
        claimed  |-> (size \div w) * w]
  ELSE [elements |-> StridingElements(Truncated(w) \div Threads), width |-> w,
        claimed  |-> Truncated(w) * w]

SplitWarpKernel ==
  [elements |-> 0 .. GridThreads(size \div Uint4) - 1, width |-> Uint4,
   claimed  |-> (size \div Uint4) * Uint4]

\* The threads of simpleHostReadKernel before they are rounded to blocks: each
\* makes up to p reads and writes one uint4 of the destination.
\* (Mutant: as many as the reads need, however small the destination.)
UnboundedReads(r, p) == size \div r

NumReads(r, p) == Smaller(size \div r, (size \div Uint4) * p)

SinkThreads(r, p) ==
  IF size < Threshold THEN GridThreads((NumReads(r, p) + p - 1) \div p) ELSE Threads

\* launchHostReadKernel
HostReadKernel(r, p) ==
  IF size < Threshold
  THEN LET threads == SinkThreads(r, p)
           reads   == Smaller(NumReads(r, p), threads * p)
       IN  [elements |-> {t + j * threads : t \in 0 .. threads - 1, j \in 0 .. p - 1}
                           \intersect (0 .. reads - 1),
            width    |-> r,
            claimed  |-> reads * r]
  ELSE [elements |-> StridingElements(Truncated(r) \div Threads), width |-> r,
        claimed  |-> Truncated(r) * r]

\* The copy engine takes every word.
EngineCopy == [elements |-> 0 .. size - 1, width |-> 1, claimed |-> size]

\* multicastCopyKernel: each thread from its index on, in steps of the grid, as
\* long as it is below the end.
MulticastElements(n) == {t + r * Threads : t \in 0 .. Threads - 1, r \in 0 .. n \div Threads}
                          \intersect (0 .. n - 1)

MulticastCopy == [elements |-> MulticastElements(size), width |-> 1, claimed |-> size]

Kernel(o) ==
  CASE o.kind = "SM"        -> CopyKernel(o.width)
    [] o.kind = "SplitWarp" -> SplitWarpKernel
    [] o.kind = "HostRead"  -> HostReadKernel(o.width, o.parallel)
    [] o.kind = "Multicast" -> MulticastCopy
    [] OTHER                -> EngineCopy

\* smCopyLoad and smCopyStore: an element is loaded and stored as a whole.
Words(k) == {e * k.width + i : e \in k.elements, i \in 0 .. k.width - 1}

\* accumulateHostRead: one load of two words, or loads of a uint4 each.
WordsRead(k) ==
  IF k.width = 2 THEN Words(k)
  ELSE {e * k.width + l * Uint4 + i :
          e \in k.elements, l \in 0 .. (k.width \div Uint4) - 1, i \in 0 .. Uint4 - 1}

\* The direction of a word in a split-warp copy.
OddWarp(i) == ((i \div Uint4) \div Warp) % 2 = 1

-------------------------------------------------------------------------------
(***************************************************************************)
(* The sample.                                                             *)
(***************************************************************************)
Init ==
  /\ op \in Ops
  /\ size \in {KiB * n : n \in 1 .. MaxKiB}
  /\ src = [i \in 0 .. size - 1 |-> "random"]
  /\ dst = [i \in 0 .. size - 1 |-> "random"]
  /\ moved = {}
  /\ claimed = 0
  /\ stage = "fill"
  /\ sample = 1

\* The first n words of buffer b become pattern p: the grid is rounded up, and a
\* thread past the end does nothing.
Memset(b, n, p) ==
  LET threads == 0 .. Block * ((n + Block - 1) \div Block) - 1
  IN  [i \in DOMAIN b |-> IF i \in threads /\ i < n THEN p ELSE b[i]]

Filled(b, p) == Memset(b, AdjustedCopySize(op), p)

\* memclearKernelByWarpParity rounds its grid down, as the split-warp copy does.
ClearElements == 0 .. GridThreads(AdjustedCopySize(op) \div Uint4) - 1

Cleared(b, odd) ==
  [i \in DOMAIN b |->
     IF i \div Uint4 \in ClearElements /\ OddWarp(i) = odd THEN "zero" ELSE b[i]]

\* (Mutant: the destination keeps what the last sample copied.)
MemsetSourceOnly ==
  /\ stage = "fill"
  /\ stage' = "copy"
  /\ src' = Filled(src, "BAADF00D")
  /\ UNCHANGED <<op, size, dst, moved, claimed, sample>>

MemsetPattern ==
  /\ stage = "fill"
  /\ stage' = "copy"
  /\ IF op.kind = "SplitWarp"
     THEN /\ dst' = Cleared(Filled(dst, "BAADF00D"), TRUE)
          /\ src' = Cleared(Filled(src, "BAADF00D"), FALSE)
     ELSE /\ dst' = Filled(dst, "CAFEBABE")
          /\ src' = Filled(src, "BAADF00D")
  /\ UNCHANGED <<op, size, moved, claimed, sample>>

\* Buffer b after the words in W were stored from buffer a.
Stored(b, a, W) ==
  [i \in DOMAIN b \union W |->
     IF i \notin W THEN b[i] ELSE IF i \in DOMAIN a THEN a[i] ELSE "outside"]

\* The loss of a word: none, the first or the last (bound: of all).
Losses(W) ==
  {{}} \union {{i} : i \in {j \in W : (\A k \in W : j <= k) \/ (\A k \in W : k <= j)}}

Sink(o) == 0 .. SinkThreads(o.width, o.parallel) * Uint4 - 1

Memcpy ==
  /\ stage = "copy"
  /\ stage' = "compare"
  /\ claimed' = Kernel(op).claimed
  /\ IF op.kind = "HostRead"
     THEN /\ moved' = WordsRead(Kernel(op))
          /\ dst' = [i \in DOMAIN dst \union Sink(op) |->
                       IF i \in Sink(op) THEN "sink" ELSE dst[i]]
          /\ UNCHANGED src
     ELSE \E lost \in Losses(Words(Kernel(op))) :
            LET W == Words(Kernel(op)) \ lost
                Back == IF op.kind = "SplitWarp" THEN {i \in W : ~OddWarp(i)} ELSE {}
            IN  /\ moved' = W
                /\ dst' = Stored(dst, src, W \ Back)
                /\ src' = Stored(src, dst, Back)
  /\ UNCHANGED <<op, size, sample>>

\* memcmpKernel and multicastMemcmpKernel: a grid rounded up, as for memset.
Compared(n) == {i \in 0 .. Block * ((n + Block - 1) \div Block) - 1 : i < n}

Matches(b) == \A i \in Compared(AdjustedCopySize(op)) : b[i] = "BAADF00D"

Match ==
  CASE op.kind = "HostRead"  -> TRUE
    [] op.kind = "SplitWarp" -> Matches(dst) /\ Matches(src)
    [] OTHER                 -> Matches(dst)

\* ASSERT ends the process when the comparison fails.
MemcmpPattern ==
  /\ stage = "compare"
  /\ stage' = IF Match THEN "passed" ELSE "failed"
  /\ UNCHANGED <<op, size, src, dst, moved, claimed, sample>>

NextSample ==
  /\ stage = "passed"
  /\ sample < Samples
  /\ stage' = "fill"
  /\ sample' = sample + 1
  /\ UNCHANGED <<op, size, src, dst, moved, claimed>>

Next == MemsetPattern \/ Memcpy \/ MemcmpPattern \/ NextSample

Spec == Init /\ [][Next]_vars

-------------------------------------------------------------------------------
(***************************************************************************)
(* Properties.                                                             *)
(***************************************************************************)
Copied == stage \in {"compare", "passed", "failed"}

\* No kernel stores outside the buffers: a host read writes one uint4 for each
\* thread into a destination that is as large as the source, however many
\* threads its reads ask for, and no copy runs over the end.
StoresStayInside == DOMAIN src = 0 .. size - 1 /\ DOMAIN dst = 0 .. size - 1

\* getAdjustedCopySize says "the exact copy sizes that will be used by the copy
\* kernels": the two files round alike on both sides of the threshold, so what
\* the bandwidth counts is what is filled and compared.
ReportedIsVerified ==
  Copied /\ op.kind # "HostRead" => claimed = AdjustedCopySize(op)

\* In every sample, a copy that loses a word fails the verification, and a
\* copy that passes has moved all it reports.  The split-warp copy is weaker:
\* only what its grid covers is known to have moved.  A host read is not
\* compared, and reports as many words as the distinct ones it reads.
PassedMeansDelivered ==
  stage = "passed" =>
    CASE op.kind = "SplitWarp" -> moved = Words(SplitWarpKernel)
      [] op.kind = "HostRead"  -> Cardinality(moved) = claimed
      [] OTHER                 -> moved = 0 .. claimed - 1

\* Buffers of whole MiB, or of the threshold and more, fail only when a word
\* is lost: for them the grid, the truncation and the pipelined loop agree.
WholeMiBNeverFails ==
  stage = "failed" /\ (size % MiB = 0 \/ size >= Threshold) =>
    moved # Words(Kernel(op))

\* What kernels.cu says of small copies: the size is rounded down to the width
\* of an element, and no further: but for a lost word, all that is reported
\* moves.
CopiesTheElements ==
  Copied /\ op.kind = "SM" => Cardinality(Words(Kernel(op))) = claimed
===============================================================================
