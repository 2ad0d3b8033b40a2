------------------------------ MODULE Testcases ------------------------------
(***************************************************************************)
(* The testcases of a single process: run() of testcases_ce.cpp and        *)
(* testcases_sm.cpp with the helpers of testcase.cpp, the buffers they     *)
(* hold, the peer access they enable, the choice of a context for every    *)
(* copy, and the pointer chains of the latency and host-read testcases.    *)
(* The testcases of a command line run one after the other in one thread   *)
(* and leave their traces to the next: peer access stays enabled, and what *)
(* an exception does not free stays allocated.                             *)
(*                                                                         *)
(* A measurement is one step here; what it consists of is MemcpyCore, and  *)
(* what the kernels copy is CopyVerify.                                    *)
(***************************************************************************)
EXTENDS Declarations, Integers, FiniteSets, Sequences

CONSTANTS
  DeviceCount,  \* GPUs 0 .. DeviceCount - 1
  Machines,     \* machines and options, see Machine
  Plans,        \* sequences of testcases to run
  Words,        \* 8-byte words of a pointer-chase buffer
  SmCount,      \* multiprocessors of a GPU
  ChainsPerSm,  \* chains of a bandwidth chase on each, hostReadParallelism
  Loops,        \* loopCount
  Accesses      \* dereferences of a latency test, on all multiprocessors

Gpus == 0 .. DeviceCount - 1
Host == -1        \* the place of host memory, and the null context
Uninitialised == -1

\* peers: the pairs cuDeviceCanAccessPeer accepts; old: GPUs below compute
\* capability 10; the two load widths in words; the stride in nodes.
Machine ==
  [peers : SUBSET (Gpus \X Gpus), old : SUBSET Gpus,
   smCopyWords : {2, 4}, ptrChaseWords : {1, 2, 4}, stride : Nat \ {0}]

ASSUME DeviceAssumption == DeviceCount \in Nat \ {0}
ASSUME ChainAssumption ==
  /\ {Words, SmCount, ChainsPerSm, Loops} \subseteq Nat \ {0} /\ Words % 4 = 0
  /\ Accesses \in Nat
ASSUME InputsAssumption == Machines \subseteq Machine /\ \A p \in Plans : p \in Seq(Keys)

VARIABLES
  machine,
  plan,     \* testcases still to run
  key,      \* the one that runs
  pc,
  outer, inner,  \* loop variables of run()
  ctx,      \* the context that the last preparation of a copy left current
  enabled,  \* <<context, peer>> with peer access
  live,     \* allocated buffers
  vectors,  \* pairs of buffers to measure
  chain,    \* the next pointer in each word of the chased buffer
  cells,    \* the matrix: what was measured for <<row, column>>
  results   \* per testcase that has ended: key, status and matrix

loops == <<key, outer, inner>>
vars == <<machine, plan, pc, loops, ctx, enabled, live, vectors, chain, cells, results>>

NoKey == "none"

-------------------------------------------------------------------------------
(***************************************************************************)
(* The testcases: their loop, what they copy, with which engine, in which  *)
(* context, and which bandwidth they report.                               *)
(***************************************************************************)
Run(loop, copies, engine, prefer, value) ==
  [loop |-> loop, copies |-> copies, engine |-> engine, prefer |-> prefer, value |-> value]

HostTestsCE ==
  [host_to_device_memcpy_ce |-> Run("row", "H2D", "CE", "src", "FIRST"),
   device_to_host_memcpy_ce |-> Run("row", "D2H", "CE", "src", "FIRST"),
   host_to_device_bidirectional_memcpy_ce |-> Run("row", "H2D_D2H", "CE", "src", "FIRST"),
   device_to_host_bidirectional_memcpy_ce |-> Run("row", "D2H_H2D", "CE", "src", "FIRST")]

PairTestsCE ==
  [device_to_device_memcpy_read_ce |-> Run("pair", "read", "CE", "dst", "FIRST"),
   device_to_device_memcpy_write_ce |-> Run("pair", "write", "CE", "src", "FIRST"),
   device_to_device_bidirectional_memcpy_read_ce |-> Run("pair", "both", "CE", "dst", "VECTOR"),
   device_to_device_bidirectional_memcpy_write_ce |-> Run("pair", "both", "CE", "src", "VECTOR")]

AllTestsCE ==
  [device_local_copy |-> Run("row", "local", "CE", "src", "FIRST"),
   all_to_host_memcpy_ce |-> Run("row", "all_D2H", "CE", "src", "FIRST"),
   all_to_host_bidirectional_memcpy_ce |-> Run("row", "all_D2H_H2D", "CE", "src", "FIRST"),
   host_to_all_memcpy_ce |-> Run("row", "all_H2D", "CE", "src", "FIRST"),
   host_to_all_bidirectional_memcpy_ce |-> Run("row", "all_H2D_D2H", "CE", "src", "FIRST"),
   all_to_one_write_ce |-> Run("to_one", "write", "CE", "src", "TOTAL"),
   all_to_one_read_ce |-> Run("to_one", "read", "CE", "dst", "TOTAL"),
   one_to_all_write_ce |-> Run("to_all", "write", "CE", "src", "TOTAL"),
   one_to_all_read_ce |-> Run("to_all", "read", "CE", "dst", "TOTAL")]

HostTestsSM ==
  [host_device_latency_sm |-> Run("row", "chase", "latency", "src", "FIRST"),
   host_device_bandwidth_sm |-> Run("row", "chase", "bandwidth", "src", "FIRST"),
   host_to_device_memcpy_sm |-> Run("row", "H2D", "SM", "src", "FIRST"),
   device_to_host_memcpy_sm |-> Run("row", "D2H", "SM", "src", "FIRST"),
   host_to_device_bidirectional_memcpy_sm |-> Run("row", "H2D", "split", "src", "FIRST"),
   device_to_host_bidirectional_memcpy_sm |-> Run("row", "H2D", "split", "src", "FIRST")]

PairTestsSM ==
  [device_to_device_memcpy_read_sm |-> Run("pair", "read", "SM", "dst", "FIRST"),
   device_to_device_latency_sm |-> Run("peer", "chase", "latency", "dst", "FIRST"),
   device_to_device_memcpy_write_sm |-> Run("pair", "write", "SM", "src", "FIRST"),
   device_to_device_bidirectional_memcpy_read_sm |-> Run("pair", "both", "SM", "dst", "VECTOR"),
   device_to_device_bidirectional_memcpy_write_sm |-> Run("pair", "both", "SM", "src", "VECTOR")]

AllTestsSM ==
  [all_to_host_memcpy_sm |-> Run("row", "all_D2H", "SM", "src", "FIRST"),
   all_to_host_bidirectional_memcpy_sm |-> Run("row", "all_D2H_split", "split", "src", "FIRST"),
   host_to_all_memcpy_sm |-> Run("row", "all_H2D", "SM", "src", "FIRST"),
   host_to_all_bidirectional_memcpy_sm |-> Run("row", "all_H2D_split", "split", "src", "FIRST"),
   all_to_one_write_sm |-> Run("to_one", "write", "SM", "src", "TOTAL"),
   all_to_one_read_sm |-> Run("to_one", "read", "SM", "src", "TOTAL"),
   one_to_all_write_sm |-> Run("to_all", "write", "SM", "src", "TOTAL"),
   one_to_all_read_sm |-> Run("to_all", "read", "SM", "src", "TOTAL")]

Tests == HostTestsCE ++ PairTestsCE ++ AllTestsCE ++ HostTestsSM ++ PairTestsSM ++ AllTestsSM

Test == Tests[key]

-------------------------------------------------------------------------------
(***************************************************************************)
(* Buffers, and the pairs of them a loop body hands to the measurement.    *)
(* Sizes are in units of --bufferSize.                                     *)
(***************************************************************************)
\* The testcase it belongs to, its place, the GPU it is near to (HostBuffer's
\* targetDeviceId), and a tag that tells equal ones apart.
Buffer(at, near, size, tag) ==
  [no |-> Len(results), at |-> at, near |-> near, size |-> size, tag |-> tag]

HostBuffer(d, size, tag) == Buffer(Host, d, size, tag)
DeviceBuffer(d, size, tag) == Buffer(d, d, size, tag)

H2D(d, size, tag) == <<HostBuffer(d, size, tag), DeviceBuffer(d, size, tag)>>
D2H(d, size, tag) == <<DeviceBuffer(d, size, tag), HostBuffer(d, size, tag)>>
Way(sourceIsHost, d, size) == IF sourceIsHost THEN H2D(d, size, 1) ELSE D2H(d, size, 1)

\* The other GPUs, in the order of the interference loops.
Other(d, k) == IF k <= d THEN k - 1 ELSE k

\* (Mutant: the other copies are no larger than the measured one.)
AllHostEqual(sourceIsHost, d) ==
  <<Way(sourceIsHost, d, 1)>>
  \o [k \in 1 .. DeviceCount - 1 |-> Way(sourceIsHost, Other(d, k), 1)]
AllHost(sourceIsHost, d) ==
  <<Way(sourceIsHost, d, 1)>>
  \o [k \in 1 .. DeviceCount - 1 |-> Way(sourceIsHost, Other(d, k), 2)]

AllHostBidir(sourceIsHost, d) ==
  <<Way(sourceIsHost, d, 1), Way(~sourceIsHost, d, 2)>>
  \o [k \in 1 .. 2 * (DeviceCount - 1) |->
        LET other == Other(d, (k + 1) \div 2)
        IN  IF k % 2 = 1 THEN D2H(other, 2, 1) ELSE H2D(other, 2, 2)]

\* The split-warp kernel copies both ways whatever the order of a pair.
AllHostSplit(sourceIsHost, d) ==
  <<Way(sourceIsHost, d, 1)>> \o [k \in 1 .. DeviceCount - 1 |-> D2H(Other(d, k), 1, 1)]

RowVectors(d) ==
  CASE Test.copies = "H2D"           -> <<H2D(d, 1, 1)>>
    [] Test.copies = "D2H"           -> <<D2H(d, 1, 1)>>
    [] Test.copies = "H2D_D2H"       -> <<H2D(d, 1, 1), D2H(d, 2, 1)>>
    [] Test.copies = "D2H_H2D"       -> <<D2H(d, 1, 1), H2D(d, 2, 1)>>
    [] Test.copies = "local"         -> <<<<DeviceBuffer(d, 1, 2), DeviceBuffer(d, 1, 1)>>>>
    [] Test.copies = "chase"         -> <<<<HostBuffer(d, 1, 1), HostBuffer(d, 1, 1)>>>>
    [] Test.copies = "all_H2D"       -> AllHost(TRUE, d)
    [] Test.copies = "all_D2H"       -> AllHost(FALSE, d)
    [] Test.copies = "all_H2D_D2H"   -> AllHostBidir(TRUE, d)
    [] Test.copies = "all_D2H_H2D"   -> AllHostBidir(FALSE, d)
    [] Test.copies = "all_H2D_split" -> AllHostSplit(TRUE, d)
    [] Test.copies = "all_D2H_split" -> AllHostSplit(FALSE, d)

PairVectors(src, peer) ==
  LET S(tag) == DeviceBuffer(src, 1, tag)
      P(tag) == DeviceBuffer(peer, 1, tag)
  IN  CASE Test.copies = "read"  -> <<<<P(1), S(1)>>>>
        [] Test.copies = "write" -> <<<<S(1), P(1)>>>>
        [] Test.copies = "both"  -> <<<<P(1), S(1)>>, <<S(2), P(2)>>>>

\* One buffer per GPU, allocated up front, and one per peer for the GPU whose
\* turn it is.
Upfront(d) == DeviceBuffer(d, 1, 0)
Mine(d, peer) == DeviceBuffer(d, 1, 1 + peer)

GathersPeers == Test.loop \in {"to_one", "to_all"}
HoldsByPointer == GathersPeers \/ Test.copies \in
  {"all_H2D", "all_D2H", "all_H2D_D2H", "all_D2H_H2D", "all_H2D_split", "all_D2H_split"}

BuffersOf(pairs) == UNION {{pairs[k][1], pairs[k][2]} : k \in DOMAIN pairs}

-------------------------------------------------------------------------------
(***************************************************************************)
(* Contexts.                                                               *)
(***************************************************************************)
\* NodeHelperSingle::dispatchMemcpy.  Host memory has no context.
\* (Mutant: asks only the preferred buffer.)
PreferredContext(src, dst) == IF Test.prefer = "src" THEN src.at ELSE dst.at
Context(src, dst) == IF Test.prefer = "src" /\ src.at # Host THEN src.at ELSE dst.at

\* A read from or to many peers has the pairs swapped by its helper.
Swapped == GathersPeers /\ Test.copies = "read"

\* doPtrChase: a reading GPU, no destination.
Chase(pair) ==
  [from |-> pair[1].at, to |-> pair[2].near, size |-> pair[1].size, ctx |-> pair[2].near]

\* What a pair of buffers becomes.
Transfer(pair) ==
  LET src == IF Swapped THEN pair[2] ELSE pair[1]
      dst == IF Swapped THEN pair[1] ELSE pair[2]
  IN  IF Test.copies = "chase" THEN Chase(pair)
      ELSE [from |-> src.at, to |-> dst.at, size |-> src.size, ctx |-> Context(src, dst)]

Transfers == [k \in DOMAIN vectors |-> Transfer(vectors[k])]

\* The matrices that run() adds to the output: for two copies their bandwidths
\* (_read1 or _write1, _read2 or _write2) and the sum (_total).
MatricesOf(k) == IF Tests[k].value = "VECTOR" THEN {"first", "second", "total"} ELSE {"only"}

\* The transfers whose bandwidth a matrix holds in a cell.
\* (Mutant: the results of the two copies change places.)
MeasuredSwapped(k, matrix, ts) ==
  CASE matrix = "first"  -> {2}
    [] matrix = "second" -> {1}
    [] matrix = "total"  -> {1, 2}
    [] matrix = "only"   -> IF Tests[k].value = "TOTAL" THEN DOMAIN ts ELSE {1}
MeasuredIn(k, matrix, ts) ==
  CASE matrix = "first"  -> {1}
    [] matrix = "second" -> {2}
    [] matrix = "total"  -> {1, 2}
    [] matrix = "only"   -> IF Tests[k].value = "TOTAL" THEN DOMAIN ts ELSE {1}

\* The exceptions of copyKernel and bandwidthPtrChaseKernel: 32-byte accesses
\* on a GPU that has none.
Refuses(t) ==
  /\ t.ctx \in machine.old
  /\ \/ Test.engine = "SM" /\ machine.smCopyWords = 4
     \/ Test.engine = "bandwidth" /\ machine.ptrChaseWords = 4

-------------------------------------------------------------------------------
(***************************************************************************)
(* Pointer chains.  A node of w words holds the word offset of the next    *)
(* node in its first word.                                                 *)
(***************************************************************************)
ChainOf(w) ==
  LET n == Words \div w
  IN  [o \in 0 .. Words - 1 |->
         IF o % w = 0 THEN (((o \div w) + machine.stride) % n) * w ELSE Uninitialised]

\* latencyHelper, on the host or on the device.
LatencyChain == ChainOf(1)
\* bandwidthPtrChaseHelper.  (Mutant: nodes of 8 bytes whatever the load.)
NarrowChain == ChainOf(1)
BandwidthChain == ChainOf(machine.ptrChaseWords)

\* The words that a chain of accesses from a node on reads.
Visited(c) ==
  LET p[k \in Nat] ==
        IF k = 0 THEN c.start
        ELSE LET last == p[k - 1]
             IN  IF last \in DOMAIN chain THEN chain[last] ELSE Uninitialised
  IN  {p[k] : k \in 0 .. c.accesses - 1}

\* latencyPtrChaseKernel: one block after the other makes its share of the
\* accesses, each from the head of the buffer.
LatencyChases == {[start |-> 0, accesses |-> Accesses \div SmCount]}

\* bandwidthPtrChaseKernelForNode: all chains at once, each from any of the
\* nodes.  (Mutant: a buffer of fewer nodes than chains is not read.)
NodeCount == Words \div machine.ptrChaseWords
ShareOfNodes == (NodeCount \div (SmCount * ChainsPerSm)) * Loops
AccessesPerChain ==
  LET share == NodeCount \div (SmCount * ChainsPerSm)
  IN  (IF share > 1 THEN share ELSE 1) * Loops

BandwidthChases ==
  {[start |-> i * machine.ptrChaseWords, accesses |-> AccessesPerChain] : i \in 0 .. NodeCount - 1}

Chases == IF Test.engine = "latency" THEN LatencyChases ELSE BandwidthChases

-------------------------------------------------------------------------------
(***************************************************************************)
(* runTestcase and run().                                                  *)
(***************************************************************************)
Blank == [o \in 0 .. Words - 1 |-> Uninitialised]

Init ==
  /\ machine \in Machines
  /\ plan \in Plans
  /\ key = NoKey
  /\ pc = "next"
  /\ outer = 0 /\ inner = 0
  /\ ctx = Host
  /\ enabled = {}
  /\ live = {}
  /\ vectors = <<>>
  /\ chain = Blank
  /\ cells = << >>
  /\ results = <<>>

Goto(label) == pc' = label

\* Peers a GPU may access, for filterHasAccessiblePeerPairs and for a row.
Accessible(d) == {p \in Gpus \ {d} : <<d, p>> \in machine.peers}
HasAccessiblePeerPairs == \E d \in Gpus : Accessible(d) # {}

\* The testcase ends with this status; the exception handler comes here too.
End(status) ==
  /\ results' = Append(results, [key |-> key, status |-> status, cells |-> cells])
  /\ key' = NoKey
  /\ vectors' = <<>>
  /\ cells' = << >>
  /\ chain' = Blank
  /\ Goto("next")

Waive ==
  /\ pc = "next" /\ plan # <<>>
  /\ Declared[Head(plan)].peers /\ ~HasAccessiblePeerPairs
  /\ plan' = Tail(plan)
  /\ results' = Append(results, [key |-> Head(plan), status |-> "Waived", cells |-> << >>])
  /\ UNCHANGED <<machine, pc, loops, ctx, enabled, live, vectors, chain, cells>>

StartTest ==
  /\ pc = "next" /\ plan # <<>>
  /\ Declared[Head(plan)].peers => HasAccessiblePeerPairs
  /\ plan' = Tail(plan)
  /\ key' = Head(plan)
  /\ outer' = 0 /\ inner' = 0
  /\ live' = live \union IF Tests[Head(plan)].loop \in {"to_one", "to_all"}
                         THEN {Upfront(d) : d \in Gpus} ELSE {}
  /\ Goto("outer")
  /\ UNCHANGED <<machine, ctx, enabled, vectors, chain, cells, results>>

\* The body of a loop over the GPUs: allocate, initialise a chain.
PrepareRow ==
  /\ pc = "outer" /\ outer < DeviceCount
  /\ Test.loop = "row"
  /\ vectors' = RowVectors(outer)
  /\ live' = live \union BuffersOf(vectors')
  /\ ctx' = vectors'[Len(vectors')][2].near
  /\ chain' = CASE Test.engine = "latency"   -> LatencyChain
                [] Test.engine = "bandwidth" -> BandwidthChain
                [] OTHER                     -> chain
  /\ Goto("measure")
  /\ UNCHANGED <<machine, plan, loops, enabled, cells, results>>

\* The other testcases have a loop over the peers in it; the latency of peers
\* has the peer outside, with the buffer to chase.
Peer == IF Test.loop = "peer" THEN outer ELSE inner
Self == IF Test.loop = "peer" THEN inner ELSE outer
ChasedBuffer == DeviceBuffer(outer, 1, 1)

OpenLoop ==
  /\ pc = "outer" /\ outer < DeviceCount
  /\ Test.loop # "row"
  /\ inner' = 0
  /\ vectors' = <<>>
  /\ IF Test.loop = "peer"
     THEN live' = live \union {ChasedBuffer} /\ chain' = LatencyChain
     ELSE UNCHANGED <<live, chain>>
  /\ Goto("inner")
  /\ UNCHANGED <<machine, plan, key, outer, ctx, enabled, cells, results>>

\* The GPU itself and peers it cannot access: what was allocated is freed.
SkipPeer ==
  /\ pc = "inner" /\ inner < DeviceCount
  /\ inner = outer \/ <<Self, Peer>> \notin machine.peers
  /\ inner' = inner + 1
  /\ UNCHANGED <<machine, plan, pc, key, outer, ctx, enabled, live, vectors, chain, cells,
                 results>>

\* enablePeerAcess: the peer's context first.  One direction is asked for and
\* both are enabled, so a peer without access in return ends the process.
\* (Mutant: enables what it asked for.)
EnabledOneWay == {<<Self, Peer>>}
EnabledPairs == {<<Peer, Self>>, <<Self, Peer>>}

WithPeer ==
  CASE Test.loop = "pair"   -> PairVectors(Self, Peer)
    [] Test.loop = "peer"   -> <<<<ChasedBuffer, DeviceBuffer(Self, 1, 2)>>>>
    [] Test.loop = "to_one" -> Append(vectors, <<Upfront(Peer), Mine(Self, Peer)>>)
    [] Test.loop = "to_all" -> Append(vectors, <<Mine(Self, Peer), Upfront(Peer)>>)

\* The context left current.  (Mutant: the peer's, enabled last.)
LeftCurrentPeer == Peer
LeftCurrent == Self

PreparePeer ==
  /\ pc = "inner" /\ inner < DeviceCount
  /\ inner # outer
  /\ {<<Self, Peer>>, <<Peer, Self>>} \subseteq machine.peers
  /\ enabled' = enabled \union EnabledPairs
  /\ ctx' = LeftCurrent
  /\ vectors' = WithPeer
  /\ live' = live \union BuffersOf(vectors')
  /\ IF GathersPeers
     THEN inner' = inner + 1 /\ UNCHANGED pc
     ELSE Goto("measure") /\ UNCHANGED inner
  /\ UNCHANGED <<machine, plan, key, outer, chain, cells, results>>

EnableFails ==
  /\ pc = "inner" /\ inner < DeviceCount
  /\ inner # outer
  /\ <<Self, Peer>> \in machine.peers /\ <<Peer, Self>> \notin machine.peers
  /\ Goto("exited")
  /\ UNCHANGED <<machine, plan, loops, ctx, enabled, live, vectors, chain, cells, results>>

CloseLoop ==
  /\ pc = "inner" /\ inner = DeviceCount
  /\ IF vectors # <<>> /\ GathersPeers
     THEN Goto("measure") /\ UNCHANGED <<outer, live>>
     ELSE /\ outer' = outer + 1
          /\ live' = IF Test.loop = "peer" THEN live \ {ChasedBuffer} ELSE live
          /\ Goto("outer")
  /\ UNCHANGED <<machine, plan, key, inner, ctx, enabled, vectors, chain, cells, results>>

Cell == IF Test.loop \in {"pair", "peer"} THEN <<Self, Peer>> ELSE <<0, outer>>

Measure ==
  /\ pc = "measure"
  /\ \A k \in DOMAIN vectors : ~Refuses(Transfers[k])
  /\ cells' = [rc \in DOMAIN cells \union {Cell} |->
                 IF rc = Cell THEN Transfers ELSE cells[rc]]
  /\ Goto("release")
  /\ UNCHANGED <<machine, plan, loops, ctx, enabled, live, vectors, chain, results>>

\* The end of a loop body.  The helpers that gather peers delete their vector
\* of buffers for this GPU and keep the buffers allocated up front.
\* (Mutants: they delete both vectors; only the sources are deleted.)
DeletedBoth == BuffersOf(vectors)
DeletedSources == {vectors[k][1] : k \in DOMAIN vectors}
Deleted ==
  CASE Test.loop = "to_one" -> {vectors[k][2] : k \in DOMAIN vectors}
    [] Test.loop = "to_all" -> {vectors[k][1] : k \in DOMAIN vectors}
    [] Test.loop = "peer"   -> {vectors[1][2]}
    [] OTHER                -> BuffersOf(vectors)

Release ==
  /\ pc = "release"
  /\ live' = live \ Deleted
  /\ vectors' = <<>>
  /\ IF Test.loop \in {"pair", "peer"}
     THEN inner' = inner + 1 /\ Goto("inner") /\ UNCHANGED outer
     ELSE outer' = outer + 1 /\ Goto("outer") /\ UNCHANGED inner
  /\ UNCHANGED <<machine, plan, key, ctx, enabled, chain, cells, results>>

\* addTestcaseResults, and the end of run().
FinishTest ==
  /\ pc = "outer" /\ outer = DeviceCount
  /\ live' = live \ {Upfront(d) : d \in Gpus}
  /\ End("Passed")
  /\ UNCHANGED <<machine, plan, outer, inner, ctx, enabled>>

\* An exception: the destructors of the stack's buffers run, the vectors of
\* plain pointers go without their buffers.
Throw ==
  /\ pc = "measure"
  /\ \E k \in DOMAIN vectors : Refuses(Transfers[k])
  /\ live' = IF HoldsByPointer THEN live ELSE live \ BuffersOf(vectors)
  /\ End("Error")
  /\ UNCHANGED <<machine, plan, outer, inner, ctx, enabled>>

\* A failed assertion (a CUDA call, the comparison after a copy).
AssertionFails ==
  /\ pc = "measure"
  /\ Goto("exited")
  /\ UNCHANGED <<machine, plan, loops, ctx, enabled, live, vectors, chain, cells, results>>

Done ==
  /\ pc = "next" /\ plan = <<>>
  /\ Goto("done")
  /\ UNCHANGED <<machine, plan, loops, ctx, enabled, live, vectors, chain, cells, results>>

Step ==
  \/ Waive
  \/ StartTest
  \/ PrepareRow
  \/ OpenLoop
  \/ SkipPeer
  \/ PreparePeer
  \/ EnableFails
  \/ CloseLoop
  \/ Measure
  \/ Release
  \/ FinishTest
  \/ Throw
  \/ AssertionFails
  \/ Done

Ended == pc \in {"exited", "done"} /\ UNCHANGED vars

Next == Step \/ Ended

\* One thread; what is said of it is safety.
Spec == Init /\ [][Next]_vars

-------------------------------------------------------------------------------
(***************************************************************************)
(* Properties.                                                             *)
(***************************************************************************)
\* The cells a testcase is to fill.
CellsOf(k) ==
  CASE Tests[k].loop \in {"pair", "peer"} -> {rc \in machine.peers : rc[1] # rc[2]}
    [] Tests[k].loop = "row"              -> {0} \X Gpus
    [] OTHER                              -> {0} \X {d \in Gpus : Accessible(d) # {}}

\* Traffic from one place to another; a split-warp copy goes both ways.
Flow(t) == <<t.from, t.to>>
Reverse(flow) == <<flow[2], flow[1]>>
Flows(k, ts) ==
  LET forth == {Flow(ts[i]) : i \in DOMAIN ts}
  IN  IF Tests[k].engine = "split" THEN forth \union {Reverse(f) : f \in forth} ELSE forth

\* The traffic that the number in a cell of a matrix may stand for.  A
\* split-warp kernel makes half of its copy in each direction, and half of what
\* both make together is the estimate for either.
Readings(k, matrix, ts) ==
  IF Tests[k].engine = "split"
  THEN {{Flow(ts[1])}, {Reverse(Flow(ts[1]))}}
  ELSE {{Flow(ts[i]) : i \in MeasuredIn(k, matrix, ts)}}

\* The traffic that the declaration names, for row r and column c.
Declares(word, r, c) ==
  CASE word = "none"            -> {}
    [] word = "to_device"       -> {<<Host, c>>}
    [] word = "to_host"         -> {<<c, Host>>}
    [] word = "from_peer"       -> {<<c, r>>}
    [] word = "to_peer"         -> {<<r, c>>}
    [] word = "both_ways"       -> {<<r, c>>, <<c, r>>}
    [] word = "local"           -> {<<c, c>>}
    [] word = "inbound"         -> Accessible(c) \X {c}
    [] word = "outbound"        -> {c} \X Accessible(c)
    [] word = "others_to_host"  -> (Gpus \ {c}) \X {Host}
    [] word = "host_to_others"  -> {Host} \X (Gpus \ {c})
    [] word = "all_both_ways"   -> (Gpus \X {Host}) \union ({Host} \X Gpus)

\* The matrix that holds what the description calls the measurement.  run() of
\* a pair copies from the peer to the row first, which is the described copy of
\* the read, and the one opposite to it of the write.
Described(k) ==
  IF Tests[k].value # "VECTOR" THEN "only"
  ELSE IF Declared[k].load = "none" THEN "total"
  ELSE IF Declared[k].launches = "reader" THEN "first" ELSE "second"

\* What a matrix holds: the description says it of one, and the names of the
\* others are those of a copy to the row, of one from it, and of both together.
Promised(k, matrix) ==
  IF matrix = Described(k) THEN Declared[k].reports
  ELSE CASE matrix = "first"  -> "from_peer"
         [] matrix = "second" -> "to_peer"
         [] matrix = "total"  -> "both_ways"

\* Where run() departs from the descriptions and the comments beside it (README,
\* disagreements).  The SM reads of many peers take the context of their
\* source; and these testcases have a load no larger than the measured copy.
SourceContextReads == {"all_to_one_read_sm", "one_to_all_read_sm"}
EqualInterference ==
  {"device_to_device_bidirectional_memcpy_read_ce",
   "device_to_device_bidirectional_memcpy_write_ce",
   "all_to_host_bidirectional_memcpy_sm", "host_to_all_bidirectional_memcpy_sm"}

LaunchesFrom(k) == IF k \in SourceContextReads THEN "writer" ELSE Declared[k].launches
LaunchedAsSaid(k, t) ==
  CASE LaunchesFrom(k) = "reader" -> t.ctx = t.to
    [] LaunchesFrom(k) = "writer" -> t.ctx = t.from
    [] LaunchesFrom(k) = "any"    -> TRUE

\* A load outlasts the measured copy; copies measured together are equal.
SizedAsSaid(k, t, measured) ==
  IF Declared[k].load = "none" \/ k \in EqualInterference
  THEN t.size = measured.size
  ELSE t.size > measured.size

KeepsPromise(k, r, c, ts) ==
  /\ \A m \in MatricesOf(k) : Declares(Promised(k, m), r, c) \in Readings(k, m, ts)
  /\ Flows(k, ts) = Declares(Declared[k].reports, r, c) \union Declares(Declared[k].load, r, c)
  /\ \A i \in DOMAIN ts :
       /\ LaunchedAsSaid(k, ts[i])
       /\ i # 1 => SizedAsSaid(k, ts[i], ts[1])

\* A testcase that passed has measured every pair that testcase.h promises
\* and no other.  In each cell, every matrix by its name holds the bandwidth of
\* the traffic that the description or that name says; what ran is that traffic
\* and the load of the description, nothing less and nothing else; the load is
\* larger than the measured copy, except in EqualInterference, where it is as
\* large; and copies are launched on the side that the description names,
\* except in SourceContextReads, where the source launches them.
MatrixKeepsItsPromise ==
  \A n \in DOMAIN results :
    LET e == results[n]
    IN  e.status = "Passed" =>
          /\ DOMAIN e.cells = CellsOf(e.key)
          /\ \A rc \in DOMAIN e.cells : KeepsPromise(e.key, rc[1], rc[2], e.cells[rc])

\* A copy has the buffers it copies, and runs in the context of a GPU from
\* which it reaches both of them.  The events of a latency measurement are
\* created before its context is made current: it must be already.
CopiesReachTheirMemory ==
  pc = "measure" =>
    /\ vectors # <<>>
    /\ BuffersOf(vectors) \subseteq live
    /\ \A k \in DOMAIN vectors :
         LET t == Transfers[k]
         IN  /\ t.ctx \in Gpus
             /\ \A g \in {t.from, t.to} \ {Host, t.ctx} : <<t.ctx, g>> \in enabled
             /\ Test.engine = "latency" => ctx = t.ctx

\* Between testcases the only buffers left are those of testcases that threw:
\* a testcase that passes frees what it allocated, whatever peers it skipped.
OnlyThrowsLeak ==
  pc = "next" => \A b \in live : results[b.no + 1].status = "Error"

Divides(d, n) == n % d = 0
GreatestCommon(m, n) ==
  CHOOSE d \in 1 .. n :
    /\ Divides(d, m) /\ Divides(d, n)
    /\ \A e \in d + 1 .. n : ~(Divides(e, m) /\ Divides(e, n))

\* A chase never leaves the heads of the nodes that the host has written,
\* wherever it starts, and reads something; in a latency test it visits as many
\* nodes as the stride allows, if its share of the accesses is enough.
ChaseFollowsTheChain ==
  (pc = "measure" /\ Test.copies = "chase") =>
    LET width == IF Test.engine = "latency" THEN 1 ELSE machine.ptrChaseWords
        nodes == Words \div width
        round == nodes \div GreatestCommon(machine.stride, nodes)
    IN  \A c \in Chases :
          /\ Visited(c) \subseteq {i * width : i \in 0 .. nodes - 1}
          /\ Accesses >= SmCount => Visited(c) # {}
          /\ Cardinality(Visited(c)) = (IF c.accesses < round THEN c.accesses ELSE round)
===============================================================================
