-------------------------- MODULE MultinodeTestcases --------------------------
(***************************************************************************)
(* The multinode testcases: what testcase.h says of them, and what run()   *)
(* of multinode_testcases.cpp makes of them, a sequence of rounds.  A      *)
(* round constructs buffers, runs one memcpy operation on them and         *)
(* destroys them.  Rank r drives one GPU, which is called r here as well.  *)
(*                                                                         *)
(* A plan is a command line on a given system:                             *)
(*   size    worldSize                                                     *)
(*   keys    the testcases it runs                                         *)
(*   pairs   what generateTestPairs returns (TestPairs)                    *)
(*   narrow  ranks whose GPU lacks the width of --smCopyBytes              *)
(***************************************************************************)
EXTENDS Integers, Sequences, FiniteSets

\* The words are those of Declarations.
Promise(reports, load, launches) ==
  [reports |-> reports, load |-> load, launches |-> launches]

PairPromises ==
  [multinode_device_to_device_memcpy_read_ce |-> Promise("from_peer", "none", "reader"),
   multinode_device_to_device_memcpy_write_ce |-> Promise("to_peer", "none", "writer"),
   multinode_device_to_device_bidirectional_memcpy_read_ce |->
     Promise("from_peer", "to_peer", "reader"),
   multinode_device_to_device_bidirectional_memcpy_write_ce |->
     Promise("to_peer", "from_peer", "writer"),
   multinode_device_to_device_memcpy_read_sm |-> Promise("from_peer", "none", "reader"),
   multinode_device_to_device_memcpy_write_sm |-> Promise("to_peer", "none", "writer"),
   multinode_device_to_device_bidirectional_memcpy_read_sm |->
     Promise("both_ways", "none", "reader"),
   multinode_device_to_device_bidirectional_memcpy_write_sm |->
     Promise("both_ways", "none", "writer")]

CollectivePromises ==
  [multinode_device_to_device_all_to_one_write_sm |-> Promise("inbound", "none", "writer"),
   multinode_device_to_device_all_from_one_read_sm |-> Promise("outbound", "none", "reader"),
   multinode_device_to_device_broadcast_one_to_all_sm |-> Promise("to_all", "none", "writer"),
   multinode_device_to_device_broadcast_all_to_all_sm |-> Promise("all_to_all", "none", "writer"),
   multinode_bisect_write_ce |-> Promise("bisection", "none", "writer")]

Promises ==
  [key \in DOMAIN PairPromises \union DOMAIN CollectivePromises |->
     IF key \in DOMAIN PairPromises THEN PairPromises[key] ELSE CollectivePromises[key]]

-------------------------------------------------------------------------------
(***************************************************************************)
(* run(): the shape of a round, the engine, the preferred context and the  *)
(* bandwidth that the operation returns.                                   *)
(***************************************************************************)
Run(shape, engine, prefer, value) ==
  [shape |-> shape, engine |-> engine, prefer |-> prefer, value |-> value]

PairRuns ==
  [multinode_device_to_device_memcpy_read_ce |-> Run("read", "CE", "dst", "FIRST"),
   multinode_device_to_device_memcpy_write_ce |-> Run("write", "CE", "src", "FIRST"),
   multinode_device_to_device_bidirectional_memcpy_read_ce |->
     Run("both_read", "CE", "dst", "VECTOR"),
   multinode_device_to_device_bidirectional_memcpy_write_ce |->
     Run("both_write", "CE", "src", "VECTOR"),
   multinode_device_to_device_memcpy_read_sm |-> Run("read", "SM", "dst", "FIRST"),
   multinode_device_to_device_memcpy_write_sm |-> Run("write", "SM", "src", "FIRST"),
   multinode_device_to_device_bidirectional_memcpy_read_sm |->
     Run("both_read", "SM", "dst", "VECTOR"),
   multinode_device_to_device_bidirectional_memcpy_write_sm |->
     Run("both_write", "SM", "src", "VECTOR")]

CollectiveRuns ==
  [multinode_device_to_device_all_to_one_write_sm |-> Run("to_one", "SM", "src", "SUM"),
   multinode_device_to_device_all_from_one_read_sm |-> Run("from_one", "SM", "dst", "SUM"),
   multinode_device_to_device_broadcast_one_to_all_sm |->
     Run("broadcast_one", "multicast", "dst", "SUM"),
   multinode_device_to_device_broadcast_all_to_all_sm |->
     Run("broadcast_all", "multicast", "dst", "SUM"),
   multinode_bisect_write_ce |-> Run("bisect", "CE", "src", "VECTOR")]

Runs ==
  [key \in DOMAIN PairRuns \union DOMAIN CollectiveRuns |->
     IF key \in DOMAIN PairRuns THEN PairRuns[key] ELSE CollectiveRuns[key]]

-------------------------------------------------------------------------------
(***************************************************************************)
(* Buffers.  A local one is allocated by its owner alone; the others are   *)
(* constructed and destroyed by all ranks together.                        *)
(***************************************************************************)
Local(r) == [kind |-> "local", owner |-> r]
Unicast(r) == [kind |-> "unicast", owner |-> r]
Multicast(r) == [kind |-> "multicast", owner |-> r]

\* The cell of the matrix, the buffers in the order of their construction, the
\* copies as pairs of indices of buffers, and the order of destruction.
Shape(cell, buffers, copies, destroy) ==
  [cell |-> cell, buffers |-> buffers, copies |-> copies, destroy |-> destroy]

Backwards(n) == [i \in 1 .. n |-> n + 1 - i]

\* The buffers of a pair are on the stack: src, then peer.
PairShape(shape, pair) ==
  LET src == Unicast(pair[1])
      peer == Unicast(pair[2])
  IN  CASE shape = "read"  -> Shape(pair, <<src, peer>>, <<<<2, 1>>>>, Backwards(2))
        [] shape = "write" -> Shape(pair, <<src, peer>>, <<<<1, 2>>>>, Backwards(2))
        [] shape = "both_read" ->
             Shape(pair, <<src, src, peer, peer>>, <<<<3, 1>>, <<2, 4>>>>, Backwards(4))
        [] shape = "both_write" ->
             Shape(pair, <<src, src, peer, peer>>, <<<<1, 3>>, <<4, 2>>>>, Backwards(4))

\* The others fill srcNodes and dstNodes, one of each a turn, copy from the one
\* vector to the other and delete dstNodes, then srcNodes.
Vectors(cell, src, dst) ==
  LET n == Len(src)
  IN  Shape(cell,
            [i \in 1 .. 2 * n |-> IF i % 2 = 1 THEN src[(i + 1) \div 2] ELSE dst[i \div 2]],
            [i \in 1 .. n |-> <<2 * i - 1, 2 * i>>],
            [i \in 1 .. 2 * n |-> IF i <= n THEN 2 * i ELSE 2 * (i - n) - 1])

\* The ranks other than d, in order.
Others(size, d) == [i \in 1 .. size - 1 |-> IF i <= d THEN i - 1 ELSE i]

\* Every buffer of a vector is made from an index.
ToOne(size, d) ==
  Vectors(<<0, d>>, [i \in 1 .. size - 1 |-> Local(Others(size, d)[i])],
                    [i \in 1 .. size - 1 |-> Unicast(d)])
FromOne(size, s) ==
  Vectors(<<0, s>>, [i \in 1 .. size - 1 |-> Unicast(s)],
                    [i \in 1 .. size - 1 |-> Local(Others(size, s)[i])])
BroadcastOne(d) == Vectors(<<0, d>>, <<Local(d)>>, <<Multicast(d)>>)
BroadcastAll(size) ==
  Vectors(<<0, 0>>, [i \in 1 .. size |-> Local(i - 1)], [i \in 1 .. size |-> Multicast(i - 1)])

\* doMemcpyVector(dstNodes, srcNodes): the copies go backwards.
Bisect(size) ==
  LET there == Vectors(<<0, 0>>, [i \in 1 .. size |-> Unicast(i - 1)],
                       [i \in 1 .. size |-> Unicast((i - 1 + size \div 2) % size)])
  IN  [there EXCEPT !.copies = [i \in 1 .. size |-> <<2 * i, 2 * i - 1>>]]

Sampled(key) == key \in DOMAIN PairRuns

Shapes(p, key) ==
  LET shape == Runs[key].shape
  IN  CASE Sampled(key)            -> [i \in DOMAIN p.pairs |-> PairShape(shape, p.pairs[i])]
        [] shape = "to_one"        -> [i \in 1 .. p.size |-> ToOne(p.size, i - 1)]
        [] shape = "from_one"      -> [i \in 1 .. p.size |-> FromOne(p.size, i - 1)]
        [] shape = "broadcast_one" -> [i \in 1 .. p.size |-> BroadcastOne(i - 1)]
        [] shape = "broadcast_all" -> <<BroadcastAll(p.size)>>
        [] shape = "bisect"        -> <<Bisect(p.size)>>

-------------------------------------------------------------------------------
(***************************************************************************)
(* Dispatch and collective calls.                                          *)
(***************************************************************************)
Nobody == -1
Barrier == [op |-> "barrier", root |-> Nobody]
Allreduce == [op |-> "allreduce", root |-> Nobody]
Bcast(root) == [op |-> "bcast", root |-> root]

\* NodeHelperMulti::dispatchMemcpy: getPrimaryCtx is never null for these
\* buffers, so the owner of the preferred buffer executes the copy.
\* (Mutant: the source is preferred always.)
SourceExecutes(key, buffers, copy) == buffers[copy[1]].owner
Executor(key, buffers, copy) ==
  IF Runs[key].prefer = "src" THEN buffers[copy[1]].owner ELSE buffers[copy[2]].owner

\* The calls that bring the result of an operation to all ranks.
Results(key, executors) ==
  CASE Runs[key].value = "FIRST"  -> <<Bcast(executors[1])>>
    [] Runs[key].value = "SUM"    -> <<Allreduce>>
    [] Runs[key].value = "VECTOR" -> [i \in DOMAIN executors |-> Bcast(executors[i])]

\* A round: a shape, who executes its copies, the calls that follow, and the
\* ranks on which the copy throws.
Round(shape, executors, after, throws) ==
  [cell |-> shape.cell, buffers |-> shape.buffers, copies |-> shape.copies,
   destroy |-> shape.destroy, executors |-> executors, after |-> after, throws |-> throws]

Executors(key, shape) ==
  [i \in DOMAIN shape.copies |-> Executor(key, shape.buffers, shape.copies[i])]

\* Copy kernels refuse a width; the multicast kernel has a fixed one.
Refusing(p, key, executors) ==
  IF Runs[key].engine = "SM" THEN {executors[i] : i \in DOMAIN executors} \intersect p.narrow
                             ELSE {}

MeasuredRound(p, key, shape) ==
  LET executors == Executors(key, shape)
  IN  Round(shape, executors, Results(key, executors), Refusing(p, key, executors))

\* The node helper comes first, with its latch on rank 0.  NodeHelper has no
\* virtual destructor, and MemcpyOperation deletes it as a NodeHelper: the
\* latch stays mapped.  Then the first testcase that asks for pairs exchanges
\* them (TestPairs).
HelperRound(p, t) ==
  LET asks == Sampled(p.keys[t]) /\ \A s \in 1 .. t - 1 : ~Sampled(p.keys[s])
  IN  Round(Shape(<<>>, <<Unicast(0)>>, <<>>, <<>>), <<>>,
            IF asks THEN <<Barrier, Bcast(0), Bcast(0)>> ELSE <<>>, {})

RoundsOf(p, t) ==
  LET shapes == Shapes(p, p.keys[t])
  IN  <<HelperRound(p, t)>> \o [i \in DOMAIN shapes |-> MeasuredRound(p, p.keys[t], shapes[i])]
===============================================================================
