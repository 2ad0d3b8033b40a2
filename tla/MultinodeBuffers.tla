--------------------------- MODULE MultinodeBuffers ---------------------------
(***************************************************************************)
(* The multinode testcases at work: fabric allocations that one rank       *)
(* exports, the others import, and everyone maps; constructed, used and    *)
(* destroyed by all ranks in lockstep, and the results that all of them    *)
(* receive.                                                                *)
(*                                                                         *)
(* Constructors, samples, results and destructors synchronise with         *)
(* collective calls on MPI_COMM_WORLD.  MPI matches the calls of the ranks *)
(* by their order alone: the n-th call of one rank meets the n-th call of  *)
(* the others, whatever line it stands on.  So each rank records the calls *)
(* it has entered, and a call that meets one of another kind never         *)
(* returns.                                                                *)
(*                                                                         *)
(* What a sample does between its barriers is MemcpyCore's subject.        *)
(***************************************************************************)
EXTENDS MultinodeTestcases

CONSTANTS
  MaxSize,   \* the largest worldSize of a plan
  Plans,     \* the plans, see MultinodeTestcases
  Samples    \* averageLoopCount

AllRanks == 0 .. MaxSize - 1

ASSUME SizeAssumption == MaxSize \in Nat \ {0}
ASSUME SamplesAssumption == Samples \in Nat \ {0}
\* Ranks throw only with their buffers on the stack here: the testcases that
\* hold them by plain pointers lose them, and skip the barriers of their
\* destructors.
ASSUME PlansAssumption ==
  \A p \in Plans :
    /\ p.size \in 2 .. MaxSize
    /\ p.keys \in Seq(DOMAIN Runs)
    /\ p.pairs \in Seq({ab \in (0 .. p.size - 1) \X (0 .. p.size - 1) : ab[1] # ab[2]})
    /\ p.pairs # <<>>
    /\ p.narrow # {} => \A t \in DOMAIN p.keys : Sampled(p.keys[t])

VARIABLES
  plan,
  at,        \* where each rank is: [test, round, phase, index, sample]
  calls,     \* the collective calls it has entered
  sent,      \* what it contributed to each: the copies whose bandwidth it sent
  exported,  \* buffers whose handle its owner has exported
  added,     \* ranks whose device a multicast object has
  mapped,    \* buffers each rank has mapped
  cells      \* what each rank took for results: [test, round, values]

vars == <<plan, at, calls, sent, exported, added, mapped, cells>>
memory == <<exported, added, mapped>>

\* The rounds of every plan, computed once.
Table == [p \in Plans |-> [t \in DOMAIN p.keys |-> RoundsOf(p, t)]]

Ranks == 0 .. plan.size - 1
Rounds(t) == Table[plan][t]

Buffers(p) ==
  UNION {UNION {{<<t, k, i>> : i \in DOMAIN Table[p][t][k].buffers} : k \in DOMAIN Table[p][t]}
           : t \in DOMAIN Table[p]}

\* The start of round k of testcase t of p.
Begin(p, t, k) ==
  [test |-> t, round |-> k, index |-> 1, sample |-> 1,
   phase |-> IF t \in DOMAIN p.keys THEN "construct" ELSE "done"]

Init ==
  /\ plan \in Plans
  /\ at = [r \in Ranks |-> Begin(plan, 1, 1)]
  /\ calls = [r \in Ranks |-> <<>>]
  /\ sent = [r \in Ranks |-> <<>>]
  /\ exported = {}
  /\ added = [b \in Buffers(plan) |-> {}]
  /\ mapped = [r \in Ranks |-> {}]
  /\ cells = [r \in Ranks |-> <<>>]

-------------------------------------------------------------------------------
(***************************************************************************)
(* Collective calls.                                                       *)
(***************************************************************************)
In(r, phase) == at[r].phase = phase

Goto(r, position) == at' = [at EXCEPT ![r] = position]

Latest(r) == calls[r][Len(calls[r])]

\* The call r is in has been entered by rank q, as the same call.
Joined(q, r) ==
  LET n == Len(calls[r]) IN Len(calls[q]) >= n /\ calls[q][n] = calls[r][n]

Meet(r) == \A q \in Ranks : Joined(q, r)

\* (Mutant: a barrier that lets everyone through.)
NoWait(r) == TRUE
AddBarrier(r) == Meet(r)
SampleBarrier(r) == Meet(r)
DestroyBarrier(r) == Meet(r)

\* A broadcast returns when the root has entered it, the others when all have.
Received(r) == Joined(Latest(r).root, r)
Returned(r) == IF Latest(r).op = "bcast" THEN Received(r) ELSE Meet(r)

EnterWith(r, call, data) ==
  /\ calls' = [calls EXCEPT ![r] = Append(@, call)]
  /\ sent' = [sent EXCEPT ![r] = Append(@, data)]

Enter(r, call) == EnterWith(r, call, {})

\* What the n-th call of r returned.
Value(r, n) ==
  IF calls[r][n].op = "bcast" THEN sent[calls[r][n].root][n]
                              ELSE UNION {sent[q][n] : q \in Ranks}

RoundOf(r) == Rounds(at[r].test)[at[r].round]
Named(r, i) == <<at[r].test, at[r].round, i>>
Current(r) == Named(r, at[r].index)
CurrentBuffer(r) == RoundOf(r).buffers[at[r].index]

-------------------------------------------------------------------------------
(***************************************************************************)
(* Constructors: the owner creates and exports the allocation before the   *)
(* broadcast, the others import it after.                                  *)
(***************************************************************************)
Constructing(r) == In(r, "construct") /\ at[r].index <= Len(RoundOf(r).buffers)

\* Plain device memory of one rank: no one meets anyone.
AllocateLocal(r) ==
  /\ Constructing(r)
  /\ CurrentBuffer(r).kind = "local"
  /\ mapped' = IF CurrentBuffer(r).owner = r
               THEN [mapped EXCEPT ![r] = @ \union {Current(r)}] ELSE mapped
  /\ Goto(r, [at[r] EXCEPT !.index = @ + 1])
  /\ UNCHANGED <<plan, calls, sent, exported, added, cells>>

Construct(r) ==
  /\ Constructing(r)
  /\ CurrentBuffer(r).kind # "local"
  /\ exported' = IF CurrentBuffer(r).owner = r THEN exported \union {Current(r)} ELSE exported
  /\ Enter(r, Bcast(CurrentBuffer(r).owner))
  /\ Goto(r, [at[r] EXCEPT !.phase = "bcast"])
  /\ UNCHANGED <<plan, added, mapped, cells>>

Map(r) ==
  /\ mapped' = [mapped EXCEPT ![r] = @ \union {Current(r)}]
  /\ Enter(r, Barrier)
  /\ Goto(r, [at[r] EXCEPT !.phase = "mapped"])
  /\ UNCHANGED <<plan, exported, cells>>

ImportUnicast(r) ==
  /\ In(r, "bcast")
  /\ Received(r)
  /\ CurrentBuffer(r).kind = "unicast"
  /\ Map(r)
  /\ UNCHANGED added

AddDevice(r) ==
  /\ In(r, "bcast")
  /\ Received(r)
  /\ CurrentBuffer(r).kind = "multicast"
  /\ added' = [added EXCEPT ![Current(r)] = @ \union {r}]
  /\ Enter(r, Barrier)
  /\ Goto(r, [at[r] EXCEPT !.phase = "added"])
  /\ UNCHANGED <<plan, exported, mapped, cells>>

\* cuMulticastBindMem and the mapping of the multicast object.
BindMemory(r) ==
  /\ In(r, "added")
  /\ AddBarrier(r)
  /\ Map(r)
  /\ UNCHANGED added

\* The barrier that ends a constructor.
Constructed(r) ==
  /\ In(r, "mapped")
  /\ Meet(r)
  /\ Goto(r, [at[r] EXCEPT !.phase = "construct", !.index = @ + 1])
  /\ UNCHANGED <<plan, calls, sent, memory, cells>>

\* A node helper has no operation to run.
Measures(r) == RoundOf(r).copies # <<>>

HelperBuilt(r) ==
  /\ In(r, "construct") /\ ~Constructing(r)
  /\ ~Measures(r)
  /\ Goto(r, [at[r] EXCEPT !.phase = "collect", !.index = 1])
  /\ UNCHANGED <<plan, calls, sent, memory, cells>>

-------------------------------------------------------------------------------
(***************************************************************************)
(* The memcpy operation.                                                   *)
(***************************************************************************)
BeginOperation(r) ==
  /\ In(r, "construct") /\ ~Constructing(r)
  /\ Measures(r)
  /\ Goto(r, [at[r] EXCEPT !.phase = "entry"])
  /\ Enter(r, Barrier)
  /\ UNCHANGED <<plan, memory, cells>>

StartSample(r) ==
  /\ In(r, "entry")
  /\ SampleBarrier(r)
  /\ Goto(r, [at[r] EXCEPT !.phase = "copy"])
  /\ UNCHANGED <<plan, calls, sent, memory, cells>>

Throws(r) == r \in RoundOf(r).throws

FinishCopies(r) ==
  /\ In(r, "copy")
  /\ ~Throws(r)
  /\ Enter(r, Barrier)
  /\ Goto(r, [at[r] EXCEPT !.phase = "exit"])
  /\ UNCHANGED <<plan, memory, cells>>

EndSample(r) ==
  /\ In(r, "exit")
  /\ SampleBarrier(r)
  /\ Goto(r, [at[r] EXCEPT !.phase = "verify"])
  /\ UNCHANGED <<plan, calls, sent, memory, cells>>

MoreSamples(r) == at[r].sample < Samples

NextSample(r) ==
  /\ In(r, "verify")
  /\ MoreSamples(r)
  /\ Enter(r, Barrier)
  /\ Goto(r, [at[r] EXCEPT !.phase = "entry", !.sample = @ + 1])
  /\ UNCHANGED <<plan, memory, cells>>

EndOperation(r) ==
  /\ In(r, "verify")
  /\ ~MoreSamples(r)
  /\ Goto(r, [at[r] EXCEPT !.phase = "collect", !.index = 1])
  /\ UNCHANGED <<plan, calls, sent, memory, cells>>

-------------------------------------------------------------------------------
(***************************************************************************)
(* The results: what the statistics of the executed copies become on every *)
(* rank.  (The pair exchange behind a node helper goes the same way.)      *)
(***************************************************************************)
Executed(r) == {c \in DOMAIN RoundOf(r).copies : RoundOf(r).executors[c] = r}

\* calculateFirstBandwidth and calculateVectorBandwidth broadcast from the rank
\* that executed the copy: its first result, or the one whose turn it is.
Turn(r, i) == Cardinality({c \in Executed(r) : c <= i})
SendsNext(r, i) == {c \in Executed(r) : Turn(r, c) = Turn(r, i)}

Contribution(r, i) ==
  IF ~Measures(r) THEN {}
  ELSE IF RoundOf(r).after[i].op = "allreduce" THEN Executed(r)
  ELSE IF RoundOf(r).after[i].root = r THEN SendsNext(r, i)
  ELSE {}

Collecting(r) ==
  /\ In(r, "collect")
  /\ at[r].index > 1 => Returned(r)

Collect(r) ==
  /\ Collecting(r)
  /\ at[r].index <= Len(RoundOf(r).after)
  /\ EnterWith(r, RoundOf(r).after[at[r].index], Contribution(r, at[r].index))
  /\ Goto(r, [at[r] EXCEPT !.index = @ + 1])
  /\ UNCHANGED <<plan, memory, cells>>

Collected(r) ==
  /\ Collecting(r)
  /\ at[r].index > Len(RoundOf(r).after)
  /\ Goto(r, [at[r] EXCEPT !.phase = "destroy", !.index = 1])
  /\ cells' = IF ~Measures(r) THEN cells
              ELSE LET before == Len(calls[r]) - Len(RoundOf(r).after)
                       values == [i \in DOMAIN RoundOf(r).after |-> Value(r, before + i)]
                   IN  [cells EXCEPT ![r] =
                          Append(@, [test |-> at[r].test, round |-> at[r].round,
                                     values |-> values])]
  /\ UNCHANGED <<plan, calls, sent, memory>>

-------------------------------------------------------------------------------
(***************************************************************************)
(* Destructors.                                                            *)
(***************************************************************************)
\* copyKernel throws: the stack unwinds through the destructors of the round,
\* and runTestcase catches.  (sample 0 marks the unwinding.)
Throw(r) ==
  /\ In(r, "copy")
  /\ Throws(r)
  /\ Goto(r, [at[r] EXCEPT !.phase = "destroy", !.index = 1, !.sample = 0])
  /\ UNCHANGED <<plan, calls, sent, memory, cells>>

Doomed(r) == Named(r, RoundOf(r).destroy[at[r].index])
DoomedBuffer(r) == RoundOf(r).buffers[RoundOf(r).destroy[at[r].index]]

\* (Mutant: stops one buffer early.)
StopsEarly(r) == at[r].index < Len(RoundOf(r).destroy)
MoreToDestroy(r) == at[r].index <= Len(RoundOf(r).destroy)

FreeLocal(r) ==
  /\ In(r, "destroy")
  /\ MoreToDestroy(r)
  /\ DoomedBuffer(r).kind = "local"
  /\ mapped' = [mapped EXCEPT ![r] = @ \ {Doomed(r)}]
  /\ Goto(r, [at[r] EXCEPT !.index = @ + 1])
  /\ UNCHANGED <<plan, calls, sent, exported, added, cells>>

\* The barrier of a destructor.  (Mutant: only the owner meets the others.)
EnterAsOwner(r) ==
  IF DoomedBuffer(r).owner = r THEN Enter(r, Barrier) ELSE UNCHANGED <<calls, sent>>
EnterDestructor(r) == Enter(r, Barrier)

BeginDestroy(r) ==
  /\ In(r, "destroy")
  /\ MoreToDestroy(r)
  /\ DoomedBuffer(r).kind # "local"
  /\ EnterDestructor(r)
  /\ Goto(r, [at[r] EXCEPT !.phase = "unmap"])
  /\ UNCHANGED <<plan, memory, cells>>

Unmap(r) ==
  /\ In(r, "unmap")
  /\ DestroyBarrier(r)
  /\ mapped' = [mapped EXCEPT ![r] = @ \ {Doomed(r)}]
  /\ Goto(r, [at[r] EXCEPT !.phase = "destroy", !.index = @ + 1])
  /\ UNCHANGED <<plan, calls, sent, exported, added, cells>>

\* The next round of the testcase, or the next testcase.
EndRound(r) ==
  /\ In(r, "destroy")
  /\ ~MoreToDestroy(r)
  /\ LET t == at[r].test
         more == at[r].sample # 0 /\ at[r].round < Len(Rounds(t))
     IN  Goto(r, IF more THEN Begin(plan, t, at[r].round + 1) ELSE Begin(plan, t + 1, 1))
  /\ UNCHANGED <<plan, calls, sent, memory, cells>>

-------------------------------------------------------------------------------
Step(r) ==
  /\ r \in Ranks
  /\ \/ AllocateLocal(r)
     \/ Construct(r)
     \/ ImportUnicast(r)
     \/ AddDevice(r)
     \/ BindMemory(r)
     \/ Constructed(r)
     \/ HelperBuilt(r)
     \/ BeginOperation(r)
     \/ StartSample(r)
     \/ FinishCopies(r)
     \/ EndSample(r)
     \/ NextSample(r)
     \/ EndOperation(r)
     \/ Collect(r)
     \/ Collected(r)
     \/ Throw(r)
     \/ FreeLocal(r)
     \/ BeginDestroy(r)
     \/ Unmap(r)
     \/ EndRound(r)

Finished == (\A r \in Ranks : In(r, "done")) /\ UNCHANGED vars

Next == (\E r \in AllRanks : Step(r)) \/ Finished

\* A rank waits nowhere but in a collective call.
Spec == Init /\ [][Next]_vars /\ \A r \in AllRanks : WF_vars(Step(r))

-------------------------------------------------------------------------------
(***************************************************************************)
(* Properties.                                                             *)
(***************************************************************************)
\* All ranks make the same collective calls in the same order.
CollectivesMatch ==
  \A r, q \in Ranks : \A n \in DOMAIN calls[r] \intersect DOMAIN calls[q] :
    calls[r][n] = calls[q][n]

\* What the destructors say of their barrier ("make sure that everyone is done
\* using the memory") and the constructors of theirs ("done with mapping"):
\* while a rank is in a memcpy operation, every shared buffer of it is mapped
\* on every rank, and so is the latch of the node helper; a rank that executes
\* a copy has both of its buffers, and nobody else has a local one.
MemoryOutlivesItsUse ==
  \A r \in Ranks :
    at[r].phase \in {"entry", "copy", "exit", "verify"} =>
      /\ \A q \in Ranks : <<at[r].test, 1, 1>> \in mapped[q]
      /\ \A i \in DOMAIN RoundOf(r).buffers, q \in Ranks :
           IF RoundOf(r).buffers[i].kind = "local"
           THEN Named(r, i) \in mapped[q] => q = RoundOf(r).buffers[i].owner
           ELSE Named(r, i) \in mapped[q]
      /\ \A c \in DOMAIN RoundOf(r).copies :
           RoundOf(r).executors[c] = r =>
             \A k \in {1, 2} : Named(r, RoundOf(r).copies[c][k]) \in mapped[r]

BufferNamed(b) == Rounds(b[1])[b[2]].buffers[b[3]]

\* A rank maps only what its owner has exported, and binds memory to a
\* multicast object only after every device was added to it.
MapsWhatIsReady ==
  \A r \in Ranks : \A b \in mapped[r] :
    /\ BufferNamed(b).kind # "local" => b \in exported
    /\ BufferNamed(b).kind = "multicast" => added[b] = Ranks

\* Nothing is left mapped at the end but the latches of the node helpers, one
\* for every testcase that ran.
NothingLeaks ==
  \A r \in Ranks :
    In(r, "done") => mapped[r] = {<<t, 1, 1>> : t \in DOMAIN plan.keys}

\* The traffic of copy c of a round: a write to a multicast object reaches all.
Flows(round, c) ==
  LET src == round.buffers[round.copies[c][1]]
      dst == round.buffers[round.copies[c][2]]
  IN  IF dst.kind = "multicast" THEN {src.owner} \X Ranks ELSE {<<src.owner, dst.owner>>}

FlowsOf(round, cs) == UNION {Flows(round, c) : c \in cs}

\* The traffic that a promise names, for row r and column c.
Promised(word, r, c) ==
  CASE word = "none"       -> {}
    [] word = "from_peer"  -> {<<c, r>>}
    [] word = "to_peer"    -> {<<r, c>>}
    [] word = "both_ways"  -> {<<r, c>>, <<c, r>>}
    [] word = "inbound"    -> (Ranks \ {c}) \X {c}
    [] word = "outbound"   -> {c} \X (Ranks \ {c})
    [] word = "to_all"     -> {c} \X Ranks
    [] word = "all_to_all" -> Ranks \X Ranks
    [] word = "bisection"  -> {<<a, (a + plan.size \div 2) % plan.size>> : a \in Ranks}

\* The values of a cell, and what they are together (the sum of a
\* bidirectional testcase; the bisection reports one value a rank).
KeepsPromise(promise, round, values) ==
  LET reported == {FlowsOf(round, values[i]) : i \in DOMAIN values}
      r == round.cell[1]
      c == round.cell[2]
  IN  /\ Promised(promise.reports, r, c) \in reported \union {UNION reported}
      /\ Promised(promise.load, r, c) \subseteq FlowsOf(round, DOMAIN round.copies)
      /\ \A i \in DOMAIN round.copies :
           LET flow == IF promise.launches = "writer" THEN 1 ELSE 2
           IN  round.executors[i] = round.buffers[round.copies[i][flow]].owner

\* The testcases before the one a rank is in, unless they threw.
Through(r) == {t \in DOMAIN plan.keys :
                 t < at[r].test /\ \A k \in DOMAIN Rounds(t) : Rounds(t)[k].throws = {}}

\* Every rank ends a testcase with the whole matrix, and each cell holds, on
\* every rank and whichever rank executed the copy, the bandwidth of the
\* traffic that the description of the testcase names, executed where it says.
MatrixKeepsItsPromise ==
  \A r \in Ranks : \A t \in Through(r) :
    /\ {cells[r][n].round : n \in {m \in DOMAIN cells[r] : cells[r][m].test = t}}
         = 2 .. Len(Rounds(t))
    /\ \A n \in DOMAIN cells[r] :
         cells[r][n].test = t =>
           KeepsPromise(Promises[plan.keys[t]], Rounds(t)[cells[r][n].round], cells[r][n].values)

\* No rank is left waiting in a collective call.
EveryRankFinishes == <>(\A r \in Ranks : In(r, "done"))
===============================================================================
