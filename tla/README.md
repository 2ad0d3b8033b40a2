# nvbandwidth in TLA+

Specifications of nvbandwidth, the bandwidth and latency benchmark for NVIDIA GPUs in
this repository: TLA+ modules translated from its C++ and CUDA sources, TLC
configurations that check them on small instances, and proofs that TLAPS checks for
every instance.

Contents: [inventory](#inventory) · [modules](#modules) ·
[runs](#runs-bounds-and-what-they-show) · [fairness](#fairness) · [proofs](#proofs) ·
[disagreements](#where-code-and-documents-disagree) · [limits](#what-is-not-modelled)
· [what is left](#what-is-left)

## Inventory

nvbandwidth runs as one process that drives all GPUs of a machine or, built with
`MULTINODE`, as one MPI rank per GPU. `main` parses options, picks the testcases and
runs them in order. A testcase builds buffers for every pair (or group) of GPUs and
hands them to a `MemcpyOperation`, which takes `averageLoopCount` samples of
simultaneous copies and returns bandwidths. Results go to an `Output`, text or JSON.
Shell scripts around the program sweep its options and run profilers beside it; Python
scripts merge what they collect.

### Components

**Measurement core** (`memcpy.cpp`, `MemcpyOperation::doMemcpyCore`). State: one
stream and three events per local copy, a total event, statistics. Operations: a
sample resets the blocker, synchronises the ranks, fills the buffers, queues a spin
kernel, warmup copies, events and copies on each stream, releases the blocker, drains
the streams, synchronises the ranks, verifies and reads the events. Correct if nothing
is measured that was not queued yet, copies run together, the total event covers all
of them, no rank verifies what another one still copies, and every rank ends.

**Node helpers and stream blockers** (`memcpy.cpp`, `multinode_memcpy.cpp`,
`kernels.cu`). State: a latch in pinned host memory; in multinode builds also a latch
in device memory that *all* ranks map. `NodeHelperSingle` releases its streams with
the host latch. With `NodeHelperMulti` the spin kernel of the first rank waits for its
host latch and raises the device latch, which all others poll; the reset of the device
latch is a `cuMemsetD32` by every rank. Correct if no release is lost and none
outlives its sample. Hard: three kinds of actors (hosts, devices, memory), no lock,
barriers in two places only, a 10 s timeout in the kernels.

**Copy kernels and verification** (`memcpy.cpp`, `kernels.cu`). State: two buffers.
Operations: `getAdjustedCopySize`, `memsetPattern`, `memcpyFunc`, `memcmpPattern`. The
size is worked out three times (filled and compared, reported, launched). Correct if
they agree, no kernel leaves its buffer, and a lost word never passes.

**Fabric buffers** (`multinode_memcpy.cpp`). `MultinodeDeviceBufferUnicast` and
`-Multicast` are RAII objects whose constructors and destructors are collective:
allocate, export, broadcast, import, map; a barrier before unmapping. State: what is
exported, bound and mapped on each rank. Correct if all ranks make the same collective
calls, nothing is mapped before it exists or unmapped while used, and nothing leaks,
also when all ranks throw. `multinode_testcases.cpp` runs them in rounds and
broadcasts the results, since a rank has statistics of its own copies only.

**Test-pair selection** (`generateTestPairs`). State: three static variables on every
rank. Rank 0 samples pairs in two passes and broadcasts them; later calls answer from
the statics without communication. Correct if all ranks always return the same pairs,
as many as asked for, covering GPUs first.

**Process driver** (`nvbandwidth.cpp`, `environment.cpp`, `error_handling.h`). State:
options, rank, `localDevice`, the list of testcases, which differs between rank 0 and
the others. Correct if ranks stay in step although they run different lists, take the
GPUs they should, and end together.

**Output** (`output.cpp`, `json_output.cpp`). State: the JSON document. Text output
also selects the rank's GPU, in passing. Correct if every testcase is reported once
with its final status and its own results.

**Testcase enumeration** (`testcase*.cpp`, `testcase.h`, `multinode_testcases.cpp`).
State: the buffers of the testcase, the current context and the peer access that
earlier testcases left behind. Loops over hosts, devices and peers, filters, the
interfering copies of bidirectional tests. Correct if each ordered pair is measured
once, in the cell of the matrix that its label names, by the GPU and against the load
that `testcase.h` declares, and if no buffer stays behind.

**Latency and pointer-chase kernels** (`kernels.cu`, `initHostPtrChaseNodes`). Pointer
chains built on the host and followed on the device, one per warp in a bandwidth
chase, each from a random node. Correct if a chase stays on its chain and inside its
buffer, whatever the stride and the width.

**Buffers** (`memcpy.cpp`). Host and device memory of one process, each in the context
of its GPU. Correct if a copy reaches both sides from the context it is launched in.

**Statistics** (`common.h`, `memcpy.cpp`, `inline_common.h`, and the summaries of both
outputs). From elapsed times to the numbers of the report. Correct if what is reported
lies within what was measured, and the summary is that of the matrix.

**Sweep drivers** (`sweep_intel_all.sh`, `sweep_amd_all.sh`, `sweep_intel_t16.sh`,
`sweep_case_policy.sh`). State: result directories and a JSON file of cases.
`run_case` skips, cleans, runs, lets a guard adjust the loop count, and retries.
Correct if it ends, and if a sweep that exits with success has an accepted result for
every case, however often it was interrupted.

**Collectors** (`collect_*.sh`). Start profilers in the background, run the workload,
stop the profilers with INT, TERM, KILL, from the normal path and from traps; the
workload itself marks the interval to sample with signals to the profiler. Correct if
no profiler survives.

**The rest**: plain sweeps (`sweep_*stride.sh`, `sweep_all_cache_ways.sh`),
relaxed-ordering scripts, post-processing in Python, the vendored JSON library, build
files.

### How they interact

    main ── runTestcase ── Testcase::run ──┬── generateTestPairs ── MPI_Bcast, MPI_Barrier
     │                                     ├── Multinode buffers ── MPI_Bcast, MPI_Barrier
     │                                     └── MemcpyOperation ──┬── NodeHelper ── latches, MPI
     │                                                           ├── MemcpyInitiator ── kernels
     └── Output / JsonOutput                                     └── streams, events

Processes share the device latch and the mapped buffers, and otherwise meet only in
collective MPI calls. Host and device share the queues of the streams and the latches.
There are no callbacks and no threads of the program's own. The scripts run the
program as a child; for AMD the child signals the profiler, a sibling.

## Modules

| Module | Models | Main state |
|---|---|---|
| `StreamGate` | what a stream blocker promises: a gate opened once a sample | `open`, `through` |
| `MemcpyCore` | `doMemcpyCore`, both node helpers, the spin kernels, on all ranks | `pc`, `sample`, latches, `queued`, `retired` |
| `CopyVerify` | the copies of all initiators, what they report and what is verified | `src`, `dst`, `moved`, `claimed` |
| `Declarations` | what `testcase.h` says of the testcases of a single process | (a table) |
| `Testcases` | `run()` of those testcases with their helpers, buffers and pointer chains | `outer`, `inner`, `ctx`, `enabled`, `live`, `cells` |
| `MultinodeTestcases` | what `testcase.h` says of the multinode testcases, and the rounds `run()` makes of each | (a table and an operator) |
| `MultinodeBuffers` | those rounds on all ranks: collective constructors, samples, results, destructors | `at`, `calls`, `exported`, `added`, `mapped`, `cells` |
| `TestPairs` | `generateTestPairs` | the three statics, `returned` |
| `Statistics` | the arithmetic from times to the report | `stats`, `matrices`, `text`, `json` |
| `Runner` | `main`, `runTestcase`, device selection, the JSON report, on all ranks | `pc`, `localDevice`, `todo`, `calls`, `report` |
| `Sweep` | `run_case` and the main loop of the sweep drivers, their collectors with a profiler, crashes | `file`, `dirs`, `count`, `seen`, `profiler` |

`MCMemcpyCore`, `MCMultinodeBuffers`, `MCTestPairs`, `MCTestcases`, `MCStatistics`,
`MCRunner` and `MCSweep` hold the values of the constants for TLC. `MemcpyCoreProofs`,
`MemcpyEventProofs`, `CopyVerifyProofs`, `TestcasesProofs`, `TestPairsProofs`,
`MultinodeBuffersProofs`, `RunnerProofs` and `SweepProofs` hold theorems. Operators
marked "Mutant" in a module are faulty variants of the one that follows them: each
property is known to fail for at least one of them.

How the modules divide the program: `Sweep` runs the program as one step, `Runner` a
testcase as one step, `Testcases` and `MultinodeBuffers` a measurement as one step or
as its two barriers, and `MemcpyCore` is that measurement; `CopyVerify` is one of its
copies, `Statistics` what becomes of its times. A multinode testcase takes its pairs
from `TestPairs`; in `MultinodeBuffers` they are given.

### MemcpyCore and StreamGate

A stream is in order and what is queued on it is fixed (spin, warmup, start event,
copy, end event, total event), so its state is two counters: `queued[c]` and
`retired[c]`. The host actions follow `doMemcpyCore` and carry the names of the
helper's methods: `StreamBlockerReset`, `BeginSample` (the first `synchronizeProcess`
and `memsetPattern`), `Enqueue` (one launch; the host blocks while the queue is full),
`StreamBlockerRelease` with `DrainStreams`, `EndSample` (the second
`synchronizeProcess`), `ReadSample`, `ReduceTotal`, `CollectResult`. The device
actions are the two stages of `spinKernelDeviceMultistage` (`FirstStage`,
`RaiseDeviceLatch`, `SpinReleased`), its timeout, and `Retire` for everything else,
which honours `cuStreamWaitEvent` (`Ready`). The k-th collective call of a rank
completes when every rank has entered its k-th (`AllEntered`). Latches start with any
value.

Constants name what belongs to the driver and not to the code: `QueueDepth` (how much
a stream holds before a launch blocks), `MayTimeOut`, and `AsyncReset` (`cuMemsetD32`
on device memory may land after it has returned).

`StreamGate` is the abstraction: `Open` once a sample, `Pass` each copy while open,
`Close` only when all have passed. The refinement mapping takes the host latch
(single) or the device latch (multi) as `open`, and the copies past their spin kernel
as `through`.

### CopyVerify

Words of 32 bits; contents are named by the pattern they come from. `Kernel(op)` gives
the words that the kernel touches with the grid it is launched with, with the size
they claim, and `AdjustedCopySize` the extent that is filled and compared. A copy may
lose one word, so that the verification has something to find.

### Declarations and Testcases

`Declarations` says of every testcase what its `--list` text promises: the traffic
that is reported, the load beside it, and which side launches the copy. `Testcases`
has the loops, the filter, the preparations and the result of each `run()`: the state
is the loop variables, the current context, the peer access enabled so far, and the
live buffers. A copy is a step that records which memory it reaches from which context
and what is put into which cell of which matrix (`MatricesOf`, `MeasuredIn`).
`MatrixKeepsItsPromise` compares the two, cell by cell and matrix by matrix: the
traffic behind a number must be what the description says, or what the name of the
matrix says where the description is of another one; what ran must be that traffic and
the described load and nothing else; the load must be larger than the measured copy;
and copies must be launched from the described side. Where `run()` does otherwise the
testcases are named, with what they do instead: `EqualInterference` has a load exactly
as large as the measured copy, in `SourceContextReads` the source launches, and
`Described` says which of three matrices holds the described copy. A width that a GPU
refuses throws, and what only plain pointers hold stays allocated for the rest of the
command line. The chains of the latency and host-read testcases are functions from
nodes to nodes, laid out as `initHostPtrChaseNodes` does, and a chase starts from any
node the kernel may choose.

### MultinodeTestcases and MultinodeBuffers

A testcase is a list of rounds; a round constructs buffers, takes samples with two
barriers each, broadcasts or reduces its results, and destroys the buffers. `Runs`
derives the rounds of each multinode testcase from its loops over pairs or ranks
(`RoundOf` is the round a rank is in, and `Executors` who runs its copies);
`PairPromises` and its neighbours are the other side, from `testcase.h`. Each rank
records the collective calls it enters (`calls`), and a call completes only when every
rank's call of that number is the same. `Throw` models an exception of the copy
kernel: the destructors of the round run, the rest of the testcase is skipped. The
latch allocation of a node helper stays mapped, as in the code (its destructor is not
virtual).

`MatrixKeepsItsPromise` of this module is coarser than that of `Testcases`: it
compares the *set* of the values of a cell and their sum with the description, so an
exchange of two result matrices, or of two rows of the bisection, would not be seen;
the described load must be among what runs, and there may be more; and buffers have no
size here.

### TestPairs

The lists of the code are shuffled, so the model keeps sets and chooses. Both passes,
the early returns of the statics, the barrier and both broadcasts are actions. Two
calls in a row exercise the cache.

### Statistics

Times are in quarters of a microsecond, so that the truncation to microseconds loses
something, and unsigned products wrap at a constant. `PerformanceStatistic` keeps its
samples with the running sum, least and largest; `PeerValueMatrix` its optional cells;
the text and the JSON summaries are computed as each output does, with their different
treatment of missing values.

### Runner

A testcase is a key; running a multinode one stands for one collective call. Requests
are ids (names or indices), prefixes (the keys they match), nothing, `--list`, or
refused options; `Expanded` keeps those of a rank's list that a prefix matches, in
their order. Which testcases are waived or throw, which GPU fails the sanity check,
and how many GPUs the hosts have are chosen in `Init`. `report` is the `testcases`
array of the JSON document of rank 0, updated by the methods of `JsonOutput` as they
are, including the lookup that never finds an entry. A rank that ends before
`MPI_Finalize` makes the launcher end the others (`Kill`).

### Sweep

The driver's actions follow `run_case`: skip what is done, empty the directory, run,
judge, accept, retry or give up. Rewriting the case file is two steps (open, which
empties it, and dump). An attempt is the collector with its profiler in the
background: for AMD start and end markers from the workload, the wait, and the trap
after a timeout; for Intel a workload under `timeout`; for both the escalation of
signals. A crash may come at any step; files stay, processes go, and the sweep is
started again. What the guard reads from the files is one of four outcomes.

## Runs, bounds and what they show

| Run | Instance | Shows |
|---|---|---|
| `memcpy_multi` | 3 ranks with 1, 2 and 0 copies, 2 samples, any initial latches | refinement of `StreamGate`; no release lost or left over; no copy before the release of its sample; the first rank measures nothing while it queues; every rank ends |
| `memcpy_timeouts` | 2 ranks, 3 copies, queue of 2, timeouts, late resets | event order and verification hold without the gate; the timeouts end every wait |
| `copy_verify` | all initiators, 13 sizes around both thresholds, 2 samples | sizes agree, stores stay inside, a lost word never passes, whole MiB never fail |
| `copy_tail` | the same | *violation*: small SM copies leave a tail uncopied |
| `testcases` | every testcase of a single process, and pairs of them, on 3 GPUs with six sets of peers, widths and strides | each matrix holds, by its name, what `testcase.h` declares, under the declared load and no other; copies reach their memory; chases stay on their chain; only what throws leaks |
| `buffers_lockstep` | every multinode testcase on 2 to 4 ranks, and three in a row of which the second throws everywhere | collective calls match, memory outlives its use, nothing leaks, all ranks end with the declared matrix |
| `buffers_throw` | 3 ranks, only the copying one throws | *violation*: memory is unmapped while another rank uses it |
| `test_pairs` | 4 ranks, 2 calls, targets -1, 0, 1, 2, 3, 12 | all ranks agree, the target is met, coverage grows, every call returns |
| `statistics` | five shapes of testcases, up to 3 samples, mean and median | values lie within what was measured, both outputs sum up the matrix they print |
| `runner` | 3 ranks round-robin on 2 hosts, 5 command lines, with and without `--json` | GPUs in order, ranks in step, every testcase reported once, every rank ends |
| `runner_index` | the same, one testcase by its index | *violation*: the other ranks run a testcase nobody asked for |
| `sweep` | 2 cases, both drivers, loop counts 1 to 8, one crash | success means all done, no profiler survives, every sweep ends |

Why the bounds are enough:

- *Helper*: the runs of `MemcpyCore` use `NodeHelperMulti`. `NodeHelperSingle` is one
  rank and one latch, the theorems about `MemcpyCore` hold for both, and what only TLC
  checks (that every rank finishes) is a wait of one process for its own streams.
- *Samples = 2*: what may leak from one sample to the next (a latch, a slow rank, a
  late reset, stale data) needs two; a third repeats the second, since the inductive
  invariant relates only neighbouring samples.
- *Ranks*: two for a race, three so that a rank is neither the first nor the last, and
  one without copies. Which rank holds the first copy and how copies share a rank are
  what the code distinguishes. The bisection needs an even number: two and four.
- *CopyVerify*: units are scaled (a KiB of 8 words, a MiB of 32, blocks of 4 threads,
  5 threads in the large kernels) so that divisibility is as in the code: a KiB is
  whole elements but not whole blocks, a MiB whole blocks, the number of large-kernel
  threads divides nothing. Sizes 1 to 13 KiB reach below, at and above
  `smallBufferThreshold`, with and without remainders.
- *Testcases*: three GPUs separate peer, other peer and self; the sets of peers are
  all, one pair, one direction only, and none. Every testcase runs alone, and those
  that depend on what is left behind after those that leave something. Buffers of 8
  words hold chains of every width with strides that divide, exceed and wrap the
  number of nodes.
- *Statistics*: 3 and 4 quarters lie below and at a microsecond, products reach the
  wrap and pass it, and three samples have a middle one.
- *TestPairs*: with four ranks some selections of two pairs cover all GPUs and some do
  not, and both passes run for the targets 2 and 3.
- *Runner*: two hosts and round-robin placement keep the rank, the local rank and the
  GPU apart; one testcase of a single process and two multinode ones keep the ranks'
  lists apart. With three GPUs per host `--json` gets past its device list; with one,
  the assertion in it fires and the hosts are oversubscribed.
- *Sweep*: doubling and halving from 1 and 3 within 1 to 8 meets both limits and goes
  to and fro; one crash reaches each step, and the second start finds whatever it
  left.
- `CHECK_DEADLOCK FALSE` appears where behaviour really stops: `CopyVerify` has no
  step after a failed comparison, `Statistics` none after its report, and the
  violations in question leave ranks waiting.

## Fairness

- `MemcpyCore`: weak fairness of each rank's host, of each stream and of each write in
  flight: a host thread waits only where an action has a guard for it (a full queue,
  an undrained stream, a collective call), a device executes what is at the head of a
  stream, and a spin kernel reads its clock in every iteration. The timeout of the
  spin kernels is fair only as one of the ways a `Device` step can go on.
- `MultinodeBuffers`, `TestPairs`, `Runner`: weak fairness of each rank, which waits
  in collective calls only.
- `Sweep`: weak fairness of the scripts (driver and collector), of the `timeout`
  command, which counts wall time, and of the restart. Nothing is assumed of the
  profiler, which may never get ready, nor of the workload, which may hang.
- `CopyVerify`, `Testcases` and `Statistics` have no liveness property and no
  fairness: each is one thread without waits.

No strong fairness is used, and nothing assumes a scheduler between ranks.

## Proofs

For every value of the constants that satisfies the named assumptions of the module:

| Theorem | Property | Assumes besides |
|---|---|---|
| `MemcpyCoreProofs` `TypeCorrect` | `TypeOK` | |
| `VerificationIsQuiet` | `NoTrafficDuringVerification` | |
| `ResetIsSafe` | `ResetOnlyWhenNobodySpins` | `~AsyncReset` |
| `ReleaseStartsTheCopies` | `NoCopyBeforeRelease` | `~AsyncReset`, `~MayTimeOut` |
| `BlockerImplementsGate` | `ImplementsGate` (refinement of `StreamGate`) | the same |
| `MemcpyEventProofs` `CopiesStartTogether` | `StartTogether` | |
| `TotalSpansTheCopies` | `TotalCoversEveryCopy` | |
| `OverheadExcluded` | `EnqueueOverheadExcluded` | the same two |
| `CopyVerifyProofs` `StoresInside` | `StoresStayInside` | |
| `ReportsWhatIsVerified` | `ReportedIsVerified` | |
| `PassedIsDelivered` | `PassedMeansDelivered` | |
| `WholeMiBPasses` | `WholeMiBNeverFails` | |
| `TestcasesProofs` `LeaksAreThrown` | `OnlyThrowsLeak` | |
| `CopiesReach` | `CopiesReachTheirMemory` | |
| `MatricesKeepTheirPromise` | `MatrixKeepsItsPromise` (of `Testcases`) | |
| `TestPairsProofs` `PairsTypeCorrect` | `TypeOK` | |
| `RanksReturnTheSame` | `RanksAgree` | |
| `ExactlyTheTarget` | `TargetIsMet` | |
| `SamplesSpread` | `CoverageGrows` | |
| `MultinodeBuffersProofs` `NoLeaks` | `NothingLeaks` | |
| `CallsMatch` | `CollectivesMatch` | `Together` |
| `MemoryOutlives` | `MemoryOutlivesItsUse` | `Together` |
| `MapsReady` | `MapsWhatIsReady` | `Together` |
| `MatrixKeeps` | `MatrixKeepsItsPromise` | `Together`, `EvenBisections` |
| `RunnerProofs` `RunnerTypeCorrect` | `TypeOK` (of `Runner`, in no run) | |
| `ResultsAreFiledRight` | `ResultsGoToTheirTest` | |
| `GpusAreConsecutive` | `ConsecutiveGpus` | |
| `CallsAgree` | `CollectivesAgree` | `ByName` |
| `TestsAreReported` | `EveryTestReported` | |
| `SweepProofs` `ProfilersAreReaped` | `NoProfilerSurvives` | |
| `SuccessIsComplete` | `SuccessMeansAllDone` | |

`AsyncReset` and `MayTimeOut` belong to the driver; the properties that exclude them
are false with them, as a spin kernel that gives up after 10 s passes a closed gate.
`Together` says that a round throws on every rank or on none, and `ByName` that no
testcase is asked for by its index. Both are conditions on a job that the code does
not establish, and both are needed: `buffers_throw` and `runner_index` show what
happens without them. They stand inside the box (`Spec => [](Together => ...)`), so
the theorems speak of every job of the same specification that the runs check.
`EvenBisections` says that a job with the bisection has an even number of ranks; the
code does not ask for it, and on three ranks `MatrixKeepsItsPromise` is false (see
below).

*MemcpyCoreProofs.* `IInv` is the inductive invariant. `BarrierInv` (nobody has left a
collective call that somebody has not entered) is the heart: by it two ranks are never
further apart than one barrier, which `Aligned` turns into "while one rank is in the
window between the two barriers, the other one is in the same sample". `StreamInv`
says what a stream holds at each place of its host: empty before the window, full
after the release, drained after it. Together they give `VerificationIsQuiet`: a rank
that verifies has left the second barrier, so all others have entered it, so their
streams were drained. `SampleInv` and `LandingInv` bound the counters. None of the
properties is inductive alone: a state in which a rank verifies while another one is a
sample behind satisfies the property but not its next state.

`ReleaseInv` adds the latches. `LatchInv`: the first rank's latch is down until it
releases, and an up device latch means that every rank in the window has been released
in *this* sample. `PassedInv`: a copy past its spin kernel was released in this
sample, and the latch is still up. Uninitialised latches satisfy it because no rank
has begun; the reset at the start of a sample keeps it because, by `Aligned`, no rank
can be in its window while another one resets. The refinement follows action by
action: a release or the second stage is `Open`, a spin kernel's end is `Pass`, the
first reset that finds an open latch is `Close`, the rest stutters.

*MemcpyEventProofs.* A step completes nothing, starts all streams of a rank again, or
completes the next operation of one stream that is `Ready`; the two properties about
events are inductive over these three, given `IInv`. That a rank with copies has a
first one (`Lead`) is the least element of a set of numbers, taken from the library's
well-foundedness of strict inclusion on finite sets, because its induction theorems
for numbers cannot be used.

*TestcasesProofs.* `Catalogue` reads the two tables once and for all: every testcase
has one of the entries of `RowEntry`, `AllRowEntry`, `PairEntry`, `PeerEntry` and
`GatherEntry`, which put what `run()` does beside what `testcase.h` says, and
`Exceptions` says which kinds the testcases of `EqualInterference` and
`SourceContextReads` are of; all else is proved for the kinds of entries. `IInv` is
the inductive invariant of a command line. `VectorsInv` says which pairs of buffers
the loops have prepared; for the testcases that gather peers it is `Gathered`: a pair
for every accessible peer behind the inner loop, none for anything else, and both
directions of access enabled for each. `LiveInv` says that a live buffer is `Held` by
the testcase that runs, which has yet to free it, or `Leaked` by one that threw;
`OnlyThrowsLeak` alone says nothing of a testcase that runs, and so nothing of the
state after it. `CellsInv` says that the filled cells are those of the promised ones
that are `Behind` the loops, and that each keeps its promise, which for a new cell is
`MeasureKeeps`: what ran is the described traffic and no more, an equality of sets
whose two inclusions are shown one by one. The flows of the interference loops are all
those of the other GPUs because `Other` enumerates them (`OtherIs`), and the flows of
gathered peers are those of all accessible ones by `Gathered`.

*TestPairsProofs.* `PairsInv` = `TypeOK` and three parts. `ProgressInv`: the place of
a rank in its first call determines the collective calls it has entered, and nobody
passes the barrier before rank 0 has selected. `SelectionInv`: at each stage of the
selection its size and how many GPUs it covers; a pair that covers somebody new keeps
coverage ahead of size (`NewPairSpreads`), and all pairs are `WorldSize * (WorldSize -
1)` (`AllPairs`). `KeptInv`: who has been through the first call has kept what rank 0
sent. From it also follows that the statics answer every later call (`StaticsAnswer`),
without which the invariant would not survive a second call.

*CopyVerifyProofs.* First arithmetic: quotients and remainders, and that the elements
which the threads of a grid touch, striding or in rows, are an interval from 0
(`StridingAll`, `MulticastAll`, `WordsAll`, `RowsOfReads`). `Covers` follows for each
kernel: the words it touches are those below some bound, which is at most what it
claims, and all of it when blocks divide it. Then `CopyInv`, which is `BuffersInv`
(the sizes in the state are those of the operation) and `SampleInv`: at each place of
a sample, which of the compared words hold the pattern of the source, as a function of
which have `moved`. `PassedMeansDelivered` alone is not inductive, since it says
nothing of a copy before its comparison.

*MultinodeBuffersProofs.* The rounds are computed from a table of testcases, so the
first lemmas say of every one of them that it is well formed (`GoodRound`: every
buffer is destroyed, every copy has a shared buffer, and one that is not shared
belongs to the rank that executes). A step of a rank is a function of its own local
state; `MappedInv` says that what a rank has mapped is a function of where it is,
which yields `NothingLeaks` whoever throws. The properties of several ranks come from
`WalkInv`: there is one finite path of local states (`Path`) such that every rank is
at one of its states, and no rank has passed a collective call that another one has
not reached (`Walking`). The path exists because of `Together`, and it is extended by
the rank in front. Two ranks at the same call have entered the same sequence of calls,
hence `CollectivesMatch`; while one measures, the others are between the barriers
around it, hence `MemoryOutlivesItsUse`; a rank that maps a buffer has passed the
broadcast that the owner entered with the exported handle, hence `MapsWhatIsReady`.

For `MatrixKeepsItsPromise` the path carries data. `DataInv` adds to it what every
rank has sent in the calls that collect results, one entry for each such state behind
it, and that a rank which is past such a call has heard from all whose answer the call
needs (`Sends`). So what a rank takes is what the round's calls stand for
(`TakesValues`): the sum over all ranks, the value of the first executor, or for a
vector the copies one by one, where the sender's counter `current_local_elem` runs
over its own copies in the order in which everybody asks (`Turn`). `FilledInv` says
that the cells of a rank are those of the rounds behind it, each with these values.
What remains is about the table of testcases alone: the values of a round are the
copies that the description names, on the ranks it names (`RoundKeeps`).

*RunnerProofs.* `ReportInv` adds to `ResultsGoToTheirTest` that the last entry of the
report is the one of the testcase that rank 0 runs, which makes "write into the last
entry" right. `FiledInv`, for `EveryTestReported`, says that the ids behind rank 0
have the final entries of the report, in order, by an explicit enumeration of these
entries that each final status extends. `ConsecutiveGpus` is a counting argument: the
local ranks of a host are different numbers below the number of its ranks, so they are
all of them. `CollectivesAgree` needs to compare lists that differ: a rank is at a
*place*, a position in what all ranks' lists share, before which rank 0 has its own
testcases. `Itinerary` shows for names, prefixes and "all" alike that the testcases of
a rank lie at growing places, and that every call lies at one of them. `InStep` is the
inductive part: ranks that have entered as many calls have passed the same ones, and a
rank is ahead of another by one call at most, the next one of the other; it holds
because nobody goes on while somebody is behind (`NoneBehind`).

*SweepProofs.* `ProfilerInv`: a profiler runs only at the places of its collector.
`DoneInv`: in a sweep that has not failed every case is done or still on the list,
unless the list was read from a torn file; and the loop count is written only for a
case that is done.

*Only model-checked.* All liveness (`EveryRankFinishes`, `EveryCallReturns`,
`EveryRankEnds`, `EverySweepEnds`): the installed provers cannot do liveness under
fairness. `Statistics` computes its numbers by folds, and the chases of
`ChaseFollowsTheChain` are recursive functions: what these yield for every input needs
induction over data.

## Where code and documents disagree

Three are runs that end in a violation, and findings in `PROJECT.json`:

1. `copy_tail`. kernels.cu says that small copies are rounded to the element width;
   their grid is truncated to full blocks, and the rest is reported but not copied.
   Verification fails for such sizes unless it is skipped.
2. `buffers_throw`. The destructors say their barrier makes "sure that everyone is
   done using the memory". When one rank throws, that barrier meets another one's
   barrier inside the copy loop.
3. `runner_index`. README.md takes testcases "by name or index". Rank 0's list starts
   with the testcases of a single process, which the other ranks do not have, so that
   an index names another testcase there; their collective calls wait for a rank 0
   that is on its way to `MPI_Finalize`.

Met while reading and modelling, without a run of their own.

Measurement:

- README.md says the spin kernel excludes the overhead of enqueueing. With several
  ranks only the first one's queueing is excluded; another rank may be measured while
  it still queues (`EnqueueOverheadExcluded` is about the first rank alone).
- With a late reset of the device latch and no timeout, or with a launch queue that
  fills before the release, `MemcpyCore` deadlocks: the timeout of the spin kernel is
  what gets the program going again.
- `memset` and `memcmp` kernels index with 32 bits and so does `numUint4` of the
  copies: buffers of 16 GiB and more are out of their reach. The pattern repeats every
  2 MiB, so a copy that is off by as much is not seen.
- `hostReadKernel` is written for a parallelism of up to 32 while the default
  `hostReadParallelism` is 256; no testcase uses `MemcpyInitiatorSMHostRead`.
- `--testSamples 0` is accepted; mean and median of no samples are not a number and 0.
- The condition of a verbose line is always true (`|| BandwidthValue::TOTAL_BW`,
  memcpy.cpp:582).
- `smCount` is that of device 0 for every GPU, and `latencyMemAccessCnt / smCount` is
  truncated while the time is divided by the whole count.

Testcases:

- The SM testcases that read from many peers run their copies in the context of the
  source (testcases_sm.cpp:365, :383), while testcase.h:427 and :451 call them reads.
  `MatrixKeepsItsPromise` says of these two (`SourceContextReads`) that the source
  launches.
- "Double the size of the interference copy to ensure it interferes correctly"
  (testcases_ce.cpp:153, :190) stands over `src2(size)` and `peer2(size)`, as large as
  the measured copy; so it does at multinode_testcases.cpp:79 and :111. The
  host-to-device testcases and the all-host helpers do double it (testcases_ce.cpp:59,
  testcase.cpp:234). The interference of the two all-host bidirectional SM testcases
  is not doubled either (testcases_sm.cpp:291, :334), though that of their CE twins
  is. In all of these the interference may end before the measured copy. The four
  testcases of a single process are `EqualInterference`.
- The bidirectional device-to-device CE testcases run the opposite copy "but not
  measured" (testcase.h:147, :159, and :484, :496 of multinode). It is measured: they
  print its bandwidth as a matrix of its own and, added to the other one, as a third.
- In the bidirectional write the copy from peer to row comes first, launched by the
  peer, with the comment of the read above it ("swap src and peer nodes"): `_write1`
  is the opposite copy, and the described one, from the target to the peer, is
  `_write2` (testcases_ce.cpp:203). testcase.h does not say which is which;
  `Described` does.
- testcase.h describes the bidirectional device-to-device SM testcases as measuring
  both directions; they print each direction beside the sum.
- A split-warp kernel copies half of its buffer in each direction, and the testcases
  built on it print half of its bandwidth for one direction, an estimate that is right
  if both are equally fast. `Readings` allows that number to stand for either.
- `multinode_bisect_write_ce`: testcase.h:600 says that A writes to (A + N/2) mod N;
  the operation is called with destination and source exchanged, so that the peer
  writes to A. For an even number of ranks the set of copies is the same. `filter`
  admits an odd number too: there the copies reported are not those described, and TLC
  finds `MatrixKeepsItsPromise` violated on three ranks.
- The SM device-to-host bidirectional testcase measures the same call as its
  counterpart; the arrows of device-to-device labels point the other way than those of
  host and device.
- `enablePeerAcess` asks for one direction and enables both. The events of a latency
  chase are created before its context is made current, and its stream is not
  destroyed.
- An exception in a helper that holds buffers by plain pointers loses them
  (`OnlyThrowsLeak`); the multinode all-to-one and all-from-one SM testcases skip the
  barriers of their destructors as well. `NodeHelper` has no virtual destructor: every
  multinode testcase leaves its latch allocation mapped.
- README.md promises that sampling covers every GPU; with fewer than `WorldSize - 1`
  pairs that may be impossible or missed. It also mentions a warning for
  `--targetNumPairs` in single-node builds, which the code lacks.

Driver and output:

- "Each process is allocated a dedicated GPU": not with `--json`, where `localDevice`
  is never set (json_output.cpp:175 against output.cpp:103). `ConsecutiveGpus` is
  about text output.
- "While any testcase will succeed" under MPI: not those whose prefix matches nothing
  on the other ranks, which return from `main` and end the job.
- A build without MPI starts with `worldSize` 0, so its JSON document lists no
  devices.
- `JsonOutput::setTestcaseStatusAndAddIfNeeded` looks for `testcases` beside the
  object that holds it, so an error always adds an entry and "Running" stays
  (`output.h` promises an update). `EveryTestReported` is stated so that it holds
  nevertheless: one *final* entry.
- The bidirectional testcases append three matrices to one JSON entry and overwrite
  its sum and description. JSON shows a measured 0 as "N/A"; the minimum of the text
  output counts "N/A" as 0. `SummaryIsOfTheMatrix` compares each output with its own
  reading.
- `preloadKernels` loads kernels on the rank's own GPU only in a build with MPI.
- `--useHugePages` on a system without them warns and goes on with the option set.
- `getFirstEnabledCPU` reads a mask that nobody filled; it is always 0.

Sweeps:

- `json_expand_cases` and `json_set_case_loop_count` rewrite the case file in place. A
  crash between open and dump leaves it empty, and the next sweep runs no case and
  exits with 0. `SuccessMeansAllDone` excepts a torn file.
- The driver for Intel keeps no list of loop counts. With `maxAttempts` 0, the value
  in sweep_cases.json, opposing advice alternates for ever; `EverySweepEnds` asks for
  a limit there. It also grows the loop count after a workload that failed.
- The last four counts of the AMD driver do not see a cycle of five (growFactor 3 and
  shrinkFactor 2: 9, 4, 12, 6, 18, 9). A guard that fails at the lower limit gives no
  advice, and `run_case` grows.
- A crash between an accepted result and the rewriting of the file loses the loop
  count that was found.
- The start marker kills a profiler that has not installed its handler yet; the delay
  of 200 ms is a guess. A workload that throws before it leaves the profiler waiting,
  for ever with a timeout of 0 (unless the outer `timeout` ends it). Only
  `host_device_bandwidth_sm` sends markers.
- The Intel collector stops its profilers on INT and TERM only, not when a command
  fails under `set -e`, and `stop_collectors` sets its once-flag before it is through.
- A workload that ignores the TERM of its timeout ends with 137. The Intel guard takes
  only 124 for a timeout, so it fails the attempt without advice, and `run_case`
  doubles the loop count of a run that was too long.

## What is not modelled

- Integer width of the copy sizes: `numUint4` is an `int`; the instances would need
  other bounds. (The product of size, loop count and 10^6 wraps in `Statistics`.)
- Floating point: times and bandwidths are whole numbers, and rounding is exact.
- Loss of buffers held by plain pointers when a *multinode* testcase throws: the rank
  is out of step for good, and nothing of interest follows.
- Lazy loading of kernels, and with it what `preloadKernels` is for.
- What MPI does with mismatched calls: they never return here.
- An assertion that fires in the middle of an operation. `MPI_Abort` ends the job
  (`Runner` has it for the device list), so nothing is left to interleave.
- Memory models: a store to a latch is seen at once, except for `AsyncReset`.
- The launcher is Open MPI, which sets the local rank; without it `localRank` is the
  rank.
- The collectors that no sweep driver uses (EMON, perf, topdown): start, wait, stop.
  The Intel collector starts several profilers that are alike; the model has one.
- Expansion of buffers and tunes in the case file, and the summary files: text to
  text.
- The components marked `not_modelled` in `PROJECT.json`: plain sweeps,
  relaxed-ordering scripts and post-processing have no state that two steps share; the
  JSON library is third-party.

## What is left

In order of worth:

1. Signals from outside to the collectors of `Sweep`, with their traps.
2. A variant of `CopyVerify` with 32-bit sizes, for buffers of 16 GiB and more.
3. What `EverySweepEnds` and `EveryRankFinishes` rest on as safety theorems: a measure
   that every step of a sweep, or of a sample, lowers.
