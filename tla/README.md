# AutoStream in TLA+

AutoStream has two halves that meet only in files:

* a C++ factor engine (`src/base/hf-open5m-factor-demo/app_factor`), which
  replays one day of market records through calculation threads and writes the
  factor values of every send time to HDF5; the factors it calls
  (`src/base/hf-open5m-factor-demo/factors`) rebuild orders from the records;
* Python programs (`src/campaigns`), which freeze a plan of such runs, hand it, job
  by job, to a Slurm cluster, and lead a round of research from one stage to the next.

The modules in this directory model the concurrent core of the first half, the data
it is given and the order builder of its factors, and the programs of the second
half that go on after a crash. `PROJECT.json` lists components, runs, mutants, the
source lines of every definition, hazards, findings and theorems.

Below, `A` is `src/base/hf-open5m-factor-demo/app_factor`, `F` is
`src/base/hf-open5m-factor-demo/factors` and `P` is `src/campaigns`.

## 1. Inventory

| component | state | operations | interacts with |
|---|---|---|---|
| result queue, `A/comm/velapex/spsc_queue.h` | `head_`, `tail_`, ring | Push, Pop, PushBulk, PopBulk | one per calculation thread; the thread pushes, the scan thread pops |
| broadcast buffer, `spmc_broadcast_buffer_recyclable.h` | list of blocks, write position, one token per consumer, a count per block | RegisterConsumer, GetWriteSlot/CommitWrite, TryRead | main thread to every cross-sectional thread |
| memory pool, `fast_soa_memory_pool.h` | list of blocks, `used_count`, `in_use_count`, per element `in_use_` and `remaining_uses_` | Allocate, Release, RecycleBlocks | main thread allocates a record, each thread it was sent to releases it |
| factor engine, `A/engine` | time point indices, queues, stop flags | OnQuote/OnTrans/OnOrder, OnTimer, Stop, save | everything above |
| calculation threads, `A/thread` | records consumed, last values | CalcFunc | read a queue or the buffer, write `result_cache_`, push to a result queue |
| scan thread, `A/thread/factor_result_scan_thread.h` | `counters_`, `result_data_` | ScanFunc, CollectAndSend, SendData | pops every result queue |
| work assignment, in the engine | groups of codes, row offsets | AssignWorkLoads, AssignThreadMapping | decides who writes which row |
| time points of the day, `A/config`, `datetime_utils.h`, InitConfig | four lists | ParseTimesInfo, stepping, merging | what OnTimer follows all day |
| data loader and merge, `A/data`, `A/comm/raw_data_reader` | channels, loser tree | LoadRawData, load_quote_c, pop_tick, DistributeData | feeds the engine, in the only order a factor sees |
| order synthesis, `F/demofw00/tools/market` | one state per mother order, waiting trades, a heap of deadlines, the watermark | OnOrder, OnTrans, AdvanceWatermark, FlushAtClose | called by the factors of a calculation thread and by a replay tool |
| factor entries and factors, `F` | per stock | AddQuote/AddTrans/AddOrder, UpdateFactors | called by calculation threads |
| L4 production, `P/l4_production.py` | plan (frozen), receipt, lock; files per date | submit_plan, run_chunk | files, `mybatch`, `squeue`, `sacct`, the factor binary |
| preflight submission, `P/l4_release.py` | receipt, lock | submit_preflight_plan | the same |
| holdout display, `P/sfm_stream_002/holdout.py` | receipt, files per date; no lock | submit, run_chunk, finish | `mybatch`, the factor binary |
| research round controllers, `P/research_harness.py`, `agent_harness.py`, `round_pipeline.py` | a receipt per stage, artifacts; no lock | start, run | runners: agents and the programs above |
| configuration parser, readers of market data, routing policy, SDP handler, tables and logging, evaluations, contracts, ledgers, batches and manifests | - | - | input, output, data (section 7) |

What is hard here, and what correctness means:

* **Lock-free hand-over.** Three structures pass data between threads with
  atomics only. None may overwrite or hand out again what another thread still
  reads; each must deliver everything once and in order; each must reuse memory
  instead of growing.
* **Look-ahead.** The main thread runs ahead of the calculation threads. A value
  sent at a time point may depend on exactly the records before that point.
* **Assembling batches without locks.** The scan thread copies rows other threads
  wrote, on the strength of a count of notices.
* **Rows and labels.** Rows are kept in one growing list and labelled at save
  time by walking it in step with the send points.
* **Stopping.** Five kinds of threads wait for each other.
* **What the day looks like.** Times are numbers whose digits are HHMMSSmmm, in one of
  two units told apart by their size; four lists made of them must agree.
* **Reconstruction.** Shanghai does not announce what is filled on arrival, and its
  records overtake each other. The builder must wait long enough to be right, and must
  forget nobody for whom it waits.
* **Submitting once.** The cluster, the receipt on disk and the process fail
  independently; no chunk may run twice or be forgotten, and no file that is in its
  place may be replaced.
* **Going on without a lock.** The controllers of a round and the holdout display take
  no lock: what still holds when two of them overlap, and what only holds when not?

`PROJECT.json` lists the hazards at their lines with the properties that cover them.
One has none: a record that is later than the time to live may confirm a closed order
again (`order_synthesizer.cpp:48`). The code counts such records, and the feed of the
model has none, as `ORDER_BUILDER_V2.md` measures.

## 2. Modules

| module | models | code |
|---|---|---|
| `BoundedFifo` | abstract: a bounded first-in first-out list | what Push and Pop promise |
| `SpscQueue` | Push and Pop, each atomic access a step | `spsc_queue.h` |
| `SpscQueueBulk` | adds PushBulk and PopBulk | the same |
| `SpscQueueProofs` | theorems about `SpscQueue`, and that it implements `BoundedFifo` | |
| `BroadcastLog` | abstract: one growing list, read once and in order by each consumer | class comment |
| `BroadcastBuffer` | the block list, its recycling, the tokens | `spmc_broadcast_buffer_recyclable.h` |
| `BroadcastBufferProofs` | theorems about `BroadcastBuffer` | |
| `MemoryPool` | Allocate, Release, recycling | `fast_soa_memory_pool.h` |
| `MemoryPoolRecycle` | adds RecycleBlocks | the same |
| `MemoryPoolProofs` | theorems about both | |
| `BatchStream` | abstract: batches triggered, recorded in that order, none missing at the end | the engine's promise |
| `FactorEngine`, `MCFactorEngine` | main thread, calculation threads, scan thread, stop, save | `A/engine`, `A/thread` |
| `FactorEngineProofs` | theorems about `FactorEngine`, and that it implements `BatchStream` | |
| `WorkAssignment` | division of codes into groups, row offsets | `A/engine` |
| `TimeGrid` | the configured times, their unit, the stepping, the merged lists | `config_parser.cc`, `datetime_utils.h`, InitConfig |
| `LoaderMerge` | channels and loser tree | `data_loader.cc`, `merge_sort.cc` |
| `EngineInput`, `MCEngineInput` | the three before in one specification | |
| `EngineInputProofs` | theorems about the three and about `EngineInput` | |
| `OrderSynthesizer` | the builder, one action per public method | `order_synthesizer.cpp` |
| `OrderFeed` | the exchange, the feed and the program around the builder | `F/market_microstructure/factor_entry.cpp`; the exchange is external |
| `OrderFeedProofs` | theorems about `OrderFeed` | |
| `SlurmSubmission` | what both submitters share: lock, receipt, crashes, cluster | `l4_production.py` |
| `L4Submission` | submit_plan | `l4_production.py` |
| `FactorFile` | how the binary saves a date: temporary file, close, rename | the save functions of the engine |
| `L4Production` | the jobs of a plan on the cluster, on top of `L4Submission` | `run_chunk` |
| `L4ProductionProofs` | theorems about `L4Submission` and `L4Production` | |
| `PreflightSubmission` | submit_preflight_plan | `l4_release.py` |
| `ResearchRound` | the three controllers | `research_harness.py`, `agent_harness.py`, `round_pipeline.py` |
| `HoldoutDisplay` | submit, its jobs, and when finish reads | `holdout.py` |
| `Campaign` | `PreflightSubmission`, `ResearchRound` and `HoldoutDisplay` in one specification | |
| `CampaignProofs` | theorems about the three and about `Campaign` | |

An operator commented "Bug to detect" (`IsFullUnmasked`, `RetryUnasked`, ...) is a
variant of the definition after it that no specification uses. Exchanging the two must
make the property named in `PROJECT.json` fail; it shows that the property depends on
that line of the code.

`EngineInput` and `Campaign` put parts side by side that share no state. An exploration
picks one part at the start and leaves the others as they are, which loses no behaviour
of any part: a property of one never reads another.

### How state and steps correspond to the code

*Atomicity.* In the three lock-free structures every access to memory another
thread can touch is a step of its own, and what one thread does between two such
accesses is merged. The order of the steps is program order. The code uses
relaxed operations in places (`Release` counts with `memory_order_relaxed`); the
models take them to happen in program order. The platform the build files name
is x86-64, where loads are not moved after later stores or
read-modify-writes; what a compiler may do to relaxed atomics is outside the
models.

*Data.* An item is represented by its number in the order of pushing, so that
loss, repetition and reordering are visible. A factor value is represented by
the number of records its thread had consumed when it was computed. A file is
represented by the job that wrote it, and whether it is open, whole or invalid.

*Registration.* `BroadcastBuffer` lets consumers register between pushes, as long
as every one has done so before the first block is recycled or added: the code
caches the number of consumers there and says so. The engine registers its threads
before it starts.

*Engine.* `FactorEngine` uses the queues at the level of what they promise: a
result queue is a sequence of at most `ResultRoom` notices (`BoundedFifo`, shown
for `SpscQueue`), a thread's input a sequence of items (`BroadcastLog`, shown for
`BroadcastBuffer`; the time-series threads use a third-party queue, taken to be
first-in first-out). `OnQuote`, `OnTrans` and `OnOrder` differ only in the type
of record: one action, `Arrive`, then `EmitTimePoint` for every turn of the loop
in `OnTimer`, then `DispatchRecord`. Records come in any order of times: the code
makes no check, so the model makes no assumption. A thread handles one item
in the steps Take, WriteRows and Notify, because the scan thread can look
between them. `SaveBatch` and `FinishSave` cover both save functions
(`SplitFiles`), with files that cannot be created, closed or committed.

*Input of the engine.* `TimeGrid` computes with the digits of a time, as the code does;
`GridExact` compares the result with a definition in milliseconds since midnight. It says
so of grids whose start and end are times of a day (`OfTheDay`: minutes and seconds below 60,
not after 24:00); the code does not look at the digits, and what a start of 09:75 means nobody
says. The faults
of the code (a division by zero, a list that goes backward and asks for a negative room)
are outcomes of the model. `LoaderMerge` builds and plays the tree of the code and keeps
what was delivered as history. A channel without records is left out: the code reads
the first record of it all the same, from memory that is not there.

*Orders.* `OrderSynthesizer` keeps the state of an order, the tokens of waiting trades,
the heap of deadlines as the set of its entries, and the events of one call. `OrderFeed`
gives it an exchange to be compared with: orders arrive, match and are withdrawn; every
fact becomes a record that is delivered in any order the feed allows (a Shanghai record
at most `Lag` behind the global clock, `Lag < Ttl`; a Shenzhen order before what names
it). The exchange acts first and the records travel afterwards: the builder cannot
influence the exchange, and a record that is delivered before the exchange goes on is
one that travelled fast, so no order of deliveries is lost. `OnGlobalTime(t)` is given the
time `t` of the record that brought the time point, as the engine gives it, and flushes
when that is past the close. The orders of the feed end more than `Lag` before the close: the
closing auction is not modelled.

*Submission.* A step ends where the receipt reaches the disk or the cluster is
asked. A crash is possible at every step. A `mybatch` whose submitter died, or got an
error, may still be accepted later (`LetGo`). Job ids are positions in the list of accepted
jobs. A name is the number of a chunk or of a place in the chain: the rest of it, the
submission id of a plan or the release id and the kind of a preflight job, is the same in
every run of the program. Hashes
and provenance compared before anything is written are left out: they decide
whether the program starts, not what it does.

*Cluster.* In `L4Production` and `HoldoutDisplay` the jobs begin to run when the
submission is over. The submission never looks at how far a job is, so a job that starts
later is one that stayed in the queue. A job may die at every step, also between the
close of the temporary file and the rename; the binary may write a file that fails the
validation of `run_chunk`.

*Rounds.* One action per effect of a controller on the disk: it reads the receipts
(`Begin`), starts a stage (`RunStage`), the runner returns, the artifact is written, the
receipt is written. `overlap` is history: two controllers ran at the same time. A
runner's result is a new number each time.

## 3. Runs

All are in `PROJECT.json`; `CHECK_DEADLOCK FALSE` stands in every cfg because each
system really ends: explorations are bounded by the number of items or records,
the engine ends with a saved file, a plan is submitted once, a day has a close.

| run | shows | bounds |
|---|---|---|
| `spsc_queue` | the inductive invariant of the ring, no overwrite, refinement of `BoundedFifo`, all items arrive | 4 slots, indices wrap at 8, 11 pushes: the ring is lapped twice and the indices wrap once |
| `spsc_mixed` (violation) | finding 1 | 2 slots, indices wrap at 8, 4 pushes, bulks of up to 2 |
| `broadcast` | no overwrite, no stranded consumer, growth only when needed, refinement of `BroadcastLog`, every consumer gets to the end | 2 consumers, 2 blocks of 2 at first, 9 pushes: blocks are created, recycled and recycled again |
| `memory_pool` | records stable while held, counters agree, growth only when full, all returned | 2 consumers, 2 reserved blocks of 2, 6 allocations: blocks are used again and created; with and without calls of RecycleBlocks |
| `factor_engine` | snapshot, kept batches, saved rows, refinement of `BatchStream` | 2 threads, 3 send points, a compute point that is not a send point, a global point, result queues of one item, 3 records with times 0..4 |
| `factor_engine_skip` | sends with skipping and one file; Stop returns | 3 threads, 2 send points, 2 records with times 0..2, result queues of one item |
| `engine_input` | rows agree with the division of codes; the time points are what the configuration means; the merge delivers everything, the least first | up to 11 codes, 7 threads and 3 cross-sectional factors; some 240 grids in both units, over the minute, the hour and the session, with added and skipped times, intervals of 0 and ends before the start; 1 and 2 assets of three channels each, up to 6 records with local and exchange times 0..1 |
| `order_feed` | events, pairs of trades and conservation are those of the exchange; the heap and the waiting trades stay consistent | 3 orders of up to 2 shares, 1 cancel, both markets, trades with and without the aggressor flag, `Ttl` 2, `Lag` 1, close at 4, last time point 3, then the flush of the replay |
| `order_session_end` (violation) | finding 3 | 2 orders of 1 share, 1 cancel, no replay |
| `l4_production` | once per chunk, truthful and resumable receipt, nothing forgotten; lanes complete, no file replaced | 2 submitters (interchangeable, so the run uses their symmetry), 3 chunks of 2 dates in 2 lanes, 1 crash, 1 failed call or query, up to 4 jobs followed on the cluster, 1 job that dies or file that is invalid or not ours |
| `campaign` | the submission of the chain; the stages, evidence and receipts of a round; which files finish of the holdout display may read | 2 submitters, 3 jobs, 2 crashes, 1 failure; 2 controllers, 4 stages with selection 2 and holdout 3, 6 results; 3 chunks of one date in 2 lanes, 2 runs of submit, 1 job that dies or file that is not whole |
| `preflight_command_line` (violation) | finding 2 | 1 submitter, 2 jobs, 1 crash, no recovery function |

Why these bounds suffice: the ring's algorithm depends on indices only through
their residues, and the proofs of section 5 remove the bound altogether. A block
of two has a first and a last slot, which are the only places the code
distinguishes; two consumers are needed for one to be behind the other, and a
third would only be another one behind. Three send points give a
first, a skipped and a last one; two threads of different kind are needed to
finish a batch in different orders. A stepped time can go wrong where a digit group
carries, and the grids cross each of them. The tree of three channels has a lone leaf, that of six
has two levels. Three orders make an order that is taker, maker and withdrawn at once;
quantity 2 is the least with a partial fill. Three chunks in two lanes have a chunk with
a dependency and one without; with two submitters and one crash, one overtakes the
other's orphaned call. The receipts' properties are proved for any number (section 5).

What a bound excludes: `DisplayFromWhole` speaks of at most two jobs per chunk, and its
statement says so. With two, a job of an abandoned submit may rename an invalid file over one
that was validated while finish reads: it looked for the file before there was one. The
property says that this is all that can happen to the file: it is closed, and the job that spoiled it
is one finish does not wait for. With three overlapping submissions the third job may put
there a file that is still being written; exploring `HoldoutDisplay` with `MaxSubmits` 3 and
without that condition shows it. What finish then makes of such a file is not modelled
(`convert_hdf5` compares counts of rows and factors). `MaxJobs` of `l4_production` leaves out submissions that
gave the cluster more than one job beyond the plan. `order_feed`
says nothing of records later than the time to live. Bulk operations of the queue
are explored only in `spsc_mixed`, up to the first state that violates its property.

## 4. Fairness

* The calculation threads and the scan thread run loops without
  blocking calls, so weak fairness of the steps of each is what the operating
  system's scheduler gives. No strong fairness is used.
* `BroadcastBuffer`: the producer pushes as long as there are items, every consumer
  registers and polls. `MemoryPoolRecycle`: the main thread allocates, and each
  thread releases what it was handed, as CalcFunc does after every record.
* `FactorEngine` assumes nothing of the feed except that it ends: `FeedEnds` is
  always possible when a record could come, and the number of records is bounded.
* `OrderFeed`: time passes, every record on its way is delivered in the end and
  the program goes on to its next time point; orders and cancels need not come.
  Without that the session would not have to reach its close, and finding 3 would say
  nothing.
* The programs of the campaign have no liveness property: a crash, a refused call and a
  job that dies may each be the last thing that happens, and a person starts them again.

## 5. Proofs

Theorems hold for every value of the constants that satisfies the named assumptions.
Each is proved from an inductive invariant, which the initial states
satisfy and every step keeps; the run of the same component checks the property, and for
the queue the invariant, on one instance.

`SpscQueueProofs` proves, for every capacity of at least 2, every index width that
is a multiple of it (`SizeAssumption`; the code has a power of two and the width of
`size_t`) and any number of pushes: `RingInvariant` (`Spec => []RingInv`), `TypeCorrect`,
`Fifo_Order` and `No_Overwrite`.
That items come out in order is not inductive: it says nothing of the slots. `RingInv` adds that
the free-running indices are at most `Capacity - 1` apart modulo the width
(`InFlight`, which also says where the two threads are in Push and Pop), that the
k-th unread item is in the slot k places after the head (`Contents`), and what a
consumer in the middle of Pop holds (`ConsumerHolds`). The arithmetic of the wrap
is in the lemmas: an index and its successor mask to neighbouring slots also where
the index wraps, because the width is a multiple of the capacity (`MaskInc`), and
different places after the head are different slots (`PositionInjective`). Then
each step moves one index by one (`TailAdvance`, `HeadAdvance`).

`Implements_Fifo`, in the same module, is `Spec => ImplementsFifo`. Under `RingInv`
the unread items are a run of consecutive numbers (`WaitingIsRun`), so a publication of
the producer appends the next number, a publication of the consumer takes the first, and
no other step changes the list.

`BroadcastBufferProofs` proves, for every number of consumers, block size, number of
initial blocks and of items (`BufferAssumption`): `Never_Stranded`, `Overwrites_Only_Read`,
`Grows_Only_When_Held` and `Implements_Log`, which is `Spec => ImplementsLog`. The code has no
number for a block's place in the stream, so the proof gives it one: the items are on pages of
`BlockSize`, and `BufferInv` says that there is a page `H` and a map `L` from pages
to blocks such that the list holds the pages from `H` on, in order (`Linked`). With it a
statement about blocks becomes one about numbers. `Writing` and `Reading` say on which page the
producer and each consumer are. `Stored` says that an item is in its place until its page is
recycled, and that what lies where the next items will go has been read by everyone.
`Counting` says that the count of a block is the number of consumers that left its page and
finished counting themselves out. Recycling is then `H + 1` for `H` (`MoveKeeps`), and it is
allowed because a full count means that nobody is on page `H` any more (`HeadCounted`).
That holds only once all have registered, which the model assumes of the engine
(`AllRegistered`, section 2).

`MemoryPoolProofs` proves, for every number of threads, block size, number of
reserved blocks and of records (`PoolAssumption`), and for programs that call
RecycleBlocks at any time and for those that never do: `Stable_While_Held`,
`Counters_Agree` and `Creates_Only_When_Full`. That a held record stays says nothing of the
counters that decide when a block is emptied, so it is not inductive. `PoolInv` adds who may
still touch what: the element being allocated has no holder and no releaser (`Fresh`), the
last to drop an element releases it alone (`Releases`), an element that is held has its
flag up and one beyond `used_count` has not (`Flags`), and the counters of elements
(`UsesAgree`) and blocks (`CountsAgree`). From the last two follows `NothingCounted`: while
nothing is allocated, a block whose count is 0 has no flag up and nobody who is still to count
down. RecycleBlocks also moves a head block that is unused and counts nothing, while
the finished block is further on (`WalkShape`, `NothingUsed`); one lemma, `RotateKeeps`, serves both.
`Creates_Only_When_Full` needs two facts more: a flag that is up has somebody to put it
down (`Served`), and without RecycleBlocks the blocks before the current one are full
(`Filled`).

`EngineInputProofs` proves the four invariants of `EngineInput` (`InputInvariant`: the part that
runs keeps its invariant, and the others have not started).

* The rows (`Input_Rows_Agree`, and `Even_Sizes`: no calculation thread is without a code and
  none has two more than another), for every number of codes, granted threads and factor entries
  (`BoundAssumption` says only that the bounds of the exploration are numbers). `RowsAgree` is not
  inductive: it is silent until offsets are there. `AssignmentInv` says that after n codes each
  group holds the part of its run that is below n, in order (`Runs`), and that an offset
  is the start of its group (`Offsets`). The run of a group is given in closed form by
  `Start`; the division with remainder enters in two lemmas only, `Division` and `GroupHasCode`
  (the group that `GroupOf` computes is the one whose run has the code).
* The merge (`Least_First`, `Delivers_All`), for every number of assets, of records and of times
  (`MergeAssumption`). That the least record comes first says nothing of the tree, so `MergeInv`
  adds that the key of each channel is that of its next record, or the end mark
  (`QueueOk`), and that the tree is `Complete`: every channel is the champion or the loser
  at one node, and the loser at node i loses to some channel under i. From that the champion
  is the least of all (`ChampionLeast`): the least channel is nowhere the loser. While a
  tree is built, the sentinel, which nothing beats, stands for the channels not yet in it; a
  tree some channels of which are missing is `Resting`, and so is a complete tree once its champion
  is taken out. A channel that climbs turns one into the next: `ClimbInv` says, at each node of its
  path, which channels are in the tree, where the climbing one may be, and that the nodes
  behind it are right. `Adjust` is a fold over a path given by a recursive function, and
  `Built` a fold of `Adjust`. That both satisfy their equations is proved first
  (`PathDef`, `AdjustSteps`, `BuildSteps`): tables of the function up to n exist and agree,
  for if not, there would be a least n where they do not (`Least`, from `WFMin`).
* The grid (`Grid_Exact`), for every set of grids of natural numbers, every set of compute points and every
  range of the global points that does not end before it starts (`GridAssumption`; in the code
  these are the constants 9:30:00 and 14:57:01). The digits of a time are unique
  (`DigitsUnique`), so adding milliseconds with carries moves the clock by as much
  (`AddIsLater`), and times with proper digits are in the order of the clock (`ClockOrder`). `GridInv`
  says that the loop is at the n-th point counted on the clock and has listed those before
  (`AtPoint`); when it ends, n is one more than the quotient in `Meant` (`LastPoint`). For
  the last point of the day the recursion of `GlobalPoints` is shown to have a value and to stay
  below its end, by the same argument of a least counterexample.

`FactorEngineProofs` proves, for every number of threads, codes and batches, every
schedule of time points, every order and number of records, and each setting of the
configuration (`EngineAssumption`): `EngineSends` (`SendsAsConfigured`),
`EngineSnapshots` (`SnapshotExact`), `EngineRowsComplete` (`KeptComplete`),
`EngineSavesItsRows` (`SavedRowsMatch`) and `EngineKeepsBatches`, which is
`Spec => ImplementsBatchStream`. A property of the saved file depends on the whole way
of a value, so the invariant `EngineInv` is built in layers, one for each station:

* `MainInv`: a time point has been emitted exactly when a record has reached it, `sendIdx`
  is the first batch no record has reached, and the batches sent are the emitted ones that the
  configuration asks for, in order;
* `LanesInv`: the input of a thread, read from its end, is the tail of what the main thread
  emitted. Each item stands for a number of records and time points the thread has taken
  when it has taken the item, so that what it will compute there is known before it does;
* `WrittenInv`: what is in the cache for a batch is the number of records of that thread
  before the compute point of the batch;
* `StopInv`: who has left, and that an input, or a result queue, was empty when its reader
  left. A flag read too early would break it;
* `BatchInv`: each batch that was sent is, for each thread, in its input, in its hands, in
  its result queue or collected, in this order, and the counter of the scan thread is the
  number of threads collected. Hence a batch is kept when all have written it, the batches are kept
  in the order in which they were sent, and none is missing when all have left;
* `RowsInv`: where the rows of each kept batch begin and end, and which of them the save loop
  has passed. `pos` and the send points move in step because a batch that is not saved,
  or whose save fails, has its rows passed as well.

The vectors of the model are sorted sets of time points; `AscendingVector` says that
`Ascending`, which ranks the elements, is the sorted vector. Finite maxima (`LargestExists`) are found as
minimal counterexamples with `WFMin`, as everything else that needs an induction.

`CampaignProofs` has an invariant for each of the three programs.

* The preflight chain (`PreflightInChain`, `PreflightReceipt`, and `PreflightOnce` where the
  program can ask the cluster for a job). `PreflightInv` says, like `SubmissionInv` below,
  that whoever is at work holds the lock and has the receipt of the disk in memory, where it is in the
  chain, and that each call and job was announced by a record. `ChainOrder` needs no query. One
  job per chunk needs it: the theorem has the hypothesis `CanRecover`, and the run
  `preflight_command_line` shows that without it the property fails (finding 2).
* The rounds, for any number of controllers, stages and results and any
  place of the selection before the holdout (`RoundAssumption`): `RoundInOrder`,
  `RoundEvidence` and `RoundReceiptFinal`. The receipts on disk are a prefix of the stages
  (`ReceiptPrefixes`); a controller in a stage has seen the receipts of all stages before it, and
  the authorization (`Working`). That is all `StagesInOrder` needs, and it holds for
  controllers that overlap. The other two need `Alone`: as long as no two controllers ran at
  the same time, the one that runs knows of every receipt there is and its own stage has
  none; and `Given`: what its runner was given is what the last receipt names.
* The holdout display, for any number of runs of submit, chunks, lanes and dates
  (`DisplayAssumption`): `DisplayWhole`, the display is made from closed files, whole ones unless a
  job of the chunk that finish does not wait for has spoiled one. `DisplayInv` follows a run of
  submit: nothing has started while it submits, and its jobs are the last of the queue, each
  after the one before it in its lane (`Submitting`); finish comes after such a series and waits for the
  last of each lane (`Finishes`); a job that started comes after jobs that succeeded (`Waits`).
  Walking down a lane, by a minimal counterexample, every chunk has succeeded
  before finish reads. What has become of its files by then is `Validated`: each date the job left behind
  `Stands`, that is, it has a whole file, or one that another job of the chunk has `Spoiled` and did
  not get past. This is
  the delicate part: jobs of two runs of submit write under the same names. The temporary name of a date
  belongs to a job which is at that date and has not renamed it (`Temporaries`), so with two jobs of a
  chunk, of which one has validated the date, a rename of the other moves the file it has itself
  closed, whole or invalid; a third job could put an open one there, which is why the
  property speaks of at most two (`Few`).

`CampaignPrograms` says that every behaviour of `Campaign` is one of each program, and
`CampaignSafe` takes the properties to the composition the run explores.

`L4ProductionProofs` proves, for any number of submitters, chunks, lanes, crashes and
failures, `Submitted_Once`, `Receipt_Truthful`, `Receipt_Resumable` and `Never_Forgets`,
the four properties of the receipt that `l4_production` checks. The assumptions are
`SizesAssumption` (a plan has a chunk and 1 to 16 lanes) and `NamesAssumption` (the value
that stands for "no file" is not a receipt, and no submitter is called like an orphan). None of the
four is inductive. `SubmissionInv` adds:

* `Holder`: whoever is at work holds the lock alone, and has in memory what is on disk;
* `Progress`: in the loop all chunks before the current one are submitted, and a chunk that
  was announced is the last record of the receipt, open (`OpenAt`);
* `AllAsked`: every call on its way and every job of the cluster carries the name and the
  dependency of a record of the receipt. This is why the record must be on disk before
  `mybatch` is called, and why a retry, which computes the dependency again, may not get
  another one (`RetriedReceipt`);
* `OneCall`: a submitter has one call at most, for its chunk, and when that is decided
  without a failure it has a job;
* `NotYet`: where a call is to be made or on its way, every job of that chunk that exists
  came from an orphan. It is established by the query that finds no job, and by the name
  not being in the receipt before.

The first half of the module is about receipts alone: what `Announce`, `Confirm` and
`Retry` make of a valid receipt is valid, keeps what was submitted, and names the next chunk.
Then there is one lemma per action, and `Never_Forgets` follows from the same lemmas.

The jobs of the cluster are in the same module, for any number of lanes, chunks and
jobs that die, and up to five dates for each chunk (`CHUNK_SIZE`, in `ProductionAssumption`):
`Lanes_Complete`, `Output_Kept`, and `Production_Submits`, that the submission keeps its
four properties while the jobs run. `ProductionInv` speaks of chunks that were handed over once. By `OnlyJob`
and `PlacesOfChunk` such a job is alone at its dates; so nothing has the final name from the
check to the rename, and the temporary file it closes and renames is its own (`Working`).
Therefore no file is replaced, and all dates it has left behind are whole (`Made`). A job that
left the queue waited for one that succeeded (`Waited`), and the receipt ties it to the job of
the chunk before it in its lane (`JobOfLane`), so that a minimal counterexample down
the lane gives `LaneComplete`. A chunk with a second, orphaned job has none of this, which is
what `HandedOnce` says.

`OrderFeedProofs` proves, for both markets, any number of orders, quantities and cancels,
every interleaving of arrivals, matches and cancels at the exchange and every order of
delivery the feed allows, all five properties of `order_feed`: `Exact`
(`ExactWhenInTime`), `Pairs`, `EventsConserve`, `HeapExact` and `Waiters`. The assumptions (`FeedAssumption`) are
that a record is behind the clock by less than the time to live, that orders end more than
`Lag` before the close, and that the last time point of OnGlobalTime lies before it, as in
`constant_space.h`. A call whose record is stamped past the close flushes; by the second
assumption nothing is then on its way (`FlushKeeps`, `LateTimeKeeps`). An event is right only if everything that was counted before it is
right, so the properties are not inductive. The invariant, `Inv`, keeps accounts:

* `At` says of each order in which of three places it is: waiting (something of it may have been
  counted, and nothing was emitted), live (confirmed, with a rest) or gone (closed, and no
  record of it is left). In the first two, for the immediate fills, the passive fills and the
  cancels separately, what the state has counted plus what is on its way (`Flying`) is what the exchange
  knows. A place is left only with the right events (`IsWaiting`, `IsLive`, `IsOver`);
* `b` is the business number and the time at which an order came to rest, which no
  variable of the exchange keeps: `Inv` says that there is such a `b`. In Shanghai
  the fills before that number are the immediate ones (`Fits`). That is what the
  builder's comparison with the number of the A record relies on, and where no A record
  comes, because the order was filled at once, all fills are immediate;
* a pending order of Shanghai is finalized when the watermark passes its last record by `Ttl`.
  `IsPending` has it that its deadline is not over and its first record not before it came
  to rest; all records of it have the time of that moment or a later one, so when the deadline
  comes nothing with its first time can be on its way (`StageInv`), and the entry is counted or never comes;
* `SlotsInv` ties each slot to the two orders of its trade, and the tokens of an
  order to the slots that wait for it, so that a slot that is given back and used again
  is not woken by an old token; `PairedInv` has each trade on its way, in one slot or paired.

The proof follows the code: a lemma for each way in which a record is handled (`OnOrder`,
`OnTrans` with a trade of two sides, a cancel), one for what it does to the
order, one for the tokens it wakes; then the same for the orders that a watermark
finalizes together. The steps of the exchange all come before the first time point, and there
the invariant says that everything is on its way (`Owed`, `ExchangeStep`). The sums of the
community modules are reached through `Total` and two lemmas, that a finite set has its sums and that one element
more adds its weight.

Every invariant that a passing run checks is stated by a theorem. Only model-checked are
`StopCompletes` and the other liveness properties: the provers handle neither fairness nor
`ENABLED`. The rules for induction take an operator as parameter, which the provers cannot
instantiate; where the proofs need induction they take a least counterexample.

## 6. Findings

1. `spsc_queue.h:152`: Push does not see that a ring filled by PushBulk is full.
   The engine uses only Push and Pop and is not affected.
2. `l4_release.py:442`: the command line submits a preflight chain without the
   function that recovers a job; after a crash at the wrong moment a job runs twice.
3. `constant_space.h:18`: the last time point of OnGlobalTime is 14:57:01, so
   the call of `FlushAtClose` at 15:00 that the factors contain is made only when the record
   that brings this point is itself stamped 15:00 or later. In the ordinary case it is stamped
   between the two, and orders that rest at the close are never closed, contrary to
   `ORDER_BUILDER_V2.md:68`. Only the replay tool always flushes.

Two limits that the models show and no text of the repository contradicts are listed as
hazards: an L4 chunk that died after its first date cannot run again under the
same output root (`l4_production.py:1239`), and the points of OnGlobalTime go backward
when every send point is before 9:30 (`datetime_utils.h:165`).

## 7. Not modelled, and why

* Factor formulas, statistics, evaluations, HDF5 and log output: numerical or plain input
  and output; the properties do not depend on them.
* SDP handler, JSON library, third-party queue: vendored; the queue is used as a
  first-in first-out list.
* The parser of the configuration but for its grids, the readers of market data: parsing and
  conversion of files, whose results are constants of the models.
* Order routing policy and perfect hash map: a predicate on one record, and a map that
  does not change once the engine runs.
* The multi-threaded mode of the memory pool: nothing instantiates it. Clear, destructors and
  statistics of the structures: not called while threads run.
* The closing auction: its orders come after the last time point of `OnGlobalTime`.
* Readiness rows: written, copied and saved beside the values by the same loops.
* build_plan, build_resume_plan, the freezing of a release, manifests, contracts and
  ledgers: pure computations and comparisons of hashes and paths, and files written once.
* classify_slurm_jobs and the transition table of `research_round.py`: only tests call them.

## 8. Plan

Done: the structures between threads, the engine and its input; the order builder; the
programs that submit, run and display; the controllers of a round; proofs of the
invariants of all of them. What is left, in this order:

1. `build_resume_plan`, which makes a second plan for the dates that a first
   one has not delivered, composed with `L4Production`.
2. A feed for `OrderFeed` with records later than the time to live, once the repository
   says what the builder should do with them.
