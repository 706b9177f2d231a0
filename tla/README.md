# SolidAttention: models, checks and proofs

SolidAttention keeps the key/value cache of a language model in blocks that
live on SSD, in DRAM or in VRAM. This directory models how the blocks are
chosen, planned, moved and accounted for, checks the models with TLC on small
instances, and proves some of their properties with TLAPS for every size.
Paths below are those of the repository, without the leading `src/`.

## 1. Inventory

| Part | State it keeps | Operations | Talks to |
|---|---|---|---|
| Block selector, `core/block_selector.py` | the role of each block | `select` | block list |
| Block store, `core/block_store.py`, `kv_block.py` | location, size and tokens of each block | add, upsert, move, list | everything in `core/` |
| Prefetcher, `core/prefetcher.py` | none of its own; the plan it returns | `plan`, `execute`, `evaluate` | store |
| Scheduler, `core/scheduler.py` | none of its own; the ops and clock it returns | `schedule`, `schedule_selection_result` | store |
| SSD layout, `core/movement_plan.py` | range of each block in the backing file | `add_block`, `build_movement_plan` | schedule, blocks |
| Decode drivers, `harness/smoke.py`, `ablation.py` | loop position | one experiment | selector, prefetcher, scheduler |
| Trace adapter and replay, `integrations/llama_cpp/adapter.py`, `harness/runtime_replay.py` | store rebuilt from a trace | `ingest`, schedule, plan | store, scheduler, layout |
| Command export, `integrations/llama_cpp/runtime_commands.py`, `movement_intents.py` | command file | `export_runtime_commands` | plan in, command file out |
| Command consumer, `io/runtime_kv_command_consumer.c` | slot table, backing file, counters | seed, execute, exit | command file |
| Residency executor, `harness/runtime_residency_executor.py` | DRAM and VRAM tables, counters | `execute_op` | plan, backing file |
| Movement executor, `harness/movement_executor.py` | none of its own; the probes it ran | `execute_movement_plan` | plan, I/O probe, run context |
| Interleaved layout, `core/kv_layout.py` | layout of each block | `add_block`, `token_extents` | byte-range verifier |
| Byte-range verifier, `integrations/llama_cpp/kv_byte_ranges.py` | a report | `verify_kv_byte_ranges` | movement plan, interleaved layout |
| Live bridge, `integrations/llama_cpp/patches/solidattention_kv_trace.patch` | command, shadow and staging tables, heap buffers, counters, a trace and two summary files | `apply_ubatch`, `get_k`, `get_v` hooks | command file, backing file, K/V tensors |
| Bridge trace summary, `integrations/llama_cpp/command_bridge.py`, `movement_intents.py` | a summary, a plan | `summarize_command_bridge_trace`, `export_movement_intent_plan` | the bridge's trace and summaries |
| Run context, `harness/run_manifest.py` | output list, manifest file | enter, `add_output`, `mark_failed`, exit | every experiment script |
| Profile check, `tools/check.py`, `check_result.py` | output directory, result file | `run_profile` | pytest, make, experiments, llama check |
| Llama check, `tools/llama_check.py`, `integrations/llama_cpp/evict_smoke.py` | a worktree of the checkout, a temporary directory, trace and output files | `run_llama_check`, `run_evict_smoke` | git, cmake, the built test |

A plan travels: trace -> replay (store, scheduler, layout) -> movement plan ->
command file -> C consumer, Python executor, movement executor, or the live
bridge; and back: bridge trace -> movement intents -> plan -> command file. The
parts share no memory; they share files whose meaning each must read the same
way.

What is hard here, and hard to reach with unit tests:

- **Long legal sequences.** The bridge, the executor and the consumer are
  tables of buffers under any order of load, copy, compute and evict.
  Ownership, leftover copies, buffers that are not resized, and flags that are
  never reset only show after several commands.
- **Two accounts of one fact.** The bridge's shadow table, its staging table
  and the plan each say where a block is; the scheduler's counters and the
  store say what was read; three programs replay one plan.
- **Partial failure.** A file operation that fails or is short, a table that
  is full, an allocation that fails, a schedule that raises half way.
- **Crashes.** A run, a check or a bridged process is killed and its files are
  used again; the bridge appends to one trace over restarts.
- **Two descriptions of one layout.** The runtime and the byte-range verifier
  each work out the row sizes of a block and the cells it is copied to.
- **Boundaries.** A count of zero, a size of zero, alignment, token ranges
  that overlap in part.

There are no threads in this code; concurrency is between the host's calls
(`apply_ubatch`, `get_k`, `get_v`) and the state the bridge keeps between them,
between the caches of one process that share static tables, and between
successive processes over one directory. Almost no component runs until an
external event arrives, so nothing must happen by itself. The exception is a
profile check, which has to answer once it is started (see Fairness).

`PROJECT.json` lists every hazard at its line with the properties that cover
it.

## 2. Modules

| Module | Models | Used by |
|---|---|---|
| `RangeAllocator` | what a file layout promises: each key gets, once, a range disjoint from all others | `SSDLayout`, `InterleavedLayout` |
| `SSDLayout` | `SSDFileLayout.add_block` | `MCLayouts`, `RuntimeReplay`, `LayoutsProofs` |
| `BlockExtents` | `BlockLayout`: the key and value rows of one block | `InterleavedLayout`, `KVByteRanges` |
| `InterleavedLayout` | `InterleavedKVLayout` | `MCLayouts`, `LayoutsProofs` |
| `KVByteRanges` | the verifier, beside the runtime's staging and mutation gate on the same blocks | `MCKVByteRanges`, `LayoutsProofs` |
| `KVCommand` | a command, its key, its kind of movement, when it is valid, when it matches a runtime event | `LiveBridge`, `CommandExport`, `ResidencyExecutor`, `ResidencyModes` |
| `LiveBridge` | the patch of llama.cpp | `MCLiveBridge`, `LiveBridgeProofs` |
| `BridgeTrace` | several processes with several caches, the trace and summaries they leave, and both readers of the trace | `MCBridgeTrace`, `BridgeTraceProofs` |
| `BlockSelector` | `select`, and the rank-based definition it is checked against | `DecodeStep` |
| `Scheduler` | one turn of `schedule`: a block is brought to VRAM and computed, or raises | `DecodeStep`, `RuntimeReplay` |
| `DecodeStep` | selector, prefetcher and scheduler over one store | `MCDecodeStep`, `DecodeStepProofs` |
| `ResidencyExecutor` | the executor, with its seeding switch as a constant | `ResidencyModes`, `ReplayPipeline` |
| `ResidencyModes` | the same plan in two executors, with and without seeding | `MCResidencyModes`, `ResidencyModesProofs` |
| `CommandExport` | validation and export of a plan; what the consumer's scanner reads back | `CommandConsumer`, `BridgeTrace` |
| `CommandConsumer` | the C program, from its first line to its exit code | `MCCommandConsumer`, `ReplayPipeline`, `CommandConsumerProofs` |
| `RuntimeReplay` | trace to store to schedule to plan | `ReplayPipeline` |
| `MovementExecutor` | the distinct reads of a plan and the probe runs they are grouped into | `ReplayPipeline` |
| `ReplayPipeline` | replay, export, consumer, residency executor and movement executor composed | `MCReplayPipeline`, `ReplayPipelineProofs` |
| `RunManifest` | `RunContext` and the scripts inside it | `MCRunManifest`, `CheckProfile`, `CheckProfileProofs` |
| `LlamaCheck` | `run_llama_check` and the eviction smoke | `CheckProfile`, `CheckProfileProofs` |
| `CheckProfile` | `run_profile` for every profile, over `RunManifest` and `LlamaCheck` | `MCCheckProfile`, `CheckProfileProofs` |

Definitions marked *Fault* in a module are wrong variants of the definition
after them; each breaks one property, which shows the property depends on the
code it is about. No specification uses them.

### How the models correspond to the code

**LiveBridge.** The variables are the static tables of the patch
(`commands`, `shadow`, `staging`), the malloc heap, the set of error counters
that are not zero, and `event`, which is how far one `apply_ubatch` has got:
its batch, its layer, the next command. `ReadLine` and `EndOfFile` are the
loader, entered once by `ApplyUbatch` through its `done` flag; a file with one
invalid line never becomes ready. `BeginLayer` resets the shadow record of the
event, `ApplyCommand` runs the whole loop body for one matching command
(shadow, movement executor, tensor mutation gate), and `EndLayer` goes on to
the next layer. `AttentionGate` is `get_k`/`get_v` between batches. A routine
of the executor is a set of outcomes, so a failed read or allocation is one of
them. The record field `mutated` and the counter `attempts` exist to state
properties: the first is what the trace event reports as status "ok".

**BridgeTrace.** `process` is the static state of the running process:
whichever cache calls `apply_ubatch` first loads the file for all
(`ApplyUbatch`), checks it against its own layers and size, and the other cache
uses the table as it is. `BeginLayer`, `ApplyCommand` and `EndLayer` follow the
same loop as in `LiveBridge`, keeping only what reaches the files: a trace line
per command, the summary after every layer (`EndLayer`) and attention view.
Every `fopen` may fail without a word, a process may `Exit` or be killed inside
a write (`Torn`), and the next one starts with fresh tables over the old files.
`Summarizes` and `Exports` are the Python readers as conditions on the files;
`FinalLocations`, `PlanOps` and `PlanLayout` are what they compute.

**SSDLayout, InterleavedLayout.** One action per outcome of `add_block`.
`BlockExtents` is the arithmetic of one block; a row is a record of its kind,
token, offset and size.

**KVByteRanges.** `Collect` is the verifier's pass over the plan,
`VerifyBlock` one turn of its loop in sorted order with every error it counts,
`Report` the end. `Stage` and `MutationGate` are the runtime on the same blocks,
at any time in between: `cells` is the tensor's memory, byte by byte, so that
copying a row to a wrong cell or in the wrong order of a transposed tensor is
seen. Digests are left out: bytes are named by their place in the file.

**DecodeStep.** Each action is one call of a driver on one layer; any order in
which a call has its inputs is allowed, which contains the orders of both
`run_smoke` and `_run_method`. `config` holds what a driver takes from its
configuration: the window sizes, the prefetch target and the compute location. A
latency is a constant; the timeline counts in it. A schedule is the one call that
takes several steps: `BeginSchedule` is the call and `ScheduleNext` one turn of its
loop (`Turn` of `Scheduler`), which the next call has to wait for. `timeline` is
the result so far and the blocks still to look at, so that what a schedule that
raises half way has moved and counted is in the store and stays there.

**CommandConsumer.** `ExportOp` appends an op to the plan as the exporter
would write it or stops the export (`rejected`); `commands` is what
`parse_command_line` reads from the exported file. Then `OpenBacking`,
`SeedNext`, `StartRunning`, `ExecuteNext` and `Finish` follow `main`. Files
and buffers are sequences of byte values, a byte being the block and position
it was written for, so a wrong offset or size is seen. Every file operation may
fail after part of its bytes; the exit code is part of the state.

**ResidencyExecutor, ResidencyModes.** `count` has the executor's counters as
fields. A buffer is its size and whether it holds file bytes only. The
composition runs one op in both modes in one step; nothing is shared between
them, so the interleaving does not matter.

**ReplayPipeline.** `IngestAdd`, `IngestMove` and `IngestMovement` follow
`ingest`; `MakesBlock` is what the checks of `KVBlock` let through. The rest of a
replay places and calibrates, schedules one block at a time in the order of
`list_blocks` (`ScheduleNext`, the same `Turn` as above), lays out one block at a
time and builds the plan. Both consumers of the plan then run; `MovementExecutor`
is a function of the plan.

**RunManifest, CheckProfile, LlamaCheck.** The bytes of a file are the run that wrote them
and whether it wrote all of them. A run is its list of steps (write, record,
judge) in the order of the script. Each step may raise, each write may be torn,
and the process may be killed anywhere. `CheckProfile` adds the removal of the
directory, which can stop half way, the commands of a profile in their order
(`NextStage`) and the result file; a command that leaves nothing a property is
about (pytest, make) succeeds or fails. `LlamaCheck` has one action per step of
`run_llama_check`: the worktree and the temporary directory it must take back,
the trace it truncates and the built test appends to, the files it writes. An
`Interrupt` is an exception at any of them, and a removal may itself raise.
`CheckProfile` instantiates it, starts it as a command of the llama profile or
by hand, deletes its files with the directory, and kills it with the check.

## 3. Runs

Deadlock is checked in `layouts`, `live_bridge` and `bridge_gate`, whose
systems can always take another call. The other models reach an end (a plan is
done, a bound on runs or events is used up) and say `CHECK_DEADLOCK FALSE`.

| Run | Question | Bounds, and why they are enough |
|---|---|---|
| `layouts` | Are the ranges of both layouts aligned or tiled, and are both range allocators? | Aligned: 4 blocks, sizes 0, 1, 4 and 6 around an alignment of 4, a base that is not aligned. Interleaved: 3 blocks of 1 to 3 tokens with overlapping intervals, rows of 2 and 1 bytes. Each placement looks only at the furthest end, so two blocks meet every case and the others give slack. |
| `live_bridge` | Do the tables, the heap and the gate stay consistent with the plan? | 2 layers, 2 overlapping batches, files of up to 4 lines with 3 command slots, 2 staging and 3 shadow records for 3 blocks, 5 buffers: every table overflows. Journeys of load, copy, evict and reload fit in three commands, and batches replay them any number of times. Buffers are symmetric. |
| `bridge_gate` | Does "ready" mean mutated? Violated, see 5. | a tensor with two streams, which the mutation gate refuses |
| `bridge_trace` | Can what the bridge leaves on disk be trusted, and is the plan rebuilt from it the plan that ran? | 2 processes one after the other, 2 caches of different layers and sizes that have a layer in common, 3 batches in all, files of more commands than the table's 2, 2 shadow records for up to 3 blocks, two files of different layouts, a missing one |
| `byte_ranges` | Does a clean report mean what it says, and does the gate copy what was mapped? | plans over up to 2 blocks whose cells may overlap, requests with no, one or both row sizes, a bound or none; a cache of 3 cells; plain and transposed tensors, rows of equal and of different size |
| `decode_step` | Selection, prefetch and schedule over one store | 2 layers of 4 blocks and 1 block, 2 decode positions, tied scores, blocks in all three memories or all on SSD, a prefetch limit of 2; one configuration that computes in VRAM, one that cannot reach its compute location and has no local window |
| `residency_modes` | Is a clean run complete, and does strict mode report what seeding hides? | plans of up to 5 ops over 2 blocks, one also named with a wrong size; the file is absent, whole, cut after block 0, or cut inside it |
| `command_consumer` | Do the consumer's buffers, checks and exit codes hold for every plan the exporter accepts? | plans of up to 4 of 14 ops over 2 blocks, wrong offset, wrong size and refused ops among them |
| `consumer_bridge` | Does the consumer read what was exported? Violated, see 5. | plans of up to 2 ops, with and without bridge metadata |
| `replay_pipeline` | Do all readers of one plan agree? | traces of up to 4 of 10 events over 3 blocks; every event kind, a resized block, an empty block, a block of no tokens, an unknown op |
| `run_manifest` | Do manifest, files and exit code agree? | 3 runs of the residency executor and of the movement executor: a stale manifest, a torn one and a good one can all be followed by another run; two probe sizes |
| `check_profile` | Does a passed result rest on files of its own, does every check answer, and what does a llama check leave? | 2 checks of one profile, so that the second finds any remains of the first; up to 3 llama checks by hand, so that one finds the trace and worktrees of two; an ablation of one method |

What they show:

- `RangesAligned`, `AllocatorSpec`, `InterleavedAllocatorSpec`,
  `EveryByteHasOneOwner`: blocks never share or move bytes in either layout, and
  the interleaved one leaves no byte without a row.
- `BuffersOwned`, `StagedBytesBelongToBlock`: no leak, no double owner, no use
  after free in the bridge, and staged bytes are always those of the block.
- `StagingFollowsPlan`, `JourneysNeedNoSeeding`: if a block's commands form a
  journey from the SSD, each next command finds its source, although eviction
  frees one copy only. `ShadowFollowsPlan`: on such chains the shadow table
  never disagrees with a command's source.
- `MutatedAtMostOnce`, `GateBlocksForCause`: the flag that records a mutation
  is never reset. A block evicted and loaded again is not copied into the
  tensor again; the gate still counts it ready.
- `AcceptedTraceIsOneRun`, `ShadowAccountsAgree`: the one number the summarizer
  compares (matched commands against trace lines) is enough: events of an
  earlier, killed or unfinished process are never accepted as the last run's,
  and the locations recomputed from an accepted trace are those of the runtime's
  shadow table; a full table holds as many of the blocks as fit, each where the
  trace leaves it. Both need every append of the run to have
  succeeded: `fopen` failures are ignored, and a lost line can make up for one
  left behind.
- `PlanStaysInItsCaches`: although one cache validates the file for all, a
  command only meets a layer and a cell that the cache it runs in also has.
- `DroppedCommandsVisible`: a command dropped from the full table shows in the
  difference of the two summaries; without one, the trace has every command due
  in the run's layer events, in order, and no other. `IntentsRoundTrip`: a plan rebuilt from a
  trace can be exported again and names the ranges it was exported with.
- `CleanMappingCovers`: a report without errors maps every byte of every block
  to one row, within the cells of the cache, for given and inferred row sizes.
  `TensorHoldsStagedRows`, `GateCopiesAsMapped`: the gate writes inside the
  tensors, a cell holds the row of the last block written to it, and those are
  the bytes the verifier maps there.
- `SelectionCorrect`, `ScheduleNeverRaises`, `ReadOnce`, `HitsDoNotStall`: the
  groups of a selection are what their ranks say; a schedule that computes in
  VRAM cannot raise, and when one does raise (compute location DRAM) its reads
  stay counted and are not done twice; a block called a hit causes no later SSD
  read in its layer.
- `CleanRunIsComplete`, `StrictReportsWhatSeedingMakesUp`,
  `VramOutlivesNoEviction`: an error count of zero means every op was done on
  real bytes; the errors of strict mode are exactly about what seeding makes up.
- `NoVerificationError`, `BuffersFit`, `LazyInitExplained`: a plan the exporter
  accepts cannot overrun a slot's buffer, although the consumer does not compare
  sizes, because the exporter compares them with the layout.
- `PlansRun`, `ReplaysAgree`, `StoreFollowsTrace`: a replay's plan runs
  everywhere with the same counts, from where the trace left each block, and the
  movement executor probes each block the plan loads from the SSD once.
- `ManifestMatchesFiles`, `ExitMatchesManifest`: what an interrupted or failed
  run leaves is never taken for a later run's result.
- `PassedResultIsBacked`, `AnswerMatchesResult`, `StaleResultExplained`: an old
  `passed` result is found after a newer check only if that check was cut
  short inside its `rmtree`, and its exit code says so.
- `CheckoutLeftClean`, `SummaryIsEarned`: a llama check that fails or is
  interrupted anywhere but in the removal itself takes its worktree back, and one that leaves a whole summary ran a test that
  succeeded and evicted, whatever earlier checks left in the trace.

### Fairness

`ChecksAnswer` says that a check that is started answers. `FairSpec` assumes
weak fairness of `Continue`: the steps of a check under way and of the command
it waits for. The code justifies it as follows: `run_profile` is one process
that does nothing but run its commands in turn with `subprocess.run`, which
returns when the command does; it has no timeout, so that the commands are taken
to end. Starting a check and killing one are not in `Continue`: nothing makes
them happen. Without the assumption the property fails, since a process may stop
being scheduled; with it, a check that waited for a file instead of an exit code
would still fail it, which is what its mutant does.

## 4. Proofs

Every property above is also proved for all values of the constants, except
the one named under "Only model-checked". The assumptions are the named
`ASSUME`s of the modules:

- sizes and limits are naturals, the alignment and the row sizes are positive, a
  token interval is not empty, the null pointer is no buffer;
- `LayoutAssumption`, `PlanAssumption` (consumer): the ranges of a layout do not
  overlap, which `LayoutDisjoint` proves of `SSDFileLayout`, and a plan names one
  token interval per layer and block. The exporter does not check the latter; it
  holds of plans made from `KVBlock`s, of which a layer has one per block id. A
  plan written by hand that names a block with two intervals is outside the
  theorem, as it is outside the run;
- `FileAssumption`, `TraceAssumption` (bridge trace): a line of a command file
  has the types its reader parses, and a batch starts within its cache;
- `ByteRangeAssumption`: the ops of a plan hold integers, of any sign, and a
  row of the V tensor is its columns of elements;
- `BlockAssumption`, `PlacementAssumption`, `DecodeAssumption` (decode step): a
  layer has one block per id, positions and scores are compared as numbers, every
  block starts in one of the three memories, and windows are naturals, as is the
  prefetch limit unless there is none;
- `ReplayAssumption`: the numbers of a trace event are integers, of any sign,
  since `from_dict` converts them, and the alignment is positive.

`PassedResultBacked` and `ManifestDescribesFiles` have a hypothesis, `InOrder`:
a script writes each file before it records it and never writes it again.
`ExperimentsBacked` and `ExperimentsDescribeFiles` discharge it for the scripts
of the repository.

Each invariant is shown inductive by an `Init` lemma and a `Next` lemma with one
case or lemma per action.

| Module | Theorem | Argument |
|---|---|---|
| `LayoutsProofs` | `LayoutTypeCorrect`, `LayoutDisjoint`, `LayoutAligned` | `SSDInv` adds that some range ends last. `Max` of the ends is then an upper bound, so a new range starts at or after every end. `AlignUp` shows that `Align` never moves an offset back and lands on a multiple. |
| | `LayoutImplementsAllocator` | the refinement `ranges <- ranges`: an `Assign` is an `Allocate`, a rejected call a stutter |
| | `InterleavedOwnership` | `KVInv` says that blocks are apart, that one of them ends last and that no byte between the base and that end is outside all of them. That the rows of one block tile it is division by the stride: `ByteInRow` finds the row of a byte by its quotient and remainder, `OneRow` shows that there is no second one. |
| | `InterleavedImplementsAllocator` | the refinement that maps a layout to its offset and total size: `AddLayout` is an `Allocate`, every other call a stutter |
| | `CleanVerificationCovers` | while the counters are zero every block the loop has passed is mapped, has a total size equal to its own and no row beyond the bound (`PassedAreClean`); `MappingIsLayout` shows that sizes that did not raise make a layout with rows of at least one byte, so the row lemmas above apply |
| | `MutationsKeepRows` | `Places`: a byte's place in a plain or transposed tensor determines its cell and its byte, by division with the row, the element and the cells of the cache (`Digits`). So a mutation leaves its block's rows (`CopiedRows`) and disturbs only attempts whose cells it shares. |
| | `MutationsFollowMapping` | an attempt that was not refused has rows of the tensor's size; if the verifier's are too, both layouts are the same record |
| `LiveBridgeProofs` | `BridgeTypeCorrect`, `BridgeOwnsBuffers` | ownership is preserved by `Install` and `EvictSlot` if the buffer comes from outside the heap; every routine of the executor is a composition of the two, so each has one lemma about all its outcomes. `IInv` adds that the stored commands are valid and the tables finite, which the counts of the table limits need. |
| | `StagedBytesTrue`, `OneMutationPerBlock` | every routine of the executor leaves truthful bytes and the same checked records: `InstallFaithful` and `EvictFaithful` need ownership, because a buffer that is freed or filled must belong to no other record. The mutation gate marks one record when, and only when, it counts an attempt. |
| | `StagingFollowsEveryPlan`, `NoSeedingForJourneys`, `GateHoldsBackForCause` | whether a command matches a runtime event depends on its key only (`MatchByKey`), so an event replays the whole plan of a block or leaves the block alone. `PInv` follows the replay: of the commands passed so far, the last one's target is where the block is staged, a begun plan has a record, and nothing was seeded. Each routine changes no other block's record (the `Frame` lemmas) and brings its own to the command's target (`ExecuteJourney`). |
| | `ShadowFollowsEveryPlan` | on chained plans the shadow record stands at the source of the next matching command, since `BeginLayer` resets it to the first one's |
| `BridgeTraceProofs` | `PlanStaysInItsCachesHolds`, `IntentsRoundTripHolds` | `Shape`: a trace line is a valid command of a file that was loaded, in a layer and a cell of the cache of its event |
| | `AcceptedTraceIsOneRunHolds` | `Accounts`: the last run's lines are a stretch at the end of the trace, and as long as its summary's count of matched commands if no append failed. A count equal to the number of lines leaves nothing before the stretch. |
| | `ShadowAccountsAgreeHolds` | `ShadowFollows`: along the stretch, the last line of a block tells its shadow location, and the table has every block met or is full. Counting blocks by last line is then counting shadow records by location, up to the records that did not fit. |
| | `DroppedCommandsShow` | `Lines`: the commands due are pairs of a layer event and a line that matches it, and each is at its place in the stretch. A command applied comes after all applied before it, since `NextMatching` skips no match (`NoneBetween`), so it moves no other (`PlaceGrows`). What a summary counts as due stops at its `records`, which is the whole file exactly if the valid commands are as many. |
| `CommandConsumerProofs` | `NeverMisreads`, `BuffersAlwaysFit` | ranges of different blocks are apart, so seeding a block never overwrites another and every buffer of a slot holds its block's pattern, whole |
| | `LazyInitCounted` | the count equals the number of (block, tier) pairs first used as a source by the commands executed so far |
| | `SummaryCounts`, `FailuresExplained` | each counter is the number of commands of its kind among those executed so far; a turn that ends the run had a refused command, a failed call or no memory, since the bytes it compares are right by `NeverMisreads` |
| `ResidencyModesProofs` | `StrictReports` | the two runs agree exactly until the first missing source; after it strict tables are contained in seeded ones, by one lemma per kind of op |
| | `CleanRunsAreComplete`, `VramIsNeverStale` | as long as a run has no error each op has counted one success and padded nothing; a VRAM copy has its last load or computation after every eviction in the history |
| `DecodeStepProofs` | `SelectionsAreCorrect` | a list in strict order has at position i the element with i - 1 others before it (`RankGrows` and the lemmas after it, for any order given as a set of pairs, so that they serve both orders of the selector). A slice is then the set of the elements of small rank, forward or backward, and slices of what is left over are disjoint. |
| | `BlocksAreReadOnce` | a turn counts one read exactly if it takes its block off the SSD (`TurnReads`); an execution of a plan counts the blocks it takes off, as a set |
| | `SchedulesDoNotRaise`, `HitsNeverStall` | `DecodeInv`: every block is in one of the three memories, and `Load` ends in VRAM from each of them. A hit was not on the SSD when it was evaluated, and no step brings a block back to it. |
| `ReplayPipelineProofs` | `TraceIsFollowed` | a block of the store has a last event and a last event that describes it; an event of another block changes neither (`TraceInv`) |
| | `PlansAreRunnable` | the ops of a block climb from where it started to its compute, one level at a time (`ScheduleInv`, `Turn` by lemma `TurnAdds`), and ranges are apart because the last one ends last (`LayoutInv`). So a plan that passed satisfies what the consumer's theorems assume, and `Run`, an instance of `CommandConsumerProofs` at this pipeline's variables, gives its invariants step by step (`ExportIsRun`, `ConsumeIsRun`). The executor finds every source where an earlier op brought it, or makes it up (`ExecInv`). |
| | `RunsAgree` | every account is the number of ops of one kind; a block has one op of a kind, or none, by where it started (`OnePerBlock`), and sets in bijection are of one size (`SameSize`) |
| `CheckProfileProofs` | `ExitCodeTruthful` | a run that has not written its manifest has a number that no manifest has, since numbers are given in order; one that has written it still carries the status it wrote |
| | `ManifestDescribesFiles` | in the body of a run each file written so far holds its bytes and each recorded output is one of them; an exception or a kill can tear only the file being written, which is not recorded yet |
| | `ExperimentsDescribeFiles` | the four scripts are in order; `ConcatInOrder` shows it for scripts put one after the other |
| | `CheckoutClean`, `SummaryEarned` | llama checks by themselves, any number of them one after another, killed or failing anywhere; the two invariants say, for each stage of a check, how far the checkout has been changed and that the events of an accepted trace are those of this check's own test, because the trace is truncated before the test appends to it |
| | `PassedResultBacked`, `ExperimentsBacked` | the invariants of the runs and of the llama checks hold of those parts of a profile's state, and every command a check has accepted left a manifest of its own number, which the removal of the directory and the numbering of runs keep apart from older ones |
| | `AnswerIsInResult`, `StaleResultsExplained` | by stage: the result on disk is this check's, or the removal was cut short, or nothing is left (`Answers`) |
| | `ChecksLeaveCheckoutClean`, `SummariesAreEarned` | the two invariants of the llama checks, which the removal and the kill by the profile check also keep |

Only model-checked: `ChecksAnswer`, because the proof system does not handle
liveness or `ENABLED`.

The proofs changed the model where it could not be reasoned about, and once
where it was wrong. `Execute` and `GateStatus` of `LiveBridge` were `CASE`s with
guards that overlapped. TLA+ leaves open which one applies and TLC takes the
first, so every run passed while no proof could. The guards now exclude each
other, in the order of the code's `if`s. Sequences of matching commands became sets of
positions, and types that only the model values had guaranteed became
assumptions. A schedule was a fold over the selected blocks; what a fold
computes for every input needs induction over data. It is now a step per block,
as the loop is, so that the induction is over the steps of the behaviour, where
an invariant does it. A sorted list was a call of a library operator with a
recursive definition and is now the list that has the elements in order, which
is the one Python's `sorted` returns because no two blocks of a layer compare equal.
`DroppedCommandsVisible` compared the plan with a concatenation of filtered files,
again folds; it now says where in the plan each pair of an event and a line is, which
is the same list.

## 5. Disagreements found

1. **`bridge_gate`.** `docs/PHASE4_RUNTIME_INTEGRATION_MAP.md:121` says the
   attention gate verifies that blocks have completed tensor mutation. The
   mutation gate sets `tensor_mutation_checked` (patch line 1051) before the
   checks that may refuse the copy, and the attention gate reads that flag, so a
   refused block is counted ready.
2. **`consumer_bridge`.** `io/runtime_kv_command_consumer.c:147` takes the first
   match of a field name in a line. A plan exported from a bridge trace carries
   the metadata `"source": "llama.cpp"`, and keys are written sorted, so the
   consumer reads that as the command's source and exits with 1. The loader in
   the patch scans in the same way.

One more difference was met that no run is about. The byte-range check of the
executor and the tensor dry run (patch lines 774 and 923) compare a block's end
*token* with the cells of the tensor; `kv_byte_ranges.py:423` and the mutation
gate place the block at the *cells* from its block id on. Of a block whose
positions have run past the cache size the runtime summary reports bounds errors
and the verifier none, although `docs/PHASE4_STATUS.md:34` says their evidence
can be compared directly. `KVByteRanges` models the verifier and the gate, not
the executor's count.

## 6. Not modelled

- Parsing, formatting and JSON, except what the first-match scanner does to a
  line with metadata. Wall-clock latencies and metrics that no decision reads.
- The liburing backend: it differs from stdio in the system calls only.
- The tensor copy dry run of the patch and its tensor and attention traces,
  which write counters and files that nothing modelled reads. `LiveBridge` has
  one cache; several caches over the static command and shadow tables are in
  `BridgeTrace`, which has no staging table, so that a second cache's tensor
  that is never written (patch line 1049) is in neither.
- A V tensor that is quantised and transposed at once, whose elements share a
  block of bytes: `Place` takes an element to be a number of whole bytes.
- A backing file that cannot be opened in the residency executor: the file is an
  input that `RunContext` hashes before the executor runs, so that a missing one
  has already failed the run; `NoFile` is the run without a backing file.
- The `seq_rm` hook: it traces an eviction and does not touch the staging table.
- Two processes over one output directory at the same time, and an experiment
  that survives the kill of its check: nothing in the code supports them.
- The digests of the byte-range verifier and the timing of the I/O probe.
- What `tools/check_result.py` stores besides the status (counts, durations,
  captured output), and the contents of the summaries of the llama check.
- `verify_patch.py`, `integration_map.py` and `repository_contract.py`, text
  checks over a source tree; the metric and trace collections of `harness/`; the
  C probe and its driver, which are system calls and timing.

## 7. Plan

Done so far, in order of importance: layout and its refinement, live bridge,
decode step, residency executor, consumer, pipeline, run manifest, byte ranges
and interleaved layout, bridge trace, movement executor, profile and llama
checks with their liveness.

Next:

1. A bridge with two caches over one staging table (patch line 1049), composing
   `LiveBridge` with the caches of `BridgeTrace`.
2. An abstract `BlockResidency` (a block moves along edges between three
   memories) that `Scheduler`, `ResidencyExecutor` and the staging table
   implement, with the refinement of the residency executor proved.
