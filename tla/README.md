# AdapterSlots: verification project

This directory holds TLA+ models of AdapterSlots, the TLC configurations that
check them on small instances, and TLAPS proofs about them. Every definition is
translated from the source under `src/`; `PROJECT.json` ("map") gives the
lines each one stands for. Paths below are relative to `src/adapter_slots/`
unless they start with `src/`.

## 1. The system

AdapterSlots serves many LoRA adapters over one base model with vLLM 0.6.3.
The LoRA kernels are fastest when the tokens of a decode step that use the same
adapter are contiguous and come in whole warps. The system therefore holds the
first decode token of a sequence in a queue of its adapter until the queue has
a warp, or until a deadline.

### Components

| component | state | operations | what makes it correct |
|---|---|---|---|
| **Alignment buffer** (`buffer.py`) | per adapter: queue Q_k of (sequence, stamp), shadow queue of preempted entries, `enqueue_time`; `_seq_enqueue` records; counters | register, enqueue, release, four `form_batch*` methods, preempt_and_hold, resume_from_shadow, reset_stats | a sequence has one entry at most; ages belong to queued tokens; nothing due is left behind; nothing is flushed early; batches are aligned |
| **Alignment-aware scheduler** (`integrations/vllm_scheduler.py`) | vLLM's waiting and running queues, `_post_alignment_seqs`, call counter, mode | `_schedule` in five modes, `_schedule_running`, prefill admission, wgkp drain, clean-ups, batch log, cold-adapter scores | a running sequence stays schedulable; a held token is released in time; a step has no sequence twice; all requests are served (which ones are not is stated) |
| **Merged-weight cache, promotion** (`kernel/l3.py`, `kernel/model_runner.py`) | `_requested`, `_loaded`, `_pending`, merged weights, byte budget | `request`, loader threads, `process`, `get`, eviction | within its bytes; a requested adapter is eventually merged or requestable; the runner hardly uses a flag of weights that were evicted |
| **Warm-set cache, predictor** (`prefetch/`) | warm set in order of use, counters, first-seen-cold stamps | request, evict, cold penalty | size bound; LRU keeps the latest; each cold spell has its deferral window |
| **Fused LoRA kernel** (`kernel/fused_lora_kernel.py`) | autotuner's and launch caches, fp32 workspace, arrival counters | forward, launches, programs with split K | every call gets the whole product; the scratch memory is in bounds and left zeroed |
| **Segment metadata, grouped kernels** (`kernel/segmented_punica_wrapper.py`, `kernel/tiled_*.py`) | static segment and tile tables, captured graphs | refresh, capture, launch | each row is written once, with its adapter, also past the table's size |
| **WGKP dispatcher** (`kernel/wgkp_dispatcher.py`) | none | `segment_and_promote` | segments partition the batch; one flag per segment |
| **WAR / GWAR metrics** (`metrics/`) | none | counts over a batch | the two forms of each agree |
| **Request router** (`integrations/apis_router.py`) | estimates, assignment | route, rebalance | every adapter has one shard; shards share adapters and traffic |
| **Serving backends** (`src/backends/`) | process handle | start, health poll, stop | no process left over |
| **Two-server benchmark** (`src/benchmarks/ablations/bench_apis.py`) | two backends, router, requests in flight | start, run, stop | it ends, with both servers stopped |
| Rate estimator (`control/estimator.py`) | EWMA per adapter | `update` | used by warm set and router |
| PI controller (`control/pi_controller.py`) | T_max, integral, last error | `update` | T_max in its clip range |
| Erlang deadlines, CASH order (`dispatch/`) | none (pure) | T*(k), score | monotone; a permutation of the adapters |
| Promotion threshold (`kernel/apt.py`) | latency table, n* | calibrate, update with hysteresis | n* is the first profitable length |
| Engine entry points (`integrations/aligned_*.py`) | none | monkey patches | - |
| Workloads, benchmarks, scripts | - | experiments | - |
| vLLM 0.6.3 | queues, block manager | external | - |

### How they interact

The engine loop calls `schedule()`; one call is one tick. The scheduler asks
vLLM's scheduler for the work of the tick. If that is a prefill it is returned
as it is. If it is a decode, the groups that had their first aligned token
(`_post_alignment_seqs`) go straight into the step, sorted by adapter. The others
("first-time") are enqueued in the buffer, which keeps those already there, and
one `form_batch*` call with the tick's decode capacity as budget says which of
them run; the rest is held back and stays in vLLM's running queue. In PI mode
the controller sets T_max from the measured WAR; in Erlang and CASH mode the
estimator's rates become deadlines per adapter and CASH scores, lowered for
adapters predicted cold, become the visiting order; in wgkp mode the
merged-weight cache tells which adapters may be promoted. The model runner
rebuilds the promotion segments of the step from the flags, asks the cache for
merged weights, and the LoRA kernels read the segment tables, launched directly
or from CUDA graphs captured at start-up.

All calls between scheduler, buffer and controllers are direct and
single-threaded. Concurrent are: the loader threads of the merged-weight cache,
the programs of a GPU launch (and the host that queues launches), the server
processes of the backends, and the requests in flight of a benchmark. The
router stands in front of two such servers.

### What is hard here

* **Requests move between ticks.** vLLM preempts, re-admits, finishes and aborts
  sequences without telling the buffer. A token can be in the buffer of a
  sequence that is no longer running, and four sets (queues, records, aligned
  set, running) must stay consistent through any order of these events.
* **Time.** A deadline is compared with a stamp of the queue that is recomputed
  on every removal, preemption and resume; a cold adapter's stamp is cleared only
  when its queue is scored.
* **Early exits.** The dispatch loop breaks on its budget. Whoever is behind the
  break waits.
* **Liveness.** The buffer holds sequences back; the engine loop must release
  them, also when nothing else runs.
* **Clean-ups** run against a set that lacks the preempted sequences.
* **State that outlives its step.** Segment tables, captured graphs, scratch
  memory that "every launch leaves zeroed again".
* **Relaxed atomics.** The programs of a split-K tile agree only through a
  counter.
* **Processes** that die, ignore a signal or answer too late.

`hazards` in `PROJECT.json` lists each of these with its line.

## 2. Modules

| module | models |
|---|---|
| `AlignmentBuffer` | `buffer.py`, all methods, with a caller that keeps the protocol as environment |
| `AlignedScheduler` | `_schedule` of `vllm_scheduler.py` in its five modes, composed with `AlignmentBuffer` (EXTENDS: the scheduler's actions call the buffer's), which it implements (`Buffer == INSTANCE`, `ImplementsBuffer`) |
| `Admission` | the policies of `_schedule_prefills` (grouping, rotation, KV-aware admission) around vLLM's admission loop and block manager |
| `MergedWeightCache` | `kernel/l3.py` and its two callers, the scheduler's requests and the runner's `process()` and `get()` |
| `FusedProduct` | what `FusedLoRAKernel.forward` promises: the abstract specification |
| `FusedSplitK` | how `fused_lora_kernel.py` does it; implements `FusedProduct` (INSTANCE ... WITH) |
| `BatchRuns` | the readers of a batch's token order, as operators: `segment_and_promote`, WAR, GWAR |
| `SegmentTables` | `segmented_punica_wrapper.py` and the grids over its tables; EXTENDS `BatchRuns`, against which the tables are compared |
| `ArrivalRates` | the EWMA of `control/estimator.py`, as operators on a record |
| `WarmSet` | the warm-set cache of `prefetch/` and the scheduler's cold penalty; EXTENDS `ArrivalRates` |
| `Router` | `apis_router.py`; EXTENDS `ArrivalRates` |
| `Backends` | `start()` and `stop()` of `src/backends/base.py`, with the servers' processes |
| `ApisRunner` | the two-server benchmark: composes `Backends` and `Router` |
| `Queues` | what a list comprehension, `list.sort` and `sum` return, as functions of positions that lemmas can be proved about |
| `AlignedSchedulerProofs`, `MergedWeightCacheProofs`, `AdmissionProofs`, `FusedSplitKProofs`, `WarmSetProofs`, `ApisRunnerProofs`, `SegmentTablesProofs` | theorems about the module of the same name, and their proofs; those about `AlignmentBuffer` are in `AlignedSchedulerProofs`, those about `Backends` and `Router` in `ApisRunnerProofs`, those about `BatchRuns` in `SegmentTablesProofs` |
| `SequenceLemmas` | lemmas on sequences, sums and `Queues`, and induction over finite sets, that the proof modules cite |
| `MCAlignmentBuffer`, `MCAlignedScheduler`, `MCAdmission`, `MCFusedSplitK` | small instances for TLC (the other modules need none) |

Definitions whose name ends in `_Something` after an existing name, preceded by
a comment `Bug:`, are plausible mistakes in the definition that follows them.
They are used by no specification; each shows that some property would notice
the mistake (`mutants` in `PROJECT.json`).

### AlignmentBuffer

| variable | code |
|---|---|
| `registered` | keys of `queues` in insertion order |
| `queues`, `shadow` | `queues`, `_shadow` with `_shadow_time`: sequences of entries (seq, age) |
| `enqueueAge` | `now - enqueue_time[k]`, or `None` |
| `recorded` | keys of `_seq_enqueue` |
| `outstanding` | `_n_tokens_enqueued - _n_tokens_dispatched` |
| `phase`, `method`, `todo`, `budget`, `batch`, `deadline`, `nStar`, `merged` | arguments and locals of a `form_batch*` call |

Each method is an operator of its own name. A `form_batch*` call is
`begin_batch`, one `visit` per iteration of the loop over the adapters, and
`return_batch`. The four methods share the loop and differ in the deadline
(`DeadlineChoices`), the order (`VisitOrders`), the rules (`Rule`) and what
happens when a full queue has no room for a warp (`NoRoomForAWarp`: `break`, but
`continue` in wgkp).

Abstractions. Stamps become ages, which `Elapse` increases; every comparison is
with a deadline cut at T_SLO, so ages saturate at TSLO + 1. An EWMA, an inverse
gamma function or a CASH score becomes any deadline of `Deadlines`, any order.
T_SLO's margins and the float round-off are not modelled; `round(W / K)` is, with
its rounding of ties to even. `last_dispatch`, `_n_warps_dispatched` and
`_n_timeout_dispatches` are never read and left out.

### AlignedScheduler

| variable | code |
|---|---|
| `mode`, `logWar` | `_mode`, `_log_war` |
| `waiting`, `running` | vLLM's queues |
| `inPrefill` | members of `running` still in stage PREFILL, which `_schedule_running` puts aside (asynchronous output) |
| `tokensLeft`, `preempts` | decode tokens to go; preemptions so far (bounded) |
| `calls` | `_schedule_call_count` modulo the clean-up period |
| `postAligned` | `_post_alignment_seqs` |
| `decodes`, `toEnqueue` | locals of `_schedule_*_inner` |
| `output` | decode part of `scheduled_seq_groups` |

A tick with decodes is `StartDecodeTick` (vLLM's choice, the preemptions, wgkp's
clean-up), `EnqueueNext` per first-time group, `StartDispatch`, `VisitNext` per
adapter, `FinishTick` (batch assembly, drain, aligned set, releases, clean-up,
the step itself and completion). Nothing else of the scheduler runs in between,
as in the code: the next event is handled after `schedule()` returned. `Arrive`,
`ArriveAnew` (a new request in the place of a finished one of which the code has
nothing left), `Abort`, `PrefillTick` (it admits any nonempty set of waiting groups; which one
is the subject of `Admission`) and the choice of preemption victims are vLLM's
and external: the package is not in the repository. `ClockTick` lets time pass
between ticks.

`ImplementsBuffer` says that the buffer, seen through this caller, still behaves as
`AlignmentBuffer` by itself does. The refinement mapping is the identity but for
`phase`: between the calls of a tick the buffer is idle (`BufferPhase`). The
property leaves out wgkp and the batch log, where `FinishTick` drains queues or makes
several `release()` calls in one step; the invariants are checked and proved of the
scheduler directly there.

Not modelled: the files of the metrics, and prefill chunks in the same step as
decodes (the code disables chunked prefill).

### Admission

| variable | code |
|---|---|
| `grouped`, `kvAware` | `_admit_grouped`, `_kv_admission` |
| `arrived` | the unfinished requests in the order of `arrival_time` |
| `late`, `aged` | how many of them have waited `AS_ROTATE_AFTER_S`, `AS_GROUP_MAX_WAIT_S` |
| `waiting`, `running` | vLLM's queues |
| `len`, `blocks` | tokens and KV blocks of each request |
| `due` | the running requests that the scheduler no longer holds back |
| `draining` | `_draining` |
| `phase` | whether the tick tries to admit or, having admitted nothing, decodes |

`Admit` is the whole prefill part of a tick: choice of the adapter to drain
(`Holdouts`), order of the queue (`Before`), vLLM's loop with the patched
`can_allocate` (`Admitted`), the queue put back together (`LeftWaiting`), and the
prefill step. `Decode` is the rest of a tick that admits nothing: preemption from
the back until the blocks suffice, and the step. A request that has finished may
arrive again as a new one, so the stream of requests never ends.

External, modelled as far as the policies depend on it: vLLM's admission loop,
one block per `BlockSize` tokens, appended when a request is scheduled, no
watermark. The token budget of a prefill step is left out, as is the delay of
asynchronous output. A request is held back for one tick at most: a bound, the
hold-back itself is `AlignedScheduler`. A request is aged only after it is late,
as in the defaults (30 s and 3 s).

### MergedWeightCache

| variable | code |
|---|---|
| `kHot` | `k_hot`, `None` before the first merge sizes the cache |
| `weights`, `loaded` | keys of `_weights` and `_loaded`, in dictionary order |
| `requested` | `_requested` |
| `loading`, `failed` | adapters whose loader thread runs, or died |
| `merging` | the adapter that `process()` has popped |
| `turn` | what the engine's thread does next: scheduler, `process()`, step |
| `flagged` | `merged_ids` as the scheduler read it |

Scheduler and runner take turns on the engine's thread; a loader thread ends, or
fails, between any two of their steps, also between the pop of a loaded adapter
and its merge, which are separate critical sections in the code. The size of the
cache, which the code computes from the free memory, is any number up to
`AS_MWC_K_HOT`, zero included. The tensors are left out, and with them the
`KeyError` of a checkpoint that lacks a projection.

### FusedProduct and FusedSplitK

| variable | code |
|---|---|
| `calls`, `launched` | history: the shapes of the calls made, the number of launches |
| `tuned` | the autotuner's choice per key (M, N, K) |
| `_launch_cache` | `_launch_cache`, per shape and layout |
| `stream` | launches queued on the CUDA stream; the first is running or next |
| `prog` | the programs of the running launch: where each is, and the elements of its tile it has left to deal with |
| `ws`, `cnt` | every workspace and counter buffer allocated; the last is `_ws`, `_cnt` |
| `Y` | the outputs of all calls |

`_forward_triton` is the host: it replaces scratch buffers that are too small and
queues one launch, or, when the autotuner has not seen the shape, one launch of
each configuration that the pruning leaves, then the best. `StartLaunch`,
`Store`, `AddPartial`, `Arrive`, `StoreTotal`, `ResetCounter` and `EndLaunch` are
the GPU. A program's loop over K touches nothing shared and is behind it when it
starts. Every addition to the workspace is a step of its own, so the warps of a
program are concurrent, as they are until `tl.debug_barrier`, which is
`AllAdded`.

Sums are kept as sets of terms: (launch, k) is the contribution of column k of X
in one launch. A sum is right when it has each term of *one* launch once: a
missing share, a doubled one, or one left over from another launch all show.
This is what abstracts the floats. `FusedProduct` sees an element of Y as
undefined or as the product. One stream, as in the code; the autotuner benchmarks
each configuration once instead of many times. The CPU reference and the test
for Triton are left out.

### BatchRuns and SegmentTables

| variable | code |
|---|---|
| `mode`, `prefillGrouped` | `AS_SEGGEMM`, `AS_SEGGEMM_PREFILL` |
| `idx`, `isPrefill` | `token_lora_indices` and the kind of the step |
| `prefillOk` | `_prefill_ok` |
| `seg` | `_seg_start`, `_seg_len`, `_seg_lora` |
| `tiles`, `tileCap` | the allocations of `_tile_seg`, `_tile_m`; `_tile_cap` |
| `graphs` | per captured size, the grid and the buffer the graph holds |
| `slices`, `applied` | the projection that ran, and per row the programs that wrote it |

A step is `Load` (`update_metadata`) and `Run` (one projection, through the
kernel that mode, phase and batch size choose); `Capture` is the start-up. The
device's way to the tables (cumsum, clamp, scatter) is modelled as it is done,
with the race of `scatter_` when the table is too short as a choice; `BatchRuns`
has the host's scans, so that `TablesMatchRuns` compares two algorithms. Of a
kernel the model keeps which rows a program writes, for which slice and split
and with which adapter; the sums are left out, and so are the fallbacks for odd
strides, and `prefill_lora.py`, which passes prefill on to vLLM's kernels.

### WarmSet

| variable | code |
|---|---|
| `policy`, `deferral` | `AS_PREFETCH_POLICY`, `AS_PCIE_MIN_DEFERRAL_S` |
| `est` | `_estimator` |
| `warm` | `_warm`, least recently used first |
| `hits`, `misses`, `requests`, `evictions` | the totals |
| `firstCold` | `_cold_first_seen` |
| `pending`, `toReport`, `inTick` | adapters with queued tokens, and those the tick has still to report |
| `penalty` | what `_penalize_cold` did to the score of each queue |
| `used`, `coldFrom` | history, for the properties: the order of use; the start of each cold spell |

A tick is `StartTick` (arrivals, rates), `Report` per arrived adapter in any order
(the code iterates over a set), and `FinishTick` (the scores; the buffer
dispatches any of the queues). Rates are integers of a small unit. `prefetch()`,
`reset_stats()` and `prefetch_schedule()` have no caller outside the tests and
are left out; so are the cold-start boost of the Erlang deadlines (floats) and
the configuration class of `policy.py`.

### Router, Backends and ApisRunner

| variable | code |
|---|---|
| `est`, `assignment`, `lastRebalance`, `rebalances` | the attributes of `APISRouter` |
| `pc`, `cur`, `raised`, `pgid` | where the benchmark's thread is, in which server's `start()` or `stop()`, and locals |
| `started` | servers whose `_proc` is not `None` |
| `leader`, `worker`, `orphans` | the operating system: the group's leader and workers, groups given up |
| `unled`, `crashes` | history; bound |
| `toSend`, `inFlight` | requests of the trace not sent yet; sent and not answered |

`Backends` models each wait of `start()` and `stop()` as a step that may end in
every way the code allows: the port never becomes free, the health poll finds
the leader dead or runs out of time, SIGTERM is obeyed by all, some or none
before the wait ends. Crashes may come at any time. The subclasses only build
command lines and payloads. `ApisRunner` runs whole benchmarks one after the
other: start both servers, build the router, send, await, stop, in any
interleaving with the servers' processes. The code routes the whole trace before
it sends the first request, with the arrival times of the trace; the model routes
a request when it is sent, which gives the same assignments.

## 3. Runs

| run | bounds | question | result |
|---|---|---|---|
| `buffer` | 2 adapters, 4 sequences, W = 3, n* = 2 | the CASH and wgkp methods under any order of calls, visiting order and merged set: types, no duplicates, ages, nothing due left, aligned batches, no early flush, balanced counters | holds |
| `sched_hold` | 2 adapters, 4 sequences, W = 2 | the four hold-back modes, batch log on or off, no preemption or abort: no sequence lost, no overdue token, one run per adapter in each part of a step; without the batch log, implements `AlignmentBuffer` | holds |
| `sched_live` | 2 adapters, 3 sequences, W = 2 | PI (with its clean-up in every tick) and CASH, no preemption or abort: every request served | holds |
| `sched_wgkp` | 2 adapters, 3 sequences, W = 2, one preemption | wgkp with preemption, aborts and requests without end: aligned sequences are not queued; every request is served or aborted, but for those stranded beside endless decode work | holds |
| `sched_lost` | as `sched_live`, one preemption | threshold: is a deferred sequence never lost? | violated |
| `mwc_cache` | 4 adapters, 2 places, loads may fail | within its size, nothing loaded or merged twice, no request forgotten, at most one stale flag; loaded adapters are merged once requests stop | holds |
| `admission` | 4 requests, 2 adapters, 1 LoRA slot, 5 blocks of 2 tokens | grouped, KV-aware, or both: no request lost, order within an adapter, aged requests first, lifetimes within the cache, every request served | holds |
| `split_k` | 2 calls of 3 shapes, 5 configurations | scratch clean and in bounds; implements `FusedProduct` | holds |
| `segments` | decode to 4, prefill to 5 rows, 3 segment slots | each row written once, with its adapter; device tables = host scan; metrics agree | holds |
| `seg_decode` | decode to 4 rows, 3 segment slots | does every row of a batch as the scheduler emits it get its adapter? | violated |
| `warm_set` | 3 adapters, 2 slots, 4 ticks, 3 policies | size and counters, LRU order, one deferral window per cold spell | holds |
| `apis` | 2 servers, 3 adapters, 1 crash, 4 requests, endless benchmarks | nothing left running; shares of adapters and of traffic; every benchmark ends | holds |

### Bounds, and why they are enough

*Buffer and scheduler*: a queue can be below a warp, hold one warp, or a warp and
a rest; a first adapter's outcome (break, hold, dispatch) decides about a second;
of two sequences of an adapter one is preempted, aborted, resumed or dispatched
before the other. TSLO of 2 lets a token be fresh, past its own deadline and
past T_SLO. `MaxBudget` caps `max_tokens` in the buffer's own environment (the
real caller passes the number of decode groups, and K x W is always a choice) at
less than n* and a warp, so that the loop must stop with work left. `form_batch`
and `form_batch_erlang` share the loop of `form_batch_cash` and choose among less: the
order of registration, and one deadline for all or one for each. So `sched_live` has
PI mode for its clean-up, and CASH mode for everything that threshold and Erlang mode
may do. `MaxTokens` is the
length of a request after its prefill, `MaxPreempts` the preemptions of a behaviour,
`CleanupEvery` stands for 50 000 calls. Requests do not end: a finished sequence
of which the buffer has no record and no token stands for a new request
(`ArriveAnew`), so a behaviour may have decode work for ever; `MaxDrift` bounds how far
`outstanding` may have drifted (by the drain of wgkp, see below) when one is made. Merged weights decide
about flags only, so `Mergeable` is not empty in `buffer` alone. The runs without
preemption or abort say so on purpose: with them the same properties fail, see below.

`sched_wgkp` has two sequences for a warp of the second adapter and one of the
first, so that a warp may hold an aborted request's token while two others
decode: both exceptions of `ServedUnlessStranded` occur, and without either the
property is violated. With W = 2 a single queue is held at n* only until both
adapters are registered. With `W = 3` and `TSLO = 1` it is the deadlines that
serve the requests; the property holds there too (116 350 states), and TLC refutes
it when `Expired` and the rule of half of n* are dropped.

*Admission*: one adapter slot for two adapters and a cache that cannot cover the
lifetimes of all requests: requests stop at a block boundary and past it, are
preempted, and another adapter always wants the slot. `MaxNew` is the length of a
request; `Requests` bounds how many are unfinished at once, not how many arrive.

*Merged-weight cache*: four adapters for two places, so that a queue of loaded
adapters, a full cache and an eviction meet.

*Fused kernel*: two calls are enough for everything one launch leaves to the next,
of the same or another shape and layout: autotuning in the first call, relaunch
or autotuning in the second, and scratch that is replaced while the launches of
the first are queued (`WsFloor` and `CntFloor` are less than the larger shapes
need). The configurations include a split into three whose last slice is empty, a
split whose slices are longer than K / SPLIT_K, one without a split, and a large
one; tiles are full and partial. `MaxCalls` is why the run does not check
deadlock.

*Segments*: two LoRA slots make a table of three, which four rows can overflow;
batches of every content to that size, one after another, captured and not
(a captured size of 2 pads 1 and is exceeded by 3). Tiles of two rows, so
segments have full, partial and several tiles.

*Warm set*: three adapters for two slots, four ticks: cold, warm, evicted and cold
again with a window of two ticks in between. `MaxTicks` is why it does not
check deadlock.

*Benchmark*: `MaxCrashes` processes die unasked in a behaviour, and there is no
bound on the benchmarks; `MaxTime` and `MaxRequests` bound one trace, long
enough for two refreshes; one request in flight at a time, as `inFlight` has no
influence on the router.

A spell of `WindowPerSpell` starts when a cold adapter is scored and ends when a
scoring finds the adapter warm, with or without a queue of its own.

Deadlock is checked in all runs but `split_k` and `warm_set`.

### Fairness

* `AlignedScheduler`: WF of `DecodeTick` (the engine loop calls `schedule()` as
  long as a request is unfinished, and a call runs to its end); SF of `ClockTick`
  (time passes between two calls, the only place where the model lets it); SF of
  `PrefillOf(s)` for each request: one that again and again may be admitted is
  admitted. This is what `AllServed` of `Admission` shows of the admission
  policies; it is enabled only between ticks, hence strong. Arrivals, aborts and
  preemptions have no fairness.
* `Admission`: WF of the tick (`Admit` or `Decode`, one of which is enabled as long
  as a request is unfinished) and WF of the passing of time.
* `MergedWeightCache`: WF of the engine's steps and of each loader thread, which
  ends in one way or the other. Arrivals, aborts, early ends and merge requests
  have no fairness. `MergedOnceQuiet` has the premise that no new merge request
  is made from some point on: `process()` takes the adapter that was loaded *last*
  (`popitem`), and while requests keep coming one that was loaded earlier can be
  passed over for ever.
* `FusedSplitK`: WF of `Gpu`: a launch on the stream is run, and some program of it
  takes a step as long as one can. From it follows WF of `ComputeSome` of
  `FusedProduct`: every call is answered.
* `ApisRunner`: WF of the benchmark's thread in `start()` and `stop()`, of sending
  what is left of the trace, of an answer (or the client's time-out, which every
  request has), and of the end of `run()`. The servers' processes have none: the
  time-outs alone must bring a benchmark to its end.

### What the violations show

* `sched_lost`: vLLM preempts a group whose token is in the buffer. In the next
  tick the buffer dispatches the token, but the group is not among the tick's
  (vllm_scheduler.py:484), so the token is dropped; the record in `_seq_enqueue`
  stays. When the group runs again it is first-time, `enqueue` returns early, and
  no tick schedules it again. The same holds in PI, Erlang and CASH mode without
  the batch log, and in wgkp until a step is empty (next section).
* `seg_decode`: `_refresh_segments` clamps the runs beyond the table into its last
  slot (segmented_punica_wrapper.py:102), whose adapter is then that of whichever
  token `scatter_` writes last. A decode batch of the scheduler has up to two runs
  per adapter (next section), so with as many resident adapters as LoRA slots the
  table is too short. The prefill path counts its runs first (lines 69-76);
  decode does not. What remains of the claim is a theorem: while a batch's entries fill
  at most half of the slots every row gets its adapter (`HalfTheSlotsSuffice`).

### What else modelling showed

These are not runs of their own. Where a change is given in brackets, TLC finds the
counterexample in the run it names with that change.

* The periodic clean-up of PI mode (vllm_scheduler.py:549) intersects the aligned
  set with `self.running`. A preempted sequence is not there, so it becomes
  first-time, with its record left: the same end as `sched_lost`, against
  src/tests/test_deferred.py:5. wgkp releases what its clean-up forgets,
  which is aligned sequences only.
  [`sched_lost` with `Modes = {"pi_adaptive"}`]
* wgkp strands requests while other decode work goes on. It releases a dispatched
  token's record only if the group is in the tick (vllm_scheduler.py:813-819), and its
  clean-up (743) covers aligned sequences only. A first-time sequence that is
  preempted while its token is queued is lost as in `sched_lost`: `enqueue` refuses it,
  and only the drain of a step that would be empty takes it up. The comment at
  lines 821-826 calls other decode work the steady state. `ServedUnlessStranded` says
  that this (`Lost`) and a warp with aborted tokens (`Blocked`) are the only ways
  to be stranded, and that it takes decode work for ever.
  [`AllServed` in `sched_wgkp`]
* An aborted request leaves its token in the queue. If the queue then holds W
  tokens and fewer than W requests run, `form_batch` leaves the loop at it
  (buffer.py:145) in every tick, before any deadline is looked at; so buffer.py:15
  and the comment at vllm_scheduler.py:793-794, that the budget lets every
  buffered token leave, fail after aborts. [`AllServed` in `sched_live` with `Aborts = TRUE`]
* The drain of wgkp takes groups out of their queues without counting them as
  dispatched, so `stats()` reports them as outstanding for good: `StatsBalance` is
  a property of the buffer alone.
* An adapter that is loaded and evicted in the reports of one tick was warm, and its
  next cold spell should start with a score of 0 (vllm_scheduler.py:964-966; line 234:
  "cleared once it is warm"). No scoring sees it warm, so it keeps the old stamp.
  Under `lru`, with a window of 2: arrivals of three adapters at ticks 1 and 4,
  reported in one order; at tick 4 the first one's score is not lowered at all.
  [`WindowPerSpell` in `warm_set`, with `Report(a)` taking `a` out of `coldFrom`]
* The growth owed to a running request (vllm_scheduler.py:413) is its lifetime
  less the blocks of `get_len()`. The length includes the token sampled last,
  whose block is taken only in the next step: at a block boundary one block
  counts as held and as free, one request too many is admitted, and all of them
  cannot grow to their end. `KvRoom` states what the check does guarantee: at most
  one block too much for each running request but one.
* Rotation drains the one resident adapter for a late one, and its running request
  is preempted. The adapter has left the batch, so `_rotation_holdout` forgets
  that it was draining (vllm_scheduler.py:325); the preempted request stands at
  the front of the queue, is admitted at once and takes the slot again. Grouping
  puts the late adapter's aged request first, and KV-aware admission avoids most
  preemptions, so `admission` has one or both.
  [`AllServed` in `admission` with the policy `Policy(FALSE, FALSE)`]
* The comment at vllm_scheduler.py:488-489 calls the whole decode batch
  adapter-contiguous. It is not: first-time groups are appended after the sorted
  aligned ones, so an adapter may have a run in each part. `OneRunPerPart` is what
  holds. (In wgkp mode not even that: the drain appends in the order of `running`.)
* The router refreshes while requests routed by the old assignment are in flight,
  so a shard can serve more adapters at once than its share, for which its slots
  are sized (apis_router.py:52, src/benchmarks/ablations/bench_apis.py:110-111).
  vLLM then queues the rest. `AdaptersShared` is about the assignment.
* `stop()` looks the process group up by its leader (src/backends/base.py:142). A
  leader that died while the health poll was watching has been reaped by it, so
  its workers are not found and keep their GPU: the exception in
  `NothingLeftRunning`.
* `run_apis_benchmark` calls `start()` before its `try`
  (src/benchmarks/ablations/bench_apis.py:293): if the second server fails, the
  first one stays up. `ApisRunner` has the caller in
  src/benchmarks/paper/apis.py, which is right.
* `compute_gwar` returns 0.0 for a threshold of zero, `compute_gwar_curve` 1.0. No
  caller passes zero.
* The wait for the GPUs goes on silently after its time-out, alike whether they are
  free, unknown or taken.

## 4. Proofs

TLC shows a property for one small instance; the theorems hold for every value of
the constants that the named assumptions of the module allow
(`BufferAssumption`, `AdmissionAssumption`, `CacheAssumption`, `SplitKAssumption`, `WarmSetAssumption` with
`RatesAssumption`, `BackendsAssumption`, `RouterAssumption`, `TablesAssumption`). These say that numbers are natural, that
some are positive, that the adapters are finitely many, and that sets range over
what the code reads; TLC evaluates them in the runs. The one with content is in `SplitKAssumption`: every tile of the
autotuner's list is at least the smallest that the counters are sized for, and
pruning leaves a configuration for every shape.

| module | theorem | statement |
|---|---|---|
| `AlignedSchedulerProofs` | `TypeCorrect` | `Spec => []TypeOK` |
| | `NeverDuplicated` | `Spec => []NoDuplicates` |
| | `AgeBelongsToTheQueue` | `Spec => []AgeIsOfAToken` |
| | `FlushedForAReason` | `Spec => NoEarlyFlush` |
| | `AlwaysAligned` | `Spec => []BatchAligned` |
| | `CountersAgree` | `Spec => StatsBalance` |
| | `NothingDueIsMissed` | `Spec => []NothingDueIsLeft` |
| | `SchedulerTypeCorrect` | `SchedulerSpec => []SchedulerTypeOK` |
| | `BypassIsClean` | `SchedulerSpec => []AlignedNotQueued` |
| | `StepsAreContiguous` | `SchedulerSpec => OneRunPerPart`, if `"wgkp"` is not among the `Modes` |
| | `NothingIsLost` | `SchedulerSpec => []NoSequenceLost`, if `Undisturbed` |
| | `NothingIsOverdue` | `SchedulerSpec => []NoTokenOverdue`, if `Undisturbed` |
| | `SchedulerImplementsBuffer` | `SchedulerSpec => ImplementsBuffer`, if `Seqs` is finite |
| | `SchedulerNeverDuplicates` | `SchedulerSpec => []NoDuplicates` |
| | `SchedulerBatchAligned` | `SchedulerSpec => []BatchAligned` |
| | `SchedulerMissesNothingDue` | `SchedulerSpec => []NothingDueIsLeft` |
| | `SchedulerAges` | `SchedulerSpec /\ mode # "wgkp" => []AgeIsOfAToken` |
| | `SchedulerFlushes` | `SchedulerSpec /\ mode # "wgkp" => NoEarlyFlush` |
| `AdmissionProofs` | `QueuesHoldEachOnce` | `Spec => []NoRequestLost` |
| | `AdapterOrderKept` | `Spec => []OwnAdapterInOrder` |
| | `LifetimesCovered` | `Spec => []KvRoom` |
| | `AgedKeepTheirTurn` | `Spec => AgedFirst` |
| `MergedWeightCacheProofs` | `TypeCorrect` | `Spec => []TypeOK` |
| | `NeverOverfull` | `Spec => []WithinCapacity` |
| | `MergedOnce` | `Spec => []InOnePlace` |
| | `NoStaleRequest` | `Spec => []NoneStranded` |
| | `OneStaleFlag` | `Spec => []AtMostOneStaleFlag` |
| `SegmentTablesProofs` | `RowsWrittenOnce` | `Spec => []RowsOnce` |
| | `RowsGetTheirAdapter` | `Spec => []EachRowItsAdapter` |
| | `TablesAreRuns` | `Spec => []TablesMatchRuns` |
| | `MetricsAgreeAlways` | `Spec => []MetricsAgree` |
| | `HalfTheSlotsSuffice` | `Spec => [](HalfTheSlots => DecodeRowsTheirAdapter)` |
| `FusedSplitKProofs` | `ScratchLeftClean` | `Spec => []ScratchClean` |
| | `NoOverrun` | `Spec => []InBounds` |
| | `KernelImplementsProduct` | `Spec => Product!Spec` |
| `WarmSetProofs` | `SlotsRespected` | `Spec => []WithinSlots` |
| | `LeastRecentlyUsed` | `Spec => []LruKeepsLatest` |
| | `StampsForgotten` | `Spec => []WarmHasNoStamp` |
| | `WindowsFollowed` | `Spec => []WindowPerSpell` |
| `ApisRunnerProofs` | `EverythingStopped` | `BackendSpec => []NothingLeftRunning` |
| | `RunnerImplementsBackends` | `Spec => BackendSpec` |
| | `RunnerLeavesNothing` | `Spec => []NothingLeftRunning` |
| | `SharedEvenly` | `RouterSpec => []AdaptersShared` |
| | `RefreshedByTraffic` | `RouterSpec => TrafficShared` |
| | `RunnerSharesEvenly` | `Spec => []AdaptersShared` |
| | `RunnerRefreshesByTraffic` | `Spec => TrafficShared` |

The arguments:

* **NeverDuplicated.** `NoDuplicates` compares queue, shadow and batch of one
  sequence and is nearly inductive. A dispatch moves a prefix of a queue to the
  batch, so the proof needs that the queue has each sequence once and that all
  its entries are of its own adapter; both are parts of the invariant. The batch
  is emptied on return and nothing is enqueued while it is being built.
* **AgeBelongsToTheQueue.** Inductive together with `TypeOK`: every operation
  that changes a queue either keeps the entry the age is taken from or recomputes
  the age from an entry. The lemmas on `RemoveAt`, `SubSeq` and `OlderQueue` say
  which entries are left.
* **FlushedForAReason** is an action property: from `AgeIsOfAToken` the age a
  flush compares with the deadline is that of a token in the queue.
* **AlwaysAligned** needs to know that an adapter already in the batch is not
  visited again: the strengthening says that `todo` has no duplicates, that the
  adapters of `batch` are not in `todo`, and that `registered` has no duplicates
  (from which `todo` starts).
* **CountersAgree** and **NothingDueIsMissed** count: the tokens of all queues are
  the cardinality of the disjoint union of the queues' positions, so a call that
  adds or takes n of one queue changes the total by n (`FS_Union` and
  `FS_CardinalityType` of the library instead of an induction over the adapters). For
  the second, `Covered` says during the loop that what is left of the budget covers
  what is pending in the adapters still to be visited, and `LoopInv` what was left
  behind in those already visited.
* **The scheduler** makes the buffer's steps its own, so the buffer's lemmas carry
  over; `TypesInv` adds that a request is in one queue, once, and has tokens left
  exactly as long as it is in one. `BypassIsClean` needs that what a tick is about to
  enqueue does not bypass the buffer: `postAligned` grows only at the end of a tick,
  by groups whose token just left the buffer (dispatched, so by `NoDuplicates` no
  longer queued, or drained). It holds under every preemption and abort.
* **StepsAreContiguous.** The first part is sorted by adapter (`SortedByFacts`: the
  sort is a permutation in which no later group comes before an earlier one); the
  second is the batch, contiguous by `BatchAligned`, with the tokens of absent groups
  dropped (`OnlyFacts`). In wgkp mode the drain puts groups in running order, and an
  adapter can have several runs; hence the hypothesis.
* **NothingIsLost.** `KeptInv`: who has a record and does not bypass is in a queue or
  in the batch; who is in a queue or in the batch is running and past prefill; and
  therefore every token of the batch has its group in the tick and is not dropped at
  its end. A preemption breaks the last step (`sched_lost` finds it), hence
  `Undisturbed`: `MaxPreempts = 0` and no `Aborts`. The bound on preemptions is a
  parameter of the model, so the theorem is about the executions without any.
* **NothingIsOverdue** combines the three: each queued token is of a group of the
  tick and no group has two, so the budget `Len(decodes)` covers everything pending
  (`PendingFits`, an injection into the positions of `decodes`) and
  `NothingDueIsLeft` applies. It speaks of the age of the queue; `AgesOrdered` says
  that no token in it is older. With an aborted request's token in a queue neither
  the budget nor the reset of the age is right any more (see `hazards`).
* **SchedulerImplementsBuffer.** One case per scheduler step: it is a call of the
  buffer made while the buffer allows it, or leaves the buffer alone. Two calls have
  a premise that the buffer's environment guarantees by itself and the scheduler
  must be shown to: `enqueue` is not given a sequence that `preempt` has set aside
  (`BypassInv`: under this caller the shadow stays empty), and the budget is at most
  the number of sequences, because no sequence has two decode groups in a tick (`DecodesOnce`, `DecodesFit`; hence the
  finite `Seqs`). Preemption, abort and resume need no hypothesis.
* **What the buffer guarantees, under the scheduler** (`SchedulerNeverDuplicates` to
  `SchedulerFlushes`). The refinement gives these for some modes only; they are proved
  of all that satisfy them, from the buffer's lemmas and one case each for the
  enqueues within a tick, the drain, and the records dropped at its end.
  `SchedulerAges` excludes wgkp for a reason: the drain keeps the stamp of a drained
  token when another one stays in the queue (vllm_scheduler.py:1062), and then a
  partial queue can be flushed before any token in it has waited so long.
* **Admission.** `QueuesInv` has three parts: `OnceInv` (no request is in `running` or
  `waiting` twice or in both, and the two hold the unfinished ones), `TurnInv` (running
  and then waiting requests are, for each adapter, in the order of arrival) and their
  types. A sort is a permutation only of a list without duplicates, so neither part
  holds without the other. `ByAdapterOrders`: the sort key is a strict weak order that
  agrees with the order of arrival for requests of one adapter, whatever is aged in
  between. `AdmittedFacts`: vLLM's loop lets an adapter's requests through or none of
  them, so what is admitted is closed downwards within an adapter; hence it comes after
  the running requests and before those left behind. A preemption cuts `running` in
  two and puts the back in front of the queue.
* **LifetimesCovered.** `BlocksInv`: only running requests hold blocks, each as many as
  it needs without the token sampled last. So the lifetimes of those running are at most
  the blocks held, those still owed, and one each (`TotalBound`, summed up by
  `FiniteInduction`), and what the check lets in fits beside them. Who leaves takes at
  least one block of lifetime with it, so the bound survives finishes and preemptions,
  which is why it is stated with `Len(running) - 1`.
* **AgedKeepTheirTurn.** Before an aged request stand only earlier ones. If it is passed
  over its adapter has no slot, and then the first adapter without a slot has all of
  those ahead of it placed: with the running ones they are at least `MaxLoras`
  (`SlotsTaken`). They are no more because the last adapter placed found a slot free
  (`PlacedFit`), provided the running requests never have more than `MaxLoras` adapters,
  which is the invariant `LorasInv`.
* **The merged-weight cache** has one invariant, `Inv`. `InOnePlace` is not
  inductive: a request could start a second load of an adapter that is already
  loaded, unless everything that is on its way (loading, loaded, being merged or
  resident) is still in `requested`, where `request()` ignores it. That holds until
  the cache is found to have no room (`kHot` = 0); then `requested` is cleared
  while threads still run, and from then on `request()` ignores everything. An
  eviction takes its adapter out of `requested` and out of the cache in one step.
  For the stale flags, `Inv` says that the flags are all resident until a merge,
  and that a merge evicts one adapter at most: the bound of `WithinCapacity` gives
  the second part.
* **The scratch memory.** `WsInv`: a dirty element of a workspace belongs to the
  running launch and has a program that is still to add to it, or to clear it.
  `TileInv`: the counter of a tile counts its arrivals, all of which are done, until
  the last one has arrived; then some program of the tile is not done, and that one
  clears the tile and resets the counter. When all programs have ended nobody owes
  anything, so nothing is dirty. `HasRoom`: the buffers a launch was given are large
  enough for its shape, whatever configuration runs, because tiles are at least
  the smallest (`CdivAntitone`) and rows are numbered within the product of the
  sides (`RowMajor`). Later, larger buffers do not touch those a queued launch
  holds.
* **The product.** `Product!Spec` is the specification of `FusedProduct` without its
  fairness; `split_k` checks it with (`ImplementsProduct`). `RefInv` comes on top of
  the invariant above. `SumInv`: an element of the workspace is the sum of the shares
  of the programs that have added theirs, until the finisher of its tile has stored
  it. Slices of K are disjoint (`SharesApart`), so no term is added twice, and they
  cover K (`SharesAreWhole`), so the sum is the product once all programs of the tile
  have arrived, which `TileInv` says they have when one is the finisher.
  `FinisherInv`: no tile has two. `PendingInv` and `OrderInv`: an element that is not
  stored has a launch to come, in the order of the calls, and in the running launch a
  program that will store it; so a launch ends with its output complete, and stores
  nothing before the outputs of earlier calls are. An element the autotuner's next
  run stores again is given the same product, which is a stutter.
* **The warm set.** `LruKeepsLatest` is inductive once `used` is known to name each
  adapter once: a hit moves its adapter to the end of both orders, a miss drops the
  head of `warm`, which is the one that falls out of the window. `WarmHasNoStamp` is
  false within a tick; there, a warm adapter with a stamp has tokens in the buffer
  and will be scored before the tick ends (`StampInv`). So what the scoring does
  not clear, because its queue is empty, is not warm, and the stamps are the starts of
  the cold spells (`DeferralInv`); a stamp is older than the tick under way, hence the
  penalty is zero in the first tick of a spell only (`WindowPerSpell`).
* **The benchmark.** `ReapedByStop`: a started server whose leader was reaped is the
  one that `stop()` is at, and the health poll reaped it, or `stop()` itself just did;
  so `getpgid` finds every other group. `StopsInTurn`: a round of stops from the
  first server on leaves only servers it has not come to. `ApisRunner` takes only
  steps of `Backends` or leaves its variables alone, so the theorem carries over to
  the whole benchmark.

* **The router.** `RouterInv` numbers the adapters in the order they were dealt, by the
  traffic at the last refresh and then as they came; an adapter's shard is its number
  modulo the shards. So all adapters of a shard but its first were dealt a round after
  one of any other shard (`MatchedEarlier`): the match is one to one, hence no shard
  has two more than another (`SharedEvenly`), and at a refresh, when the numbers
  follow the rates, the matched adapter has at least the same traffic, hence the sums
  differ by at most the first one's (`TotalMatched`, `RefreshShares`). A late adapter
  goes on where the dealing stopped (`NewcomerIsNext`). The benchmark's router steps
  are the router's, so both carry over.
* **The tables.** `TablesInv`: the work list has the size for the largest batch from
  its first allocation on, so every captured graph holds the list that later steps
  rebuild in place, and the grid of its own size; and in between `Load` and `Run` the
  tables are those of the batch at hand. The rest is about one batch. A slot's
  tokens are an interval (`TokensInterval`: slots follow the tokens in order), its
  tiles cut it into rows (`RowsOfTile`, by division), and the work list has each tile
  at one place, the sum of the tiles before it (`EntryFacts`, `EntryOf`). The
  grid reaches all of them because slots share out the tokens and each adds at most
  one partial tile (`LengthsFit`, `TilesFit`, by `FiniteInduction` over the slots), which
  is the claim of the comment on `TileCap`. So a grid writes a row by the programs
  of one tile (`GridWrites`), each part once (`PartsOfGrid`). The padding tile of the list
  and slots without LoRA write nothing. The adapter is the slot's; while the runs fit
  it is the row's own, since tokens of one slot have no start between them (`SlotFacts`).
* **TablesAreRuns, MetricsAgreeAlways.** The k-th start in order has k starts up to it
  (`InOrderFacts`), so the k-th run has slot k - 1 (`SlotsAreRuns`). A sum over runs
  counts their tokens (`RunsCountTokens`, a bijection), so GWAR is the size of
  `LongTokens`, a set that shrinks with the threshold and holds every homogeneous warp:
  such a warp has no start inside it, so it is within one run (`WarpsLieInRuns`).
* **HalfTheSlotsSuffice.** A batch of the scheduler is an aligned part, a part of
  first-time groups and the padding; each entry has at most one run in either of the
  first two (`RunsOfPart`), and the padding is one run more (`EmittedRuns`). With two
  runs for each entry and one more than `LoraSlots` places in the table the runs
  fit, and `EachRowItsAdapter` applies.

Only model-checked:

* liveness (`AllServed`, `ServedUnlessStranded`, `MergedOnceQuiet`, `BenchmarkEnds`, the fairness part of
  `ImplementsProduct`), which is out of the prover's reach, like ENABLED.

Every other invariant and action property of the passing runs has a theorem. An
induction over data needs a theorem with an operator parameter, which the provers
cannot instantiate; where one is needed, it is over a set instead
(`SetInduction`, `FiniteInduction` in `SequenceLemmas`), which is why the models write
list operations as in `Queues`, without operator parameters.

No theorem depends on an unproved statement.

## 5. Not modelled, and the plan

Parts that stay out, and why:

* PI controller, Erlang deadlines, CASH scores, promotion threshold: float
  arithmetic (an inverse incomplete gamma function, a cost model over measured
  latencies). The models take any value they could give: any deadline, any order,
  any threshold.
* The arithmetic of the kernels: sums are sets of terms. `prefill_lora.py` passes
  prefill on to vLLM's kernels; the fallbacks for odd strides call them too.
* Parts that nothing but tests calls: `prefetch()`, `prefetch_schedule()`, the two
  `reset` methods beside them, the router's arrival counts.
* Engine entry points (monkey patches at start-up), workload generators, scripts,
  the metrics collectors and files.
* vLLM, which is installed and not in the repository; `AlignedScheduler`, `Admission`
  and `SegmentTables` have what the code calls or depends on. `src/deps` holds the
  systems compared against.

Worth doing next:

1. An abstract specification of the hold-back ("a first token is delayed, once,
   and at most until its deadline") that `AlignedScheduler` implements.
2. `SegmentTables` with the flags of `MergedWeightCache` as its input, so that a
   promoted segment and the table of the same step are checked together.
3. Two requests in flight per adapter and a dying server in `run()` in
   `ApisRunner`, once metrics that depend on them are modelled.
