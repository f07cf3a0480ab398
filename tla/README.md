# Formal model of the Turing engine

This directory holds TLA+ modules that model the parts of Turing whose
correctness depends on *order*: the order in which an asyncio scheduler, its
clients, worker threads, evictions and rebalances take their steps. TLC checks
them on small instances, and TLAPS proves the properties that matter most for
every value of the constants.

All paths below are relative to `src/`. Line numbers are those of the commit
that was modelled; `PROJECT.json` maps each definition to its lines.

Contents: [inventory](#1-inventory) ·
[modules](#2-the-modules-and-how-they-correspond-to-the-code) ·
[runs](#3-the-runs-their-bounds-and-what-they-show) ·
[fairness](#4-fairness) · [proofs](#5-what-is-proved) ·
[findings](#6-findings) · [limits](#7-what-is-not-modelled-and-why) ·
[plan](#8-plan) · [how to run](#9-running-the-checks)

---

## 1. Inventory

The column *Model* names the modules; `PROJECT.json` says for each component
what its model leaves out.

### 1.1 Request path

| Component | State it keeps | Operations | Interacts with | Model |
|---|---|---|---|---|
| **Continuous batching engine** `turing/serving/engine.py` | `waiting_queue`, `running_batch`, `is_running`, the scheduler task; per request `state`, `prefill_offset`, `generated_tokens`, `past_kv`, `output_queue` | `start`, `stop`, `add_request`, `stream_generate`, `submit_with_shared_prefix`, `_scheduler_loop`, `_step_batch`, `_finish_request` | drives admission, lanes and the gate by calls; hands tokens to clients through one `asyncio.Queue` per request | `ContinuousBatchEngine`, implements `TokenStream` |
| **Admission control** `turing/serving/traffic.py` | `_allocated` (bytes of each id), `_allocated_total` (their sum, kept by hand) | `admit`, `release`, `estimate_kv_bytes` | called on submission and when a request ends | `AdmissionControl`, implements `AccountBook` |
| **QoS lanes** `traffic.py` | none, beyond shed telemetry | `classify_request`, `priority`, `prefill_chunk_budget`, `should_shed` | gives the queue's sort key and the prefill chunk | `LanePolicy` (partly) |
| **Speculation gate** `turing/serving/spec_gate.py` | current mode | `gate_decision` | asked once in each scheduler pass | `SpecGate` (partly) |
| **Native traffic manager** `csrc/turing_traffic_manager.hpp` | the ledger again, behind a mutex | `admit`, `release` | stands beside the Python controller | `NativeTraffic` |
| **Request routing, cost batching** `traffic.py`, `csrc/turing_varlen_pack.hpp` | the bucket being filled | cost estimate, bucketing, packing, prefix hash | before the engine | `ComputeBatcher` (partly) |
| **HTTP servers and API adapters** `turing/serving/server.py`, `ollama_api.py`, `anthropic_api.py` | one call: what was sent, what was counted | open, stream, shed, close, disconnect | clients of the engine's token streams | `ApiFrontend` on `TokenStream` (partly) |
| **DSL** `turing/dsl/` | history of a chain and its branches, each as text and as tokens | `gen`, `select`, `constrain`, `fork`, `join` | drives a model through its own context; it does not use the engine | `ChainContext` (partly) |
| **Reasoning and structured filters** `reasoning.py`, `structured.py`, `csrc/turing_reasoning_scanner.hpp`, `csrc/turing_json_fast_scan.hpp` | mode and buffer in one stream; state of the scanner in a text | `process_token`; `repair_truncated_json` | between engine and server | `ReasoningFilter`, `JsonRepair` (partly) |

### 1.2 Memory

| Component | State it keeps | Operations | Interacts with | Model |
|---|---|---|---|---|
| **Expert cache** `turing/core/expert_cache.py`, `csrc/turing_lru_cache.hpp` | `cache_map` (ordered), `free_slots`, `pinned_keys`, `active_slots`, heat and clock, slot buffers; in the extension a second map with its own slots and pins | `get_slot`, `allocate_or_evict_slot`, `load_expert_weights`, `pin_experts`, `unpin_experts`, `resize_active_slots` | resized by the elastic manager, filled by the prefetcher | `ExpertCache`, `NativeLfruCache`, both behind one interface in `ExpertCacheBackends` (partly) |
| **Expert prefetcher** `turing/core/expert_prefetch.py` | CUDA stream, candidate list | prefetch | fetches into the cache | `Fetch`, `BackendFetch` (partly) |
| **KV page pools** `turing/core/paging.py`, `csrc/turing_paged_memory.hpp` | static pool: `allocated_pages`, `free_page_indices`, `active_max_pages`; hierarchical manager: page tables, free lists, bitmaps | allocate, free, adjust; `allocate_prompt_pages`, `append_token`, `rollback_tail`, `free_sequence` | resized by the elastic manager | `KVPagePool`, `VirtualPages` (partly) |
| **Elastic memory manager** `turing/core/elastic_memory.py`, `csrc/turing_elastic_budget.hpp` | the limits of both sides; in the extension its own counts of slots and pages | `evaluate_and_rebalance` | calls both of the above | `MemoryPlane`, `NativeElastic` |
| **Routing history** `turing/core/expert_cache.py`, `csrc/turing_routing_history.hpp` | counts, once in Python and once in the twin; a file | `record_route`, `decay`, `save`, `load`, `get_top_k_experts` | ranks experts for prefetching | `RoutingHistory` |
| **Spectral radix forest** `turing/core/radix_svd.py`, `csrc/turing_radix_trie.hpp` | tree of cached prefixes, anchors, ids | insert, split, match, anchor | reuse of KV states | `SpectralForest`, `RadixTrie` (partly) |
| **Multi-model manager** `turing/serving/multi_model.py` | registry, resident set, LRU order, byte total | register, load, evict | server | `MultiModelManager` (partly) |
| **KV event stream** `turing/serving/kv_events.py` | sequence number, replay buffer, sockets | publish, replay, stop | cache-aware routers | `KvEventStream` |
| **KV transfer, disaggregation** `kv_transfer.py`, `disagg_sidecar.py`, `pcie_swapper.py` | event loop of a sidecar; staging ring | proxy, remote prefill; send, receive, swap | prefill and decode hosts | `DisaggSidecar` (partly) |
| **Cache lineage** `turing/core/lineage.py` | append-only ledger | append, verify | agent system | not modelled |

### 1.3 Execution

| Component | State it keeps | Operations | Interacts with | Model |
|---|---|---|---|---|
| **Native worker pools** `csrc/turing_threadpool.hpp`, `csrc/turing_asynch_scheduler.hpp` | task queue, `stop`, `active_tasks_`, mutex, two condition variables | `enqueue`, `schedule_task`, `parallel_for`, `wait_all`, destructor | CPU kernels | `WorkerPool`, implements `Executor` (partly) |
| **Speculative decoding** `turing/core/speculation.py`, `csrc/turing_spec_verifier.hpp` | tokens so far, counters | draft, verify, compare with plain decoding | engine | `SpeculativeDecode` (partly) |
| **Distributed execution** `turing/serving/distributed.py`, `turing/models/tensor_parallel.py`, `turing/core/hybrid_mesh.py` | stages and the KV cache of each layer | partition, forward pass | called by `_step_batch` | `DistributedDriver` (partly) |
| **Models and weight loading**, **numeric kernels** | tensors | file formats, floating point | below the engine | not modelled |
| **Command line, benchmarks, scripts** | none | — | drivers | not modelled |

### 1.4 What is hard here, and what makes each part correct

* **Engine.** The scheduler pass and the clients interleave at every `await`.
  An exception in one request's forward pass leaves `_step_batch` half-way with
  `is_running` still set; `stop()` and `start()` can come at any time; a fork can
  fail after its first branch has been queued; a client can leave without telling
  anybody. *Correct when* each client reads exactly the generated tokens and one
  `None`; a request is in exactly one place; no KV position is skipped or fed
  twice; urgent lanes go first; budget returns whatever ends the request; and
  every accepted request finishes.
* **Ledgers** (admission, native traffic, models, native elastic). A sum is kept
  by hand beside the entries it adds up, or a count beside the thing it counts.
  *Correct when* the two agree through every sequence of calls, or differ by
  exactly what is known to be lost.
* **Expert cache.** The key order, the slots, the free list and the contents of
  the buffers are four views of one thing, changed by fetching, pinning and
  resizing in any order; with the extension a second cache answers while nothing
  is pinned. *Correct when* a hit answers with the expert's own weights, the
  capacity is usable and pins hold.
* **Page pools.** The ceiling may fall below pages that are in use, and rise
  again; a rollback empties pages; two allocators give out the same blocks.
  *Correct when* no page is lost, none is handed out twice and the tokens of a
  sequence lie at consecutive slots.
* **Prefix trees.** A split gives a part of a node to a new node, while ids,
  anchors and KV rows refer to the old one. *Correct when* what was stored for a
  sequence is still found for it.
* **Event stream.** Buffering and sending are two steps, and the replay is a
  third party. *Correct when* no event falls between replay and live stream.
* **Worker pools.** The push and the `notify_one` after it are two steps; tasks
  submit tasks; the destructor must drain. *Correct when* no wake-up is lost,
  `wait_all` is a barrier and every call returns.
* **HTTP calls.** The status is sent before the engine answers, and a client
  can go at any event. *Correct when* a cut answer never looks like a whole one.
* **Sidecars.** Blocking calls inside a coroutine stop a whole event loop, and
  two sidecars can wait for each other. *Correct when* every request is answered.
* **DSL, filters, drafts, stages, batches.** Two representations of one text, a
  stream or a sequence cut at arbitrary places. *Correct when* nothing is lost,
  doubled or put on the wrong side, wherever the cut falls.

`PROJECT.json` lists the hazards one by one at the lines where they bite.

---

## 2. The modules, and how they correspond to the code

```
AccountBook (abstract)                        TokenStream (abstract)
     ^ implemented by                          ^ implemented by     ^ built on
AdmissionControl  LanePolicy  SpecGate  QueueOrder                  |
     |        \______\_________/________/      |                 ApiFrontend
     |                   |                     |
     |          ContinuousBatchEngine ---------+        ExpertCache   KVPagePool
     |                   |                                |     \_______/
     |         MCContinuousBatchEngine                    |    MemoryPlane
     |                                                    |         |
NativeTraffic      NativeLfruCache -- ExpertCacheBackends +    MCMemoryPlane

                   Executor (abstract) <- implemented by - WorkerPool
                   RadixPaths <- used by - SpectralForest, RadixTrie

MCComponents:  AdmissionControl, NativeTraffic, MultiModelManager, VirtualPages,
  NativeElastic, NativeLfruCache, RoutingHistory, SpectralForest, RadixTrie,
  KvEventStream, ComputeBatcher, ChainContext, ReasoningFilter, JsonRepair,
  SpeculativeDecode, DistributedDriver, WorkerPool, ApiFrontend, DisaggSidecar
```

Each `...Proofs` module extends the modules it is about: one for admission, two
for the engine, and one each for the memory side (`MemoryPlaneProofs`: plane,
virtual pages, models), the native code (`NativeProofs`), the prefix indexes and
the event stream (`PrefixIndexProofs`) and the rest of the request path
(`RequestProofs`). `ListLemmas` has the facts about lists and folds that they
share. `MCContinuousBatchEngine` and `MCMemoryPlane` contain only values for constants. `MCComponents` puts
nineteen components that share no state side by side: the variable `component`
says whose behaviour it is, and the others stay in one initial state. Its
behaviours are the *sum* of those of the components, never their product, so one
run checks each of them as it would be checked alone.

### 2.1 AdmissionControl and AccountBook

`allocated` is `_allocated`, a total function with 0 for an absent id (the
default the code passes to `.get` and `.pop`); `allocatedTotal` is
`_allocated_total`. `Decision` is the pair of watermark tests, cross-multiplied
so that no fraction appears. `Admit` is `admit()` when it answers ADMIT; the
answers QUEUE and SHED return before anything is written. `ReleaseAll` is
`release()` of every id of a set in turn, the form in which an engine pass uses
it.

**AccountBook** is what the controller promises: debts, and no running sum. A
charge is allowed only if *all debts added up* stay below the high watermark.

**NativeTraffic** is the same ledger in `csrc/turing_traffic_manager.hpp`. Its
`admit()` replaces the entry of a known id but adds the whole estimate to the
sum all the same; `leaked_bytes` is a history of what was overwritten. The sum is
unsigned in the code, and an integer below zero stands for a wrapped one.

### 2.2 LanePolicy, SpecGate, QueueOrder

Operators without state. `QueueOrder` gives the two list operations of the
scheduler, the stable sort by key and the filter that keeps the unfinished, as
sets with exactly one element described by an index function: a proof can take
an arbitrary member and read off what it is, with no recursion.

### 2.3 ContinuousBatchEngine

Everything runs on one asyncio loop, so the code between two awaits is one step.

| Action | Code |
|---|---|
| `Submit(r)` | `stream_generate` up to its first wait, with `add_request`: estimate, `admit`, enqueue or reject |
| `Fork(a, b)` | `submit_with_shared_prefix` with two branches; three outcomes, one of which raises with the first branch queued |
| `Read(r)`, `Abandon(r)` | one `queue.get()` of the client; the client closes its generator |
| `Iterate` | one whole pass of `_scheduler_loop`: gate, sort, seat, `_step_batch` with chunked prefill and decoding, `_finish_request`, filtering |
| `IterateRaises` | the same pass when something in `_step_batch` raises, with exactly the effects that precede the exception |
| `Start`, `Stop` | `start()`, `stop()`; `Start` does nothing while `is_running` is set, also when the task has died |

A request is an id that stands for one `AsyncSequenceRequest`. The k-th token is
the number k and `None` is `End`, so the contents of a stream say by themselves
whether a token was lost, repeated or reordered. `kv` is the number of positions
in `past_kv`, which is what "fed twice" or "skipped" is about.

`IterateRaises` distinguishes the points at which the code can be interrupted:
in the forward pass of the prefill, in the sampling of the first token, in the
decoding of the d-th request. Batched decoding runs the model for all requests
before it samples any token, so an exception there leaves every `past_kv`
advanced; sequential decoding leaves those before the failing one done.

`client = "rejected"` is the client whose `add_request` was shed; its queue
still gets the `None` that nobody reads.

**TokenStream** is what `stream_generate` promises one caller: the request is
accepted or refused once, its tokens are produced and taken in order, and the end
comes after the last. The engine implements one such stream for each request
(`StreamsSpec`, with a refinement mapping that reads `full` and `produced` off
the request and `taken` and `reader` off its client).

### 2.4 WorkerPool and Executor

One module for `AsynchTaskScheduler` and `ThreadPool`, which is the same loop
without the counter. A block that holds the mutex is one step; a notification is
a step of its own, because the code notifies after unlocking. A waiting thread
may wake up without a reason. `Executor` is the promise: a task that was
accepted is executed once, and a closed pool has nothing left.

| Action | Code |
|---|---|
| `Schedule`, `NotifyOne` | `schedule_task`/`enqueue`: push under the mutex, `notify_one` after it |
| `AwaitFutures`, `FuturesReady` | the end of `parallel_for` |
| `WaitAll`, `CheckIdle`, `CallerWakesUp` | `wait_all`: the predicate at once and after each wake-up |
| `Destroy`, `NotifyWorkers`, `Joined` | the destructor: `stop`, `notify_all`, `join` |
| `Take`, `FallAsleep`, `Leave`, `WakeUp` | the worker's block at the top of its loop |
| `Spawn`, `NotifySpawned`, `Return` | inside `task()`: submissions of its own, and its end |
| `Count` | the block that decrements the counter and notifies `wait_all` |

### 2.5 ExpertCache, KVPagePool, MemoryPlane

`ExpertCache` is `GPULRUExpertCache` on its `cache_map` path: policy `"lfru"`,
the default, and `"lru"` in a build without the native cache. Every access moves
a key to the end of `cache_map` and stamps it with the clock, so one relation,
`older`, is both orders; the LFRU score (heat first, then recency) is the least
heat and then the oldest. `content` is a history of what was copied into each
slot of the buffers. `Fetch` is `allocate_or_evict_slot` followed by
`load_expert_weights`, which is what a prefetch does for each missing expert,
and it has the code's three outcomes: `TakeFree`, `Replace` and `Retain`.

`KVPagePool` is `StaticPagedKVPool`. Its free list is always in increasing
order, so a set suffices.

`MemoryPlane` composes both with `ElasticMemoryBudgetManager`: one call of
`evaluate_and_rebalance` resizes the cache and the pool in one step, with the
roundings and clamps of both directions.

Environment assumption: `Pin` is called with at most `num_slots` keys. Beyond
that the code raises `active_slots` above the number of buffers
(`expert_cache.py:233`) and its free list then names slots that do not exist.

`NativeLfruCache` is `LFRUExpertCacheFast` of the extension: keys to slots, slots
with heat, pin and clock, and an `allocate_or_evict_slot` with its three outcomes
(present, entered, refused). A history, `callersPins`, is the set of keys that
callers pinned while they were there. `ExpertCacheBackends` puts it behind
`GPULRUExpertCache`: under policy `"lru"` every call goes to the native cache
while nothing is pinned and to `cache_map` from the first pin on (`AsksNative`);
the slot buffers are the same. A refused slot is -1, and `Row` is what a tensor
makes of it.

`NativeElastic` is `ElasticBudgetController` with what the Python side does with
its answer: `countedSlots` and `countedPages` are what the controller believes,
`heldSlots` and `heldPages` what the cache and the pool hold after `Apply`, and
`ChangePins` moves the one without telling the other. Pages times bytes per page
are an `int` and wrap (`Wrapped`). The division that follows is one of floats: a
quotient of numbers that floats hold exactly is exact, and any other is taken to be
any number within the rounding (`FloatCeilings`, `FloatFloors`). Bytes are counted
in units of a power of two that divides both sizes, which changes neither.

`RoutingHistory` counts each route twice, as the code does, over the sessions of
a program: `NewSession` keeps only the file.

### 2.6 VirtualPages, MultiModelManager

`VirtualPages` is `HierarchicalVirtualPageManager`. A page table is a sequence of
entries with tier, block and the number of tokens in the block; the token tensors
are abstracted to that number. `hasCsrc` says whether prompts are allocated from
the native bitmaps; a bitmap is a set, read in ascending order (`FromLowest`).
`forgotten` is a history of the blocks of tables that a second
prompt of the same sequence has replaced, which the code never frees.

`MultiModelManager` has one action per method. `GetOrLoadModel` is one step with
all the evictions inside it: the method does not give up control.
`driftedVram` records that a model was registered again after it was used.

### 2.7 RadixPaths, SpectralForest, RadixTrie, KvEventStream

A radix tree is determined by the set of the paths of its nodes; `RadixPaths` has
the operators on such sets (the nodes on the way along a sequence, the longest
match, the parent), and the two trees add what they hang on the nodes. In
`SpectralForest` that is, for each node, the tokens its KV rows were *computed
from* (`contexts`): a row computed behind one prefix and found behind another
shows at once. In `RadixTrie` it is the id; `answered` remembers what `insert()`
returned, which is what callers keep.

`KvEventStream` has a publisher's two steps (`BufferEvent` under the lock,
`SendEvent` after it), the replay listener (`StartReplay` copies the buffer,
`ReplayOne`, `EndReplay`), and `StartPublisher` and `StopPublisher`. The
subscriber and the lossy sockets are external.

### 2.8 ComputeBatcher, ChainContext, ReasoningFilter, JsonRepair

`ComputeBatcher` takes one request per turn of the loop of `bucket_requests()`;
packing is a pure operator that the property compares with the lists it packs.

`ChainContext` has the primitives of the DSL. Texts and token lists are sequences
of pieces; what the model generates is any draft, truncated or not. `loose`
records the two operations that part text and tokens on purpose: a concat join
and a repaired draft.

`ReasoningFilter` reads one token per step, a token being a short sequence of
tags and words; the words of a stream are numbered, so that a lost, doubled or
misplaced word shows. The property compares with what a reader of the whole text
would find (`Thought`). `ReasoningAssumption` gives a token one tag at most, as
tokenizers cut them.

`JsonRepair` extends a text symbol by symbol, so that every state is a place where
a text may be cut. The Python scanner and the native one are compared at each;
`Skipped` are the blocks that the native one passes by without looking.

### 2.9 SpeculativeDecode, DistributedDriver

The target model is any function of the last token. `VerifyRound` verifies a run
of drafts with one of the two verifiers of the code, and `GreedyParity` is the
comparison of `SpecExactParityVerifier` in blocks of `CompareWidth`.

`DistributedDriver` makes the forward passes of one request, through the model
(`pp_size = 0`) or through a number of pipeline stages. A row of a cache is the
layer, the position and the token that made it.

### 2.10 ApiFrontend, DisaggSidecar

`ApiFrontend` EXTENDS `TokenStream`: a handler of the five generation routes, in
streaming and in plain form, takes tokens from one stream and sends events. The
bodies of the routes differ in their opening and closing events, which are
tables (`Preamble`, `Closing`); a client may disconnect before any event.

`DisaggSidecar` has one sidecar per pod. `running` is the job whose handler keeps
the event loop; a handler runs from the end of `request.json()` to its answer
without giving the loop back, because it calls `urlopen`. A delegated job waits
in `accepted` of the other pod. `GivesUp` is the timeout of a call.

---

## 3. The runs, their bounds, and what they show

State counts are the distinct states of TLC with the given configuration.

| Run | States | Question |
|---|---|---|
| `components` | 253,405 | Do nineteen components, each on its own, keep what they promise? |
| `engine_safety` | 62,000 | Are streams, contexts and orders right through submission, forks, chunked prefill, decoding, clients that leave, stop and restart? |
| `engine_faults` | 25,656 | What survives an exception anywhere in a step, an empty prompt and a request for no tokens? |
| `engine_liveness` | 17,340 | Is an urgent request served although others submit for ever; and when they rest, does every accepted request finish and every reader reach its end? |
| `memory_plane` | 175,214 | Do cache, pool and rebalancing lose or share anything; is memory created? |
| `engine_overcommit`, `engine_prefill_priority`, `expert_lfru`, `expert_native`, `driver_kv`, `radix_insert`, `api_shed` | — | The seven disagreements of [section 6](#6-findings) |

### 3.1 What the properties say

*Engine* (`engine_*`):

* `ContextExact` — `past_kv` covers prefix, prefilled prompt and all generated
  tokens but the last.
* `FirstTokensInOrder` — nobody in the batch is overtaken while it prefills.
* `SeatsInLaneOrder` — no pass seats a request ahead of a more urgent one or of
  an earlier one of its lane.
* `PrefillNeverStallsDecode` — a pass that feeds a prompt chunk gives every
  decoding request its token.
* `StreamsSpec` — the engine is, for each request, a `TokenStream`.
* `StreamExact` — the output queue is, at every moment, the tokens between what
  was taken and what was generated, in order, and `None` exactly after the last.
* `OnePlace` — an accepted request is in the queue or in the batch, once.
* `ChargedAreLive` — only queued and running requests hold budget.
* `AcceptedFinish`, `StreamsEnd`, `UrgentServed` — the liveness properties.

*Memory* (`memory_plane`):

* `HitServesItsWeights` — a resident's slot holds its own weights.
* `RoomIsUsable` — never more residents than active slots, and below that a free
  slot.
* `PinnedStay` — a pin is broken only when everything is pinned.
* `PagesAccounted` — the free list is exactly the unheld pages below the
  ceiling, and no page has two holders.
* `BytesAreTraded` — a rebalance never increases the bytes given out, except at
  the cache's floor.

*Components* (`components`):

| Property | Component | What it says |
|---|---|---|
| `TotalIsSum`, `BookSpec` | admission | the ledger and its sum agree, and the test that reads only the sum lets nothing through that adding up would refuse |
| `NativeSumCovers` | native traffic | the sum is the entries plus exactly what a re-admission overwrote, so it never wraps and the entries stay below the watermark |
| `LoadsStayInBudget` | models | a load ends within the budget or with everything else evicted, and evicts in LRU order, until a used model is registered again |
| `PagesExact` | virtual pages | the tokens of a sequence are at consecutive slots, and (without the native allocator) a block is in one place unless its table was forgotten |
| `HeldBytesAreTraded` | native elastic | a rebalance of bytes that an `int` can hold does not grow the memory that is *held* (beyond the rounding of floats), although the controller counts only what it granted |
| `PinsStayWithExperts` | native experts | map, slots and free list tell one story, and pins belong to experts and not to slots |
| `RankingIsTheCounts` | history | the twin's ranking is that of the counts, as long as no history was loaded into it |
| `ForestExact` | forest | rows were computed for the tokens of their node, the count of cached tokens is right, and anchors survive splits |
| `IdsKeepTheirSequence` | trie | an id that `insert()` returned names its sequence for ever |
| `NoEventIsMissed` | events | no event falls between a replay and the live stream |
| `BatchesSound` | batcher | batches keep every request once and in order, each within its limits and none closed early, and packing can be undone |
| `TextIsTokens` | chain | the tokens fed next are those of the text the caller sees, in the chain and in every branch |
| `WordsKeepTheirSide` | reasoning | every word goes to its side once and in order |
| `RepairCloses` | JSON | a text cut anywhere (but on an escape) is closed by both scanners, by the native one unless it skips the symbol that is escaped |
| `SpecIsGreedy` | speculation | rounds of drafts emit what plain decoding emits, and the parity verifier would notice any one change |
| `CachesExact` | driver | every layer runs once per pass and its cache has a row for each token, in order |
| `SleepersAreSeen` | pool | no lost wake-up of a worker, nor of a caller in `wait_all` |
| `WaitAllMeansDone`, `ExecutorSpec`, `CallsReturn` | pool | `wait_all` is a barrier; the pool implements the executor; every call returns |
| `ResponseComplete`, `ResponsesEnd` | API | a cut answer never looks like a whole one; every call ends while the engine serves the streams it has opened |
| `RequestsEnd` | sidecars | every request a sidecar accepts is answered, also when two delegate to each other |

Every property of a passing run has at least one mutant of a mapped definition
in `PROJECT.json` (a dropped count, a forgotten notification, an uncut chunk, a
pin that is not looked at, closers in the wrong order, ...) under which TLC finds
it violated.

### 3.2 Bounds, and why they are enough

*Engine and memory plane*

* *Engine safety*: three requests of three lanes, estimates 6, 5 and 5 of a
  budget of 12, so the same request is admitted, queued or shed depending on who
  came first. Two seats for three requests, so one must wait. Prompts of two or
  three tokens against chunks of one or two, so prefill takes several passes with
  a cut last chunk. Two forks: of the pair (a, b) either branch may be shed.
* *Engine faults*: any step may raise. A request that dies and is resumed feeds
  tokens again without an end, so `MaxContext` = 5 bounds `kv` in
  `IterateRaises`; that is past the longest context of a complete request here
  (4), so several failures and restarts fit. One prompt is empty, one request
  asks for no token.
* *Engine liveness*: two urgent requests and a background one for two seats,
  submitted again for ever (`Reuse`), so that an urgent one may find both seats
  taken. The two urgent ones also come as a fork. Submitted alone, b has a compressed
  estimate and all three fit a budget of 100 (36, 9 and 24); forked it has not, and
  beside c it is shed, which orphans a.
* *Memory plane*: four experts for three slots with a floor of one, so evictions,
  shrinking below the residents and pins that block them all happen; three pages
  for two requests with a ceiling of one to three; slots of 3 bytes and pages of
  2, so that neither divides the other and every rounding is exercised. The code's
  release step of 16 pages is 2. `MaxHeat` = 1, as LRU never reads heat.
  Experts and requests are interchangeable, hence the symmetry set.
* *LFRU* (`expert_lfru`): three experts, two slots, heat up to 8, past the
  hysteresis margin of 4.
* *Overcommit* (`engine_overcommit`): two requests, each with an estimate of 11,
  which lies in the QUEUE band of a budget of 12 (10.8 to 11.4), so that neither is
  charged and both find a seat.
* *Prefill priority* (`engine_prefill_priority`): a budget of 100 refuses nobody;
  three requests, one interactive and one background, for two seats.

*Components* (`components.cfg`; distinct states of each in brackets)

* *Admission* (214), *native traffic* (1,509): three ids, a budget of 20 and ten
  estimates from 0 to 20. One, two or three of them fit below 18 (90 %), 18 is the
  first that is queued, 19 the first that is shed. `MaxNativeBytes` = 40 bounds
  the sum that leaks; admission ends at 18, so leaks past it are included.
* *Models* (5,475): three models of size 1, 2 or the default 2 under a budget of
  3: one eviction, two evictions and nothing left to evict all happen. `MaxVram`
  bounds the drift.
* *Virtual pages* (23,087): two sequences; tiers of 4, 3 and 2 tokens with 1, 1
  and 2 blocks, so every tier runs out; prompts of up to 5 tokens need two or
  three tiers. Both builds.
* *Native elastic* (300): slots of 3 bytes, pages of 2; 1 to 4 slots, 1 to 6
  pages, steps of 2, any number of pins. An `int` is below 9 and floats are exact
  up to 6, so that the largest trades wrap and the next smaller ones round.
* *Native experts* (2,980): three experts for two slots; candidates with heat 1,
  which a full cache refuses, and 6, which replaces a cold victim; heat up to 7.
* *History* (7,694): two experts, counts up to 4, both builds, any number of
  sessions.
* *Forest* (11,930), *trie* (51,896): two tokens and sequences of up to three give
  every relation of two paths (prefix, extension, split, disjoint); three
  insertions or four nodes split what was split before.
* *Events* (7,881): two publishers, four events and a buffer of two, so events
  leave the buffer before, during and after a replay.
* *Batcher* (1,138): up to four requests of six shapes; cost 12, size 3 and
  tolerance 50 % are each the limit that closes some batch.
* *Chain* (35,711): two branches, histories of two pieces, a good draft and one
  that is truncated.
* *Reasoning* (5,647): up to six pieces in tokens of eight shapes, at most one tag
  in each, as tokenizers cut them.
* *JSON* (66,430): texts of up to five of nine symbols: two containers and a
  string, cut anywhere. `BlockWidth` = 2 makes the native scanner skip blocks; with
  five symbols a string can hold an escape, a skipped block behind it and its
  closing quote, the shortest text on which the two scanners differ.
* *Speculation* (320): every target function on two tokens, up to three drafts
  and four tokens; comparison in blocks of two, so whole blocks and a rest occur.
* *Driver* (118): three layers on 0 to 6 stages (more stages than layers
  included), passes of up to three tokens, five tokens in all.
* *Pool*, *API*, *sidecars* (31,075 together): two workers and two callers give
  every pairing of sleeper and notifier, and one of three tasks is submitted from
  inside another; calls that ask for 0 to 2 tokens against a default of 3; two
  pods and two requests, which may delegate to each other.

Deadlock is checked in every run but `components`, whose parts may stop: a text
that is whole, a destroyed pool, an HTTP call that has ended, a bounded counter.
The violation runs `driver_kv`, `radix_insert` and `api_shed` have such ends too.

---

## 4. Fairness

* **Engine** (`FairSpec`): weak fairness of `Iterate`, because the scheduler task
  sleeps for a fixed time and the event loop runs it again, and of `Read` for each
  client, because a coroutine waiting in `queue.get()` is resumed once an item is
  there. Nothing makes anybody submit, start or stop. The liveness properties are
  therefore conditional on `SchedulerStays`: from some moment on nobody stops the
  engine. Without that condition they are false, and rightly so: `stop()` leaves
  clients waiting. `AcceptedFinish` and `StreamsEnd` are also conditional on
  `ClientsRest` (submissions cease), since a background request starves while
  urgent ones keep coming; `UrgentServed` is not.
* **Worker pool**: weak fairness of each worker's next step, each caller's next
  step inside a call, and the owner's next step in the destructor: the operating
  system schedules runnable threads and tasks end. No fairness of making a call,
  of destroying the pool, or of a spurious wake-up; a lost wake-up cannot hide
  behind a lucky one.
* **HTTP calls** (`ApiSpec`): weak fairness of the handler's next step, and of
  nothing else. The engine may stop producing at any token: the server starts it
  once (`server.py:94`), an exception in a step ends the scheduler task for good,
  and a low lane may starve. `queue.get()` has no timeout, so a call whose tokens
  stop coming hangs until its client leaves, and "every call ends" is false as it
  stands. `ResponsesEnd` is therefore conditional on `EngineServes` (a stream that
  is being read is completed or left), which is what the engine's own liveness
  properties establish while its scheduler stays, nothing raises and submissions
  of more urgent lanes cease.
* **Sidecars** (`SidecarFairness`): for each pod, its event loop runs what is
  ready while nobody keeps it (`BeginHandler`), and a blocking call returns,
  because sockets time out after `timeout_s` (`CallEnds`).

`ComponentsFairness` states the last three for a behaviour of the component in
question and for no other. The other specifications have safety properties only.

---

## 5. What is proved

The theorems hold for *every* value of the constants that satisfies the named
assumptions of the modules: `AdmissionAssumption`, `LaneAssumption`,
`GateAssumption`, `EngineAssumption`, `PoolAssumption`, `CacheAssumption`,
`PagesAssumption`, `PlaneAssumption`, `VirtualPagesAssumption`,
`ModelsAssumption`, `NativeTrafficAssumption`, `LfruAssumption`,
`HistoryAssumption`, `BudgetAssumption`, `EventsAssumption`,
`BatcherAssumption`, `SpecAssumption`, `DriverAssumption`, `JsonAssumption` and
`ReasoningAssumption`. They give types and exclude empty resources; beyond that,
`BudgetAssumption` gives a float more than two bits and `ReasoningAssumption` gives
a token one tag at most. Sets of ids, workers, publishers and experts are finite, of
any size; sequences, streams, texts and trees are of any length.

| Module | Theorems | Inductive invariant |
|---|---|---|
| `AdmissionControlProofs` | `AdmissionTypeCorrect`, `TotalNeverDrifts`, `HighWatermarkHolds`, `AdmissionImplementsBook` | `AdmissionInv` |
| `ContinuousBatchEngineProofs` | `EngineTypeCorrect`, `StreamsAreExact`, `RequestsInOnePlace`, `ChargesAreLive`, `EngineTotalNeverDrifts` | `EngineInv` |
| `EngineContextProofs` | `ContextStaysExact`, `NobodyIsOvertaken`, `DecodingIsNeverStalled` (without faults), `LanesGoFirst`, `EngineImplementsStreams` (ids used once) | `ContextInv` |
| `MemoryPlaneProofs` | `PagesAreAccounted`, `LruServesItsWeights`, `LruRoomIsUsable` (both `"lru"`), `PinsHold`, `RebalancingCreatesNothing` | `PagesInv`, `PlaneInv`, `RoomInv`, `TypesInv` |
| | `LoadsFitTheBudget`, `PagesAreExact` | `ModelsInv`, `PagingInv` |
| `NativeProofs` | `NativeSumNeverWraps`, `PinsBelongToExperts`, `BothCountAlike`, `NativeRebalanceCreatesNothing` | `NativeInv`, `LfruInv`, `HistoryInv`, `ElasticInv` |
| | `PoolTypeCorrect`, `NoWakeUpIsLost`, `WaitAllIsABarrier`, `PoolImplementsExecutor` | `PoolInv` |
| `PrefixIndexProofs` | `ReplayLeavesNoGap`, `TrieIdsKeepTheirSequence`, `ForestIsExact` | `EventsInv`, `TrieInv`, `ForestInv` |
| `RequestProofs` | `ApiResponseComplete`, `SpeculationIsGreedy`, `ChainTextIsTokens`, `DriverCachesExact`, `BatchingIsSound`, `WordsAreSorted` | `ApiInv`, `SpecInv`, `ChainInv`, `DriverInv`, `BatcherInv`, `ReasoningInv` |
| | `RepairsClose` | none: it holds of every text |

**Lists and folds.** `ListLemmas` says what sorting, filtering, cutting and joining
keep of the items and of their being distinct. The recursive functions of the
models (a sum, a scan, a flattening) are of one shape: the value at `i` is that at
`i - 1` taken one step on. `StepwiseFunction` says that such a function exists
and has its equations, from the existence of a first place without a value
(`LeastNatural`, the library's induction on naturals being out of reach because it
takes an operator). What holds of all values is then again shown by the first
place where it would not, and what holds of finite sets by `InductionOnSets`, in
which the property is a set of sets.

**Ledgers.** `TotalIsSum` and `ChargedBelowHigh` need each other: the test
reads the running total, so it bounds the real charges only while the total is
their sum, and `max(0, ...)` in `release` is harmless only because a part of a
sum does not exceed it. The sum is the cardinality of a set of (id, byte) pairs,
which makes its arithmetic a matter of the library's facts about finite sets.
The refinement follows: an `Admit` step charges an account whose debts, added
up, stay under the watermark. For the native ledger the same argument bounds the
entries, and the leaked bytes only make its test stricter.

**Engine.** `StreamExact` is not inductive by itself. That a token is emitted
only to an open stream needs `OnePlace` (who is seated was waiting, so not
finished); that the `None` comes with the last token needs `StillDue` (a live
request still owes a token); that a chunk ends inside the prompt needs
`OffsetInPrompt`; that a charge returned is a charge held needs `AdmissionInv`.
`EngineInv` is the conjunction of these with `EngineTypeOK` and `ChargedAreLive`.
A whole pass and a pass that raises have the same shape (`Effects` of some sets
of requests), so one lemma, `PassKeepsInv`, covers `Iterate` and all the
interruption points of `IterateRaises`.

`ContextExact` and `FirstTokensInOrder` are proved under `NoFaults` (nothing
raises and no prompt is empty), because an exception does make a context run
ahead of its tokens. `ContextInv` adds to `EngineInv` two facts
that neither property gives: who has not been fed yet is at the start of its
prompt and has no token (`UnfedIsFresh`), and a batch holds no finished request
between two passes (`BatchIsLive`). `EngineImplementsStreams` maps every step
of the engine, a pass over a whole batch included, to a step or a stutter of each
request's own stream; it assumes that ids are not submitted a second time, since
a stream is one request's.

`LanesGoFirst` needs no invariant beyond `EngineInv` and holds in passes that
raise: a pass seats the front of the sorted queue (`SeatedComeFirst`), and of two
requests a stable sort puts the one with the smaller key, or the earlier of equal
keys, first (`SortOrders`). Nothing but a pass seats anybody (`OnlyPassesSeat`).
`DecodingIsNeverStalled` reads off the shape of a pass that every decoder is
among those that get a token when anything is prefilled; it is false once
something may raise between the two.

**Worker pool.** No wake-up is lost because of a conjunct about something else:
a worker is `gone` only when the queue was empty and the pool stopped
(`LeavingInOrder`), so while a task is queued `notify_one` either finds a sleeper
or everybody is awake. `wait_all` is a barrier because the counter is exact
(`ActiveExact`: it counts the workers between their two blocks), the queue holds
each queued task once (`QueueExact`) and each running task is held by one worker
(`HoldsExact`): an empty queue and a zero counter leave no task accepted and not
done. The destructor's promise uses the same facts with all workers gone.

**Memory plane.** `PagesInv` is inductive by itself and independent of the
eviction policy. For the cache, `HitServesItsWeights` needs that no resident's
slot is free; that two residents never share a slot follows from it, since a
slot holds one expert's weights. That theorem assumes `Policy = "lru"`; under
`"lfru"` the property is false (section 6). `PinsHold` and
`RebalancingCreatesNothing` hold for both policies and need only the types
(`TypesInv`): the first goes through every way in which a resident can leave, the
second is the arithmetic of one trade, split into lemmas about the two roundings
(what is rounded down costs no more, what is rounded up pays no less) and one
about the trade that pays for its pages in slots.

`RoomIsUsable` needs more than `PlaneInv`: that the residents stand in one row
(`InARow`), since the code evicts from the front of `cache_map`, and that the free
slots are exactly those below the capacity that nobody has. Then shrinking leaves
no more residents than slots, because those it spares beyond the pinned ones can
be counted by their rank in the row (`TheRestIsLess`, an injection into an
interval) and the new size is never less than the number of pins; and a cache
that is not full has a free slot, because slots and residents are paired one to
one (`RoomInvMakesRoom`). It assumes `Policy = "lru"`.

**Native code.** `PinsStayWithExperts` is inductive together with the types and
the fact that no slot is free twice (`LfruInv`): a fetch moves one key into one
slot and at most one other key out of it (`EnterMoves`), and the pin bit is reset
with the slot. `HeldBytesAreTraded` rests on an inequality, not on agreement: the
cache may hold more slots than the controller counts, because pins keep them, but
never fewer (`ElasticInv`), so a trade that is fair in the counts is fair in what
is held. The sizes are any, and so are the widths of `int` and float. Fairness is
stated of trades below `IntRange` bytes, whose product does not wrap
(`WrapsNothing`): beyond it the theorem would be false (section 6). What is rounded
up pays for the pages up to the rounding of floats, and what is rounded down costs
no more than that (`CeilingsPay`, `FloorsCost`); where floats hold the numbers
exactly, nothing is lost. The history's twin is equal to the counts until something is loaded.

**Event stream.** `NoEventIsMissed` needs to know where an event can be that the
subscriber has not got: in the buffer (which is always the latest events), in a
snapshot under way, or with a publisher between its two steps. `EventsInv` says
exactly that for every state of the listener.

**Prefix trees.** A split adds the head and keeps the other paths, so the nodes on
the way along a sequence before and after can be compared (`RadixPaths` with
lemmas about the longest member of a set of prefixes). `TrieIdsKeepTheirSequence`
needs that the ids in use are exactly those below the counter, so that a new one is
new: `TrieInv` counts the nodes. What `insert()` answered is the id of the node
whose path is the whole sequence, and a split gives the head, not the tail, the
new id. `ForestIsExact` needs that two children of the root start with different
tokens (otherwise the split would depend on which one is found), that each node's
rows end with its own tokens, and the count of rows as the cardinality of a set of
(node, row) pairs; a split moves rows from one node to two and the new rest adds
its own, which is arithmetic of disjoint finite sets.

**HTTP calls.** `ApiInv` gives each event of the body by its place
(`EventAt`: preamble, deltas, closing events) and says how far each state of a
call has got. The terminator being the last of the closing events, it is there
only when the call is done, which it is only after the stream's end.

**Speculation, chain, driver.** `SpecInv` says that each decoded token follows the
one before it. Both verifiers keep the drafts up to the first that differs from the
target and add the target's own (`AgreeingFollow`, `CorrectionFollows`); the parity
check compares whole blocks and a rest, which together are all places. `ChainInv` carries the
prefix relation of a fork through appends and joins. `DriverInv` is about the
caches of all layers; that a pass goes through each layer once follows from the
stages cutting the layers into consecutive parts without a gap.

**Batcher.** `BatcherInv` says that the closed batches, the current one and what is
left are, joined together, what arrived. A batch is closed only if the next request
would have broken a limit, so of two neighbouring batches the first one with the
head of the second is not sound (`ClosedSound`). That packing can be undone is a
lemma about the partial sums of the lengths (`PackingCutsBack`).

**JSON.** `RepairsClose` is about any text, so it needs no invariant but that the
text is one. The scan of a text joined to another is the second scanned from where
the first left off; the closers undo the stack from the top, one symbol each; and
tidying takes and adds only symbols that say nothing to the scanner.
The native scanner agrees with the Python one as long as no block is skipped right
behind an escape: a skipped symbol leaves an unescaped state as it is.

**Reasoning filter.** `ReasoningInv` ties the mode of the filter to the text so
far: it is in a block exactly where the text has opened one and has not closed it,
and what is held back contains no closing tag. A token has one tag at most, so it
is cut into what stands before the tag and behind it, and the words of each part
lie on one side of the whole text (`WithinJoined`). That the words come out once
and in order are facts about the numbered words of joined texts (`JoinedWords`,
`JoinedInOrder`).

**Models.** `EvictingKeepsTheSum` follows the running sum through the evictions
inside one load: after i of them it is the sum of what is left, so the test that
stops them is a test of the real sum, and when it never succeeds, everything is
evicted. That needs the LRU list to name each model once and every resident
model (`ModelsInv`). The evicted ones are the first residents of the list,
hence used before those that stay.

**Virtual pages.** `PagingInv` is three things: types, `TablesHold` (each table is
dense and holds as many tokens as the sequence has) and `BlocksPlaced`, stated
without counting: free lists and tables name no block twice, no two of them share
one, and every block is in one of them or lost (`Exact`). One lemma covers each
operation in which one table changes (`Divided`: the blocks of the table and of the
free lists are divided anew). The rest is about one table: a prompt fills its
pages tier by tier and its last page with the remainder; a rollback pops the
fewest pages that leave no more to discard than the last one holds; and the
blocks a rollback or a free returns are those of the popped pages.

**Only model-checked.** Liveness, fairness and ENABLED are outside the prover's
reach, so `AcceptedFinish`, `StreamsEnd`, `UrgentServed`, `CallsReturn`,
`ResponsesEnd` and `RequestsEnd` are checked by TLC only. Every invariant and
action property that a passing run checks, and each refinement, is proved, under
the conditions that the table and the properties name.

---

## 6. Findings

Each is a run in which TLC finds a statement of the repository violated by what
the code does.

1. **The watermarks do not keep memory within the budget**
   (`engine_overcommit`, `HeldWithinBudget`). `add_request`
   (`turing/serving/engine.py:192`) refuses only SHED. A request answered QUEUE
   joins the same queue as an admitted one and takes the next free seat, whatever
   memory is in use, with nothing charged for it. Two requests of estimate 11 in the
   QUEUE band of a budget of 12 are seated in one pass and soon hold 9 and 6
   positions in `past_kv`, while the ledger stays at 0. `docs/architecture.md:147`
   says the dual watermarks "completely prevent host/GPU memory exhaustion", and
   `docs/serving.md:332` that the high one queues "before physical memory is
   exhausted".
2. **The prefilled request is not the most urgent one**
   (`engine_prefill_priority`, `PrefillsMostUrgent`). `_step_batch` takes
   `prefill_reqs[0]` (`engine.py:294`), the first *seated*; the comment at
   `engine.py:293` says "Process highest priority prefill request". A background
   request is seated alone, then an interactive one beside it: the next chunk is
   again the background one's, and the interactive request, though in the batch,
   waits for the whole prompt of the other.
3. **A rejected expert overwrites the retained one**
   (`expert_lfru`, `HitServesItsWeights`). When hysteresis keeps the coldest
   resident (`turing/core/expert_cache.py:350`, "Retain coldest if incoming does
   not meet hysteresis margin"), its slot is still given to the newcomer, which is
   entered into `cache_map` beside it (line 363) and loaded over it. The next hit
   on the retained expert serves the other's weights. Four fetches into two slots
   suffice.
4. **A refused slot is used as a slot** (`expert_native`, `FetchedAreServed`).
   With the extension and policy `"lru"`, the native cache refuses a candidate of
   the default heat once it is full and answers -1; `allocate_or_evict_slot`
   returns that as the slot (`expert_cache.py:328-330`), and the weights go into
   the last row of the buffers, whose expert stays in the map. The docstring
   (`expert_cache.py:318`) says "If full, evicts unpinned expert by LRU or LFRU".
5. **A pipeline pass starts at position 0 again** (`driver_kv`,
   `DriverIsTheModel`). The engine passes no `start_pos` (`engine.py:301`), so the
   second chunk of a prompt is rotated like the first, where the model takes the
   length of its cache. With several stages, each looks its layers up by their
   place in the stage (`tensor_parallel.py:217`). `distributed.py:146` says
   "Single stage: full forward pass".
6. **A prefix that extends another is not matched** (`radix_insert`,
   `InsertedPrefixMatches`). The remainder of an insertion is inserted from the
   root again (`radix_svd.py:124`), not below the node it extends; the docstring
   (`radix_svd.py:156`) says `match_prefix` finds the "longest token prefix". The
   rows of the remainder, computed behind that prefix, match as the beginning of
   another prompt.
7. **A shed call is not answered with 503**
   (`api_shed`, `ShedAnswers503`). The `RuntimeError` of `engine.py:195` has no
   handler in `server.py`: a plain call ends in status 500, a streamed one, whose
   status 200 is already sent, breaks off. `docs/serving.md:333` says "Rejects
   background/batch requests with HTTP 503", `docs/architecture.md:147` "shed
   rejection (0.95, HTTP 503)". Nor does any route answer 429 with `Retry-After`: a
   request in the QUEUE band is taken like an admitted one (finding 1).

Three more show in the models without a run of their own:

* In `csrc/turing_elastic_budget.hpp:63` pages times bytes per page are an `int`.
  From 2 GiB in one rebalance on, the product wraps to a negative number and
  `std::max(1, ...)` makes one slot of it: 64 more pages of 32 MiB are paid with one
  slot of 48 MiB instead of 43. The Python path (`elastic_memory.py:121`) does not
  wrap (`PageBytes` in `NativeElastic`; hence the condition in
  `HeldBytesAreTraded`).
* The first `pin_experts` switches `get_slot` and `contains` from the native cache
  to `cache_map` (`expert_cache.py:269`, `283`), which has not seen the experts
  that were fetched before: an expert that was served and is then pinned is served
  no more (`BackendPin` in `ExpertCacheBackends`).
* `load()` restores only the Python counts (`expert_cache.py:132`), while the
  ranking is the native twin's (lines 86-87), so a loaded history ranks nothing in
  a build with the extension, against `docs/comparison.md:91` (`LoadHistory` in
  `RoutingHistory`; hence the condition in `RankingIsTheCounts`).

---

## 7. What is not modelled, and why

*Out of TLC's reach or without decisions*

* Floating point and tensors: kernels, routing scores, SVD compression, sampling,
  weight files, collective calls. The engine sees one forward pass that may raise,
  the forest sees which tokens a row was computed from.
* Pure I/O and formats: parsing, request bodies, KV serialisation, the command
  line and scripts. The native HTTP server (`csrc/turing_http_server.hpp`) serves
  one connection at a time and keeps no state between them.
* Telemetry: counters that no decision reads (shed counts, hit rates).

*Outside the models' assumptions*

* With the native allocator, `append_token`, `rollback_tail` and `free_sequence`
  work on the Python free lists although the prompt's blocks came from the bitmaps
  (`paging.py:94`), so one block can be given out by both. `VirtualPages` models
  it; the part of `PagesExact` about blocks is stated for the build without it.
* After `adjust_active_capacity` lowered the ceiling of the static pool, pages
  above it stay in use while free ones below it are handed out, so the pages in
  use can exceed it (`paging.py:240`). No document promises otherwise.
* A JSON text that is cut on an escape is not always closed. Nor is one in which
  the AVX2 scanner skips a block right behind an escape, which then stays pending
  and hides a later quote (`turing_json_fast_scan.hpp:68-71`): the model has both,
  `EndsEscaped` and `SkipsEscaped` exclude them from `RepairCloses`. The native path tidies a comma or colon
  that ends the text even inside an open string (`structured.py:96-98`).
* Think tags that are split between two tokens are not recognised by either
  filter; the model has half a tag as text.
* `LoadsStayInBudget` holds until a used model is registered again: its bytes are
  then counted twice (`multi_model.py:91`).
* Concurrent calls of the native `evaluate_and_rebalance`
  (`turing_elastic_budget.hpp:69`, no compare-and-swap) do not occur: the Python
  side calls it under the interpreter lock. Signed overflow on line 63, formally
  undefined, is modelled as the wrap that the build produces.
* The native routing history has 64 experts and layers at most
  (`turing_routing_history.hpp:18-19`); the model stays inside, with a decay
  factor of one half, for which `float` and `double` truncate alike.
* The speculator's Python loop counts the correction as accepted, which is only
  telemetry.
* In `WorkerPool`, an exception inside a task appears only as the end of that
  task, because `packaged_task` stores it; the chunk bounds of `parallel_for` are
  arithmetic.
* In the engine, prompt contents, sampled values, metrics and the token counter
  are abstracted; a fork has two branches (the code takes any number).

*Left out so far*

* The adapter cache (`turing/models/adapters.py:74-181`), the plain native LRU
  cache (used only when the extension lacks the LFRU class), the CUDA ring of
  `pcie_swapper.py`, the asynchronous ring reader (`csrc/turing_io_uring.hpp`),
  cache lineage (`lineage.py`, `demo/agent_system.py`), tree drafts with their
  masks, `attention_cache.py`, `hybrid_memory.py`, the TCP mesh and the
  heterogeneous MoE runner.

---

## 8. Plan

| # | Modules | Status |
|---|---|---|
| 1 | `AdmissionControl` implementing `AccountBook`, with proofs | done |
| 2 | `LanePolicy`, `SpecGate`, `QueueOrder`, `ContinuousBatchEngine`, with proofs | done |
| 3 | `WorkerPool` implementing `Executor`, with proofs | done |
| 4 | `ExpertCache`, `KVPagePool`, composed in `MemoryPlane`, with proofs | done |
| 5 | `NativeTraffic`, `NativeElastic`, `NativeLfruCache` and `RoutingHistory` with proofs, `ExpertCacheBackends` | done |
| 6 | `VirtualPages`, `MultiModelManager`, with proofs | done |
| 7 | `SpectralForest`, `RadixTrie` on `RadixPaths`, with proofs | done |
| 8 | `KvEventStream` with proofs | done |
| 9 | Request side: `TokenStream` implemented by the engine, `ApiFrontend`, `ChainContext`, `ComputeBatcher`, `ReasoningFilter`, `JsonRepair`, `SpeculativeDecode`, `DistributedDriver`, with proofs | done |
| 10 | `DisaggSidecar` (its one property is liveness) | done |
| 11 | Type correctness of the components as theorems of their own; `ExpertCacheBackends` in a build whose candidates are hot enough | open |
| 12 | Adapter cache, ring swapper, lineage | open |

---

## 9. Running the checks

```
tlc -config components.cfg MCComponents
tlc -config engine_safety.cfg MCContinuousBatchEngine
tlapm ContinuousBatchEngineProofs.tla
```

`PROJECT.json` lists the module and configuration of each run. `components` is
the longest, about three minutes, then the liveness run `engine_liveness` with two;
the proofs of all modules take about ten minutes.
