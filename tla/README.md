# A verification project for llm-inference-stack

TLA+ models of the parts of llm-inference-stack that keep state or take
decisions, TLC runs that check them on small instances, and TLAPS proofs of what
matters most for every instance. Paths are relative to the repository;
`llmkit/` stands for `packages/llmkit/llmkit/`. A file and line such as
`engine.py:254` refers to `llmkit/simulator/` for engine and paged, and to
`llmkit/` or `projects/` otherwise.

## 1. Inventory

| Part | State | Operations | What is hard | What makes it correct |
|---|---|---|---|---|
| Paged KV allocator, `simulator/paged.py` | free list, per-block reference count, hash and fill, the LRU cache hash -> block, block tables | allocate_prompt, append_token, free, eviction | sharing, copy-on-write and eviction over long call sequences; OutOfBlocks in mid-allocation | counts equal holders; a block in use is never handed out; only identical prefixes share |
| Contiguous allocator, `simulator/paged.py` | slots | allocate, free, coalesce | fragmentation | slots tile the memory, none overlap |
| Engine, `simulator/engine.py` | pending, waiting, running, swapped, finished; per-sequence progress | submit, step (schedule, grow or preempt, apply, finish) | two schedulers, two preemption modes, lists that change while they are iterated | nobody lost or run twice; batch and token bounds; exact outputs; everyone finishes |
| Mock inference server, `projects/01-inference-server` | pending table, seen tokens, faults, an engine | submit, loop, drain, reset, fault | reset, faults and disconnects under waiting handlers; reused ids | every handler gets its tokens or an end |
| Routing and proxy, `routing.py`, `projects/04-prefix-cache-proxy` | replicas, prefix beliefs, hash ring, the strategy | route, forward, streams, health loop, strategy switch | the switch with requests in flight, retries around slow answers | affinity without overload; exact counts; nothing sent twice |
| AI gateway, `gateway.py`, `projects/13-ai-gateway` | tenants' and backends' in-flight counts, breakers, retry window, token buckets, budget, response cache | handle, forward, streams, health loop, admin drill, hedged_call | coroutines interleave, breakers open and close around slow answers, streams outlive their handler | slots given back, quotas accounted for, tripped breakers left alone, every request answered |
| Autoscaler simulator, `autoscale.py` | replicas with cold starts and drains, queue, cooldown clocks | one pass of `simulate` | decisions overlap with cold starts; clocks set and reset on many paths | bounds, warm floor, sustained scale-downs |
| Autoscaler control loop, `projects/11-autoscaler` | cooldown clocks, the Deployment | poll, decide, `kubectl scale` | missing metrics, failing kubectl | same policy on a live system; settles |
| Cluster simulator, `cluster.py` | worker clocks, batches | prefill, transfer, decode, mixed step | two phases with their own clocks, one token budget | phases in order, decodes never stall |
| Workload generators, `workload.py` | sessions, random draws | stream | several streams on one generator | conversations stay whole |
| Client and load drivers, `client.py`, `types.py`, `load.py` | in-flight tracker, semaphore, records | send, closed and open loop, drain | broken streams, frames of several tokens, drain timeout | every request recorded once; no token lost |
| Statistics, `metrics.py` | none | summarize, knee | windows, boundaries | figures are their definitions |
| Benchmark and teardown, `projects/02-*`, `projects/15-*`, `results.py` | saved runs | sweep, rate, run, verify, publish | warnings that must follow a number through files | published with every caveat |
| Chaos suite, `chaos.py`, `projects/14-chaos-suite` | fault, samples, targets | apply, clear, sample, analyse | fault and clear are tasks of their own; calls that fail | the verdict counts the right window; faults are undone |
| Dashboard, monitors, `prom.py`, `projects/03-*`, `projects/06-*`, `projects/12-*` | last counters, history, alerts | poll, scrape | restarts and failed scrapes | rates and alerts are what happened |
| Cost attribution, `costs.py` | usage by tenant | attribute | failed requests, unknown times | bills add up |
| KV budget, `kvcache.py` | none | compute_budget, required_gpus | rounding in blocks and heads | what is promised fits |
| Quality verdict, `projects/05-quantization-lab` | scores | agreement, KL, tasks | failing endpoints | the verdict is earned |
| Triton kernels, `projects/07-triton-kernels` | one program per row | softmax, norms | tiles, masks, running maximum | tiled = whole |
| Cost model, static tables, calculators, experiments | floats | formulas, tables | none for a model checker | out of scope |

How they interact: the engine calls the allocator on one thread. The mock server
drives an engine from an asyncio task and hands tokens to handlers through
queues. Proxy and gateway forward HTTP requests to such servers and judge them by
their answers and by health probes. The control loop reads a server's metrics
and sets a Deployment through kubectl; `simulate` runs the same policy on a
simulated pool. The load drivers are the clients of all of them, send what a
workload generator yields and keep the client's records; the statistics, bills
and published reports are made from these records. The chaos suite injects faults
into servers and opens gateway breakers. The dashboard and the monitors read the
servers' counters.

PROJECT.json lists the hazards of this code at their lines, with the properties
aimed at each, and for those no property covers the reason.

## 2. Plan and order

Everything below is done; it was built in this order, the most important first.

1. `PagedKVCache`, on which everything else rests; then `Engine` on top of it, which
   is checked to implement both the allocator's specification and the abstract
   `TokenSource`; then `Server` on `TokenSource`.
2. The two autoscalers on `ScalingPolicy`; `Gateway` with `Quota` and `Resilience`.
3. `Routing` and `Proxy` on it, `Cluster`, `Contiguous`, `Telemetry`.
4. The way of a number: `Workload`, `Load`, `Client`, `Statistics`, `Costs`, `Budget`,
   `Kernels`, `Quality`, with `Figures` for all that is computed at one go, `Reports`, `Chaos`, `Injectors`.
5. Proofs, in eight modules (section 5).

| Module | Extends | Checked in |
|---|---|---|
| `Queues` | - | with its users |
| `PagedKVCache` | - | MCPagedKVCache |
| `TokenSource` | - | MCEngine (as a property), Server |
| `Engine` | `PagedKVCache`, `Queues`, instance of `TokenSource` | MCEngine |
| `Server` | `TokenSource` | MCFleet |
| `Gateway`, `Quota` | - | MCControlPlane |
| `Resilience` | `Queues` | MCControlPlane |
| `Autoscaler` | `ScalingPolicy` | MCControlPlane |
| `AutoscalerControl` | `ScalingPolicy` | MCControlPlane; itself, for a finding |
| `Proxy` | `Routing`, which extends `Queues` | MCFleet |
| `Cluster` | `Queues` | MCFleet |
| `Contiguous` | - | MCFleet; itself, for a finding |
| `Telemetry` | - | MCFleet |
| `Client` | `Queues` | MCMeasurement |
| `Load` | `Workload` | MCMeasurement |
| `Chaos` | `Queues` | MCMeasurement; itself, for a finding |
| `Figures` | `Statistics`, `Costs`, `Budget`, `Kernels`, `Quality` | MCMeasurement |
| `Statistics`, `Costs`, `Kernels`, `Quality` | `Queues` | through `Figures` |
| `Workload`, `Budget`, `Reports`, `Injectors` | - | MCMeasurement |

An MC module that holds several parts has a variable `part` that its initial state
chooses and no step changes: parts that share no state are checked side by side,
never as a product. A module that needs no definitions for its instance is
checked by a .cfg of its own, without an MC module.

## 3. The models

`Queues` has what the program does to Python lists (a comprehension with a condition,
`list.sort` with its stability, `sum`) as recursive functions, so that the modules
that use them can be proved about.

In every module an operator `X_Y` is a deliberately wrong variant of `X`, a
plausible bug in the code `X` stands for. The model never uses it; PROJECT.json
pairs it with the property that fails when it takes the place of `X`.
Asyncio switches coroutines only at an await, so in the modules of asyncio code
an action is what runs between two awaits.

### PagedKVCache

The caller is left open: any sequence may be allocated, grown at any length it
reports, and freed, one call at a time (there is one thread). `allocate_prompt`
and `free` are loops, and an iteration is a step: `HitBlock`, `MissBlock` and
`TailBlock` take the prompt's blocks, `RaiseOutOfBlocks` abandons the call,
`AllocateReturn` ends it; `Free`, `Release` and `FreeReturn` are the other loop.
`append_token` is `GrowTable`, `WriteTail` or `CopyOnWrite`. `TakeFreeBlock` and
`EvictOne` are their helpers. `Overwrite` is the engine dropping a table it never
freed (a second allocation over it), which the allocator cannot see.

A hash is the sequence of block contents it was chained from, so the digest is
modelled as free of collisions. `cache` and `lru` are the two halves of the
OrderedDict. `dropped` is a history variable: references that tables lost
unfreed still hold, after OutOfBlocks or an overwritten table. The statistics
counters are left out.

`ReferencedStaysCached` says that a hash whose block is in use is still looked up:
whatever was evicted, a cached block in use is found by the next prompt that
shares it. `HeldContentStable` says that while a sequence keeps its table, no step
of another one's call gives one of its blocks a new content.

### Engine and TokenSource

One `step()` is the stages idle, admit, restore, grow, apply, finish. `BeginStep`
takes arrivals and gives partly prefilled sequences their chunks;
`AdmitAllocate`..`EndAdmit` is the admission loop of `_schedule`;
`RestoreAllocate`..`EndRestore` the swap-in loop; `GrowOne`, `PreemptFree` and
`Preempt` are `_grow_or_preempt` with `_preempt`; `Apply` adds the tokens, and
`FinishFree`, `Finish`, `EndStep` retire sequences. `AllocStep` and `FreeStep` run
the allocator's loops in between. `RestoreCrash` and `GrowCrash` are exceptions
that leave `step()`: OutOfBlocks in the swap-in loop, and IndexError on the empty
table of a sequence that was preempted while the loop over decodes still held it.

Configuration and workload are variables that never change (`cfg`, `req`), so one
run covers several. The simulated clock, step costs, traces and records are left
out: arrivals keep their order, and all that are due may be taken at any step. The
stopping bounds `max_steps` and `max_ms` of `run()` are not modelled. `computed`
is a history variable: the blocks whose KV some step has really computed.

`PlacesAreSound` joins what the scheduler keeps of every sequence: its type, one
queue at a time (`OneQueue`), the batch and token bounds (`BatchBounded`), and
that between steps exactly the running sequences own blocks (`OnlyRunningOwn`,
where the pool holds a full batch; under shortage the crash of
**engine_grow_crash** leaves a requeued victim with blocks). `PoolCoversBatch` says
when it does: the needs of `max_num_seqs` of the longest requests, the watermark and
the blocks that overwritten cache entries have stranded (**paged_leak**) fit the pool
together. Without the last term the condition would not be enough: a pool that was
large enough at first shrinks, and then preempts.

`TokenSource` is what the rest of the program relies on: requests are queued, run,
emit at most a burst per step, may be thrown out and lose their tokens, and
finish once with exactly what they asked for; the engine may die. `Engine`
implements it through its queues and counts (`EngineIsTokenSource`), and
`Server` is built on it, not on `Engine`.

### Server

`Accept`, `Refuse` and `Handler` are the coroutine of one HTTP request: it registers
a Pending object under its id, waits for tokens with a timeout of 120 s, and
removes the entry; a stream's body is a generator that may never start.
`Engine` moves during a step, `EndStep` and the emitting part of the loop are
`_loop` with `_drain` (`Drained`, `DrainOne` for one sequence of it); `SetFault` pauses, `Reset` is `/sim/reset`, `StepRaises`
the death of the loop's task. `first_use` is the set of requests whose id nobody
used before them; `WholeAnswer` is about those, since the program identifies
requests by id alone.

### Gateway, Quota, Resilience

`Gateway`: `Admit` and `Wake` choose a backend and send; `BackendError`,
`Respond` and `OpenStream` are the ways an upstream call returns; `FirstChunk` and
`EndStream` are the body generator, which runs after `handle` has returned.
`ProbeOk`, `ProbeFail` are `health_loop`, `disable_backend` the admin drill, and
`Tick` the clock. `open_for` is what is left of `open_until`. Free choices here: a
request may be turned away by its quota, a retry refused by the retry window,
any backend of the first usable tier may be the best of it. A stream whose client
is gone before the server starts its body becomes "lost": the generator never
runs, so the slot is never given back.

The free choices are modules of their own. `Quota` is one tenant's `TenantLimits`:
two token buckets with refill and debt, the slots and the hourly budget. `Check` is
`handle` up to its attempt loop (it refunds the request bucket when the token bucket
refuses), `SettlePlain` the end of a plain answer or of a request that failed,
`ReleaseStream` and `SettleStream` the two ends of a stream, whose slot is released
when its response object is returned and whose usage is settled when its body ends,
if that ever starts. An estimate is any integer: `estimate_tokens` adds the client's
`max_tokens` to the words of the prompt and looks at nobody's sign. Two history variables
say what a tenant gets for nothing: `forgiven`, what the floor in `settle` let pass, and
`minted`, what estimates below zero put into the bucket and no settlement took out again
(a plain answer's settlement does, a stream's charges its output on top of its
estimate). `QuotaKept` accounts for what a tenant gets: its requests are within capacity
plus refill (`RequestQuota`); its tokens exceed that by `forgiven` and `minted` and by
nothing else (`TokenQuota`); nothing is forgiven while the burst covers what all requests
in the air may overrun their estimates by, and nothing minted without negative estimates
(`OverrunsArePaid`); and the slots are the requests `handle` has in hand (`SlotsExact`),
which streams are not. Where the repository promises more, the code does not keep
it (section 6).

`Resilience` is the retry budget with its window and the response cache.
A plain answer is cached (`Succeed`); a stream, or a plain body that is not JSON, is not
(`SucceedUncached`). `RetriesScarce` keeps retries a fraction of the traffic,
`DegradesToCache` says that a request, streamed or not, is refused only if no plain call
was answered for its prompt within the TTL, as long as the cache never evicted (`evicted`, a history variable: that
the cache is below its bound now does not say so, since expired entries leave it). At the
end of the module, on its own, is `hedged_call`: the tasks end between
its awaits, so both may be over when it wakes; `HedgeLeavesNothing` says that a
call that returned leaves no task behind.

### Autoscaler and AutoscalerControl

`PoolTick` is one pass of the loop of `simulate`: the queue moves, a signal gives the
wanted number, exactly one of `ScaleUp`, `ScaleDown`, `StayLow`, `Hold` applies,
and `Lifecycle` ends cold starts and drains. The four signals are computed as
fractions on integers, so rounding up is exact. Prediction is any upward slope
once four samples exist; cold start jitter is any member of `ColdStarts`.

`Poll` is one pass of `cmd_control`. `kubectl` and the metrics are external:
reading may fail (`_current_replicas` then returns 1), scaling may fail unnoticed,
either may time out, which nothing catches (`KubectlTimeout`), and metrics may be
missing (`NoMetrics`). Times are ages in intervals, capped at the largest value
the loop compares them with. `low_run` is the history of what a correct window
would be: `ReadShrinkStabilized` ties every shrink of a replica count that was
really read to it.

### Routing, Proxy

`Routing` translates the five strategies and the consistent-hash ring as
operators on the fleet; hashes are arbitrary positions, and `Pick` is the set of the
replicas a strategy may return. `Proxy` has `Handle`,
`BackendError` with the retry, `Respond`, `OpenStream`, `StartBody`, `EndBody`,
`LoseBody`, `HealthProbe`, `SetRouter` (the hot switch) and `Tick`.
`LoadExact` relates each replica's two counters to the requests on it;
`BeliefsAreRecent` says that a prefix belief is about an answer of that very
replica since the switch, or of a request in flight then; `RoutedSoundly` is the bounded load
of prefix affinity and that nothing is sent again once a byte may have left.

### Cluster, Contiguous, Telemetry

`Cluster`: `Prefill`, `Assign`, `Jump`, `DecodeStep` are the loops of
`run_disaggregated`, `MixedStep` one iteration of `run_colocated`, whole or
chunked; a step takes any of `StepTimes`. `PhasesInOrder`: each phase of a request
waits for the one before it, and all are served in the end; `DecodeNeverStalls`: every
step gives every decoding request a token, however many prefills it carries.
`Contiguous` is `allocate`, `free` with `_coalesce` over the list of slots;
`ReservationsSound` says that they tile the memory and that a request is rejected only when
less than a reservation is free in all.
`Telemetry`: `Serve`, restarts and failed answers of the servers, `DashboardPoll`
with `CounterRate`, `Scrape` with the alerts of the KV monitor, and `ScrapeDrafts`,
`cmd_watch` of the speculation tool. `ToolsAreHonest` joins what the tools display to what
the servers did.

### Workload, Load, Client, Statistics

`Workload` has the generator's shared draws and sessions; a stream advances when its
consumer asks. `Load` has the closed loop's workers on a shared iterator, and
the open loop's dispatcher on an absolute schedule with its semaphore, drain and
drain timeout. `Client` is one streamed answer, frame by frame, up to the record,
with the rebalancing of tokens over frames and the inter-token latencies.
`Statistics` is `summarize`: percentile rank, warm-up filter, window, Little's law
as an identity with the integral of requests in flight, and the knee. The code reports
four percentiles; the constant `Percentiles` holds the ones that are looked at.

### Costs, Budget, Kernels, Quality

Each is a computation, with its definition stated beside it as a property;
`FiguresAreExact` (`Figures`) joins these with that of `Statistics`.
`Costs` (`BillsAddUp`): a tenant pays in proportion to its answered requests. `Budget`
(`BudgetIsSound`): what `max_concurrent_seqs`, `max_seq_len` and `required_gpus` promise
fits, and one more does not; the weights and the activation estimate are shared by the ranks, and
a world of several has a reserve for NCCL. `Kernels` (`KernelsExact`): one
program per row and tile, interleaved in a shared memory, against the whole-row
definition; with e = 2 and exact fractions. `Quality` (`VerdictIsEarned`): agreement, KL and
tasks with any request failing, and the verdict read off them.

### Reports, Chaos, Injectors

`Reports`: measuring load points, saving, editing the tree, verifying and
publishing; `Problems` has the six reasons of `validate`. `PublishedWithCaveats` follows a
warning from the load point to the site.

`Chaos` is one experiment: load, sampler, injection and clearing are tasks, the
verdict (detection, recovery, burn) is judged against the samples. The durations are
the command line's and nothing relates them; an injector takes any time, since its
timeouts are per operation, and while one waits in `subprocess.run`, no task of the loop
runs (`LoopHeld`), so the sampler and the clearing may be late. `ExperimentIsSound` says that what
it reports is what its samples show: each answer is in one sample (`JudgedOnce`), a recovery
is a whole run of healthy samples (`RecoveryIsSustained`), and a fault that was not
detected burned slowly (`UndetectedBurnsSlowly`). That the fault is over when a recovery is
reported does not hold: **chaos_late**.

`Injectors` runs a suite call by call: calls work, are refused unseen or raise; pods
come and go; the suite may be started again. Power limits are counted in half watts, because
nvidia-smi shows fractions of a watt and the injector keeps whole ones (`WholeWatts`).
`FaultsAreUndone` says that a scenario cleared with no call refused leaves no fault that
was not there before, the limit up to that fraction, and that no scenario acts on
more than `max_pods` pods.

## 4. The runs

Passing runs (one per composition; each names its properties in its .cfg):

- **paged_kv** (MCPagedKVCache): two sequences, three prompts that share a first
  block or have a tail, a pool small enough that eviction, copy-on-write and
  OutOfBlocks happen. Shows that the counts, the free list, sharing and
  residency survive every call sequence.
- **engine** (MCEngine): three requests. Every mix of four short prompts and two
  output lengths on ample blocks, under whole-prompt priority scheduling and under
  chunked prefill; and long shared prefixes beside a growing neighbour on a pool that
  runs out, with recompute preemption and speculative bursts, or with swapping.
  Shows that no request is lost or doubled, batch and token bounds, ownership, that
  whole-prompt hits are computed (until a table is lost half-built: its full blocks
  stay in the cache, and nobody will ever compute them), that all finish (where the
  pool holds a full batch), and two refinements: of `KVSpec` (the engine's calls are legal calls of
  the allocator) and of `TokenSource`. Both crashes happen in this run; the
  properties are about everything up to them.
- **control_plane** (MCControlPlane): three clients of two tenants, one streaming, a
  polled primary with one slot and a paid API with two, with or without its key; one
  tenant's quota over three ticks, with estimates of -1 and 2 tokens and outputs of 0
  and 3; three calls, one a stream, with the retry window and a cache of one entry; one
  hedged call. Beside them the simulated pool with each signal, 1 to 4 replicas, cold
  starts of 2 or 3 passes that overlap with the cooldowns of 2 and 3, ten passes; and the
  control loop on Deployments found below, at and above their bounds.
- **fleet** (MCFleet): the server with two requests, one a stream, with one id or two, an
  engine that preempts and may die, pauses, disconnects, timeouts, one reset; the proxy
  with two replicas, three requests, three routers, one switch and one probe flip; the
  cluster in its three topologies; the contiguous allocator; dashboard, monitor and
  acceptance watch over servers that restart and fail to answer.
- **measurement** (MCMeasurement): the way of a number from the workload to the
  publication, and the chaos suite: `LoadAsPlanned` (workload, drivers), `RecordHonest`
  (client), `FiguresAreExact` (the computations), `PublishedWithCaveats` (reports), `ExperimentIsSound`
  (one experiment), `FaultsAreUndone` (the injectors of two suites); `ResultFinal` and
  `BothEnd` are about the drivers. The experiment's fault lasts one second, so that
  injections that outlast it happen.

Runs that find the code at odds with what the repository says of it:

- **paged_leak**: `UnreferencedIsReclaimable` fails. When an early block of a
  prompt was evicted, the miss path re-enters later blocks in the cache over the
  entry of a block that is still resident (`paged.py:191`). That block is then
  unreferenced, not free and not evictable, against `paged.py:142`.
- **engine_grow_crash**: `NeverCrashes` fails. `_grow_or_preempt` goes on with a
  victim it has just preempted (`engine.py:391`), against the statement in
  `projects/09-paged-attention/README.md:91`.
- **engine_chunked_swap**: `SwappedReturns` fails under weak fairness of `Step`:
  the chunked scheduler returns before the swap-in loop (`engine.py:330`, against
  `:358`).
- **engine_uncomputed**: `PrefilledIsComputed` fails: with chunked prefill a
  sequence hits blocks whose chunks have not run (`engine.py:254` against `:104`).
- **control_shrinks**: `ShrinkStabilized` fails: a failed `kubectl get` reads as 1,
  and the "scale-up" from 1 may shrink the Deployment (`autoscaler.py:341`, against
  `projects/11-autoscaler/README.md:90`).
- **scattered**: `ScatteredIsRejected` fails: with alternating slots freed, half of the memory
  free and no two free slots side by side, the next full-size request is served,
  because every reservation has one size (`paged.py:295`), against `paged.py:283` and
  `projects/09-paged-attention/README.md:50`. The passing run shows the converse:
  `RejectedOnlyWhenFull`.
- **chaos_late**: `NoRecoveryUnderFault` fails: injecting and clearing do not wait for each
  other (`chaos_run.py:355`); an injection that takes longer than `--fault-duration` takes
  effect after the clearing, and the experiment reports a recovery (`chaos_run.py:260`) with
  the fault still on.

### Bounds

Two sequences suffice for sharing and copy-on-write, three requests for a
preemption whose victim is neither the oldest nor the newest. `Lens` contains every
length a sequence of the instance can reach. `MaxDropped` (1) bounds the references
that lost tables hold per block, the one counter of the allocator that could grow for
ever. `Duration` is a loop bound of the code, at ten passes enough for two scale-ups, a full window and
a drain. Gateway: thresholds of 2 and open times of 1 and 2 ticks keep counting and
expiry visible; its clients send again and again, so breakers see arbitrarily long
histories, while `Horizon`, `MaxRequests` and `MaxTime` bound quota and retries to
where buckets have filled, emptied and refilled and the window has moved on. Server:
a stream that wants 2 tokens and another request that wants 1, with a burst of 2, end
within a burst and, after a preemption, repeat tokens; `MaxResets` 1, and the ids are
interchangeable, so one request always has the first. Proxy: two replicas are the fewest with a retry;
`MaxSwitches` and `MaxProbes` 1 put one switch, from prefix affinity to any
of the routers, and one flip anywhere among the requests. Cluster: two decode workers with a batch of two and three requests make one
wait; the first request has two tokens to decode and, where prefills share a batch with
decodes, the long prompt. `MaxCount`, `MaxTime`, `MaxDrafted` bound counters and clocks;
`MaxFrames` 5 with 0, 1, 4 or 7 tokens has frames with none, one and several.
`Estimates` has a negative one, which is enough to mint, beside one that
outputs overrun. `MaxFired`, `MaxOut` leave a chaos experiment enough answers to cross its 5 percent
threshold; `MaxSuites` 2 has a suite find what the one before it left. Kernels: three
columns in tiles of two have a masked lane and a second tile. Three records at three
times have ties, gaps and failures, and `Percentiles` the ends 1 and 100 besides the
ones the code reports. The amounts of `Budget`
are chosen around the divisions that round. Deadlock is not checked where the system
may really stop: a library that is called no more, clients that do not send,
commands that are over.

### Fairness

- `Engine`: weak fairness of `Step`, because `run()` calls `step()` until it returns
  None. Nothing is assumed about which disjunct runs; the stages decide.
- `Server`: strong fairness of each handler outside engine steps (the event loop runs
  every ready callback while the engine's loop sleeps, and the timer of `wait_for`
  fires), weak fairness of `EndStep` and of a step of the engine that emits. The engine
  may still die or stay paused.
- Control loop: weak fairness of `Poll \/ NoMetrics`, because the loop is
  `while True` with a sleep. Changes of the world and failures are never required.
- Gateway: weak fairness of each request's return from a backend (the HTTP
  client has a timeout) and of each wake-up from the backoff sleep. Streams
  need not end, and clients need not send.
- Drivers: weak fairness of each coroutine that is ready, of the drain timer and of
  the clock. Answers are never required: the open loop ends without them.

Elsewhere nothing is assumed.

## 5. The proofs

The constants are arbitrary, under the named assumptions of each module.

`PagedKVCacheProofs`, from `KVAssumption`: `KVInvariant` (`KVSpec => []KVInv`) and
from it `TypeCorrect`, `RefCountsExact`, `FreeListIsSound`,
`SharingIsPrefixIdentity` and the action property `ContentIsStable`. Exact counts
are not inductive alone. Releasing a block decrements once, so counting holders
as sequences needs `TablesOnce`; that a hit is not already in the table needs
`HashedByPosition` (a hashed block sits where its hash's length says), which
needs `CacheNamesHash`; that an unhashed block may be written or released
needs `UnhashedPrivate`; and `Lifecycle` says that one call runs at a time.
There is one lemma per action. The helpers come first: `TakeFacts` (what
`_take_free_block` returns, through the free list or an eviction), `AppendBlock`
(one more holder of one block), `FillKeepsInv` and `ReleasedBlock`.

In the same module, `PrefixInvariant` and `UsedBlocksStayCached`
(`ReferencedStaysCached`). The miss path may overwrite a cache entry (paged_leak
shows it losing an unused block); that it never overwrites the entry of a block in
use rests on blocks in use being closed under prompt prefixes: whoever holds the
block of a prefix holds, or a lost table holds (`DroppedClosed`), those before it, hashed
blocks first (`TablesHashedFirst`). So if a prefix was missed, nothing that
continues it is in use (`NoneBeyond`), and an overwrite loses no used entry. Two more
theorems bound that finding. `OutOfBlocksIsHonest`: the allocator raises only when every
block is in use or stranded. `LostStaysLost`: a stranded block is never handed
out again.

`QueueFacts` has the lemmas about lists that the other modules share. The provers
cannot instantiate a theorem with an operator parameter, so induction is done on
sets: `LeastElement` and `InductionUpTo` speak of a set of numbers, and a recursive
function exists because of them (`IterationExists`). From there: `Those` keeps
exactly the elements of the set, in order; `Sorted` permutes; `Total` adds up. A sum over
a set does not depend on the order it is taken in (`SumIsStepwise`, `AnyFirst`,
`SumOverSet`); it is that of its parts (`SumOfParts`), and that of a list (`TotalIsSum`).

`EngineProofs`, from `EngineAssumption` and `KVAssumption`: `EngineInvariant`
(`Spec => []EngineInv`), where `EngineInv` joins the allocator's `KVInv` with the
scheduler's own: every sequence in one queue (`Placed`), what a step has planned is
not finished when it is carried out (`Planned`), a stage is entered with something to
do (`Coupled`), what is planned and what is left of the budget stay below it
(`Batched`), and a victim that the list of decodes still names has lost its tokens
(`Stale`), which is why `Apply` never emits for it. `EngineCallsAllocator` and
`EngineRefinesSource` are the two refinements, shown step by step: each action of the
engine is one of the allocator, or leaves it alone, and one of `TokenSource`, or
stutters. Its assumption that `Lens` holds every length up to a prompt and its output
fixes what a length is; `MaxBurst` bounds the drafts of every configuration.

Its second half counts blocks: `EngineKeepsPlaces` (`PlacesAreSound`) and
`AmpleNeverTroubles`, that an engine whose pool covers its batch never comes to preempting
anybody, to recompute or to swap (both pass through one stage), never raises and loses no
table. `RoomInv` adds to `EngineInv` that the owners of blocks are the
running sequences and the one being admitted (`Owners`), that each owns at most the
blocks of its prompt and what it has emitted (`Fitting`), and that nothing of a
preemption has happened (`Untroubled`). Owners are at most `max_num_seqs` and own at
most `BatchNeeds` together, so besides the stranded blocks one is always free or
evictable, and `OutOfBlocksIsHonest` does the rest.

`HitsAreComputed` (`WholePrefillComputed`) comes last. Blocks are hashed when
they are allocated and computed only when their step is applied, so the invariant speaks
of what is `Certain`: computed, or awaited by a chunk of this step. `WholeCalls` says what
makes a chunk reliable: the allocator runs for one sequence at a time, and without
chunked prefill a chunk is all that is left of its prompt. `HeldComputed` then follows
each block: those of the running prompts are certain (`RunningComputed`), so are the hits
of the allocation under way (`HitsComputed`), and so is every hashed block outside the
table being built (`HashedComputed`). The proof first failed, for a good reason: an
allocation that meets OutOfBlocks half-way leaves hashed blocks behind that no
chunk awaits. `LostPrefix` names them, it only grows, and the property is stated up to
the first of them.

The mock server is proved in `FleetProofs`, from the assumptions of `Server`:
`AnswersAreWhole` (`WholeAnswer`) and
`EntriesAreLive` (`PendingIsLive`: no handler that ran leaves its entry behind; a stream
whose body never starts does, for good, and the property names it). The core of `ServerInv` is `Delivered`: what the handler
of a fresh id has read and what its queue holds is what the drain has `seen`. It is
inductive because nobody else in the simulator carries the id while it is registered
(`SoleUser`), and because the drain looks at the last 256 finished sequences only:
`LookedBack` shows that those whose handler does not know of it yet are among them, as
many at most as have left the batch, so a batch of at most 256 loses none.

`ScalingProofs`, from `ScalerAssumption`: `ScalerInvariant` and from it
`NeverAboveMax`, `FloorAlwaysServes` and the action property `DrainsAreSustained`.
`WithinMax` needs `ReadyServes`: the policy counts the replicas that serve now, the
bound speaks of all that are ready. `WarmFloor` rests on scale-downs taking the
newest ids while at least `min_replicas` stay (`FloorSpared`). `LowTracked` ties
`low_since` to the run of low signals and to the last scale-up. From
`ControlAssumption`: `ControlInvariant`, `ControlTypes` and `ShrinksAreStabilized`. What
the loop remembers and what the signal really was differ when kubectl lies;
`WindowIsRun` relates them: a false reading is 1, which the policy never finds too
many, so it resets the window instead of extending it.

`GatewayProofs`, from the assumptions of the gateway's three modules.
`GatewayInvariant` is the conjunction of `TablesOK`, `TenantsExact`,
`BackendsExact` (each counter is the cardinality of a set of requests, so a step
that moves one request moves the set by one) and `BreakersOK`; from it
`CountersAreExact` and the action property `TrippedStayUnused`. `QuotaInvariant` and
`TenantsKeepToQuota` (`QuotaKept`) assume nothing of an estimate but that it is an integer.
What was used is bounded only together with what was given away, which `forgiven` and
`minted` add up as it happens (`TokenQuota`); that nothing is forgiven for a burst that
covers the overruns is `DebtBounded`, since the debt is then at most one overrun for each
request that is not in the air, and that nothing is minted without negative estimates is
`GiftsAreNegative`.
`HedgeInvariant` and `LosersAreGone`.
`ResilienceInvariant`, with `RetriesStayScarce` (`RetriesScarce`) and
`RefusedForWantOfAnswers` (`DegradesToCache`): the budget forgets times, but none of
its window (`BudgetRemembers`), and the last retry was paid for by the two windows before
it (`LastRetryPaid`); every later window ends no earlier. The cache holds no key twice,
each with its last plain answer (`CacheFresh`), and every key so answered within the TTL until
it evicts for the first time (`CacheCovers`); streams touch neither.

`FleetProofs`, from `RoutingAssumption` and `ProxyAssumption`: `LoadsAreExact`
(`LoadExact`), `BeliefsFollowService` (`BeliefsAreRecent`) and `RequestsRoutedSoundly`
(`RoutedSoundly`). `FleetInv` says that both counters of a replica are those of the set
of requests on it (`Counts`); a request that is on a replica has one, and has been in
flight since the switch (`Visited`). The queued prompt tokens are a sum over that set, whatever
its order (`SumOverSet`). The bounded load of prefix affinity is
proved for overload factors of at least 1, its hypothesis: the command line does
not check the factor (default 1.25, `projects/04-prefix-cache-proxy/proxy.py:306`),
and below 1 not even the least loaded replica need be within it (`LeastLoadedFits`).

The same module proves the cluster simulator, from `ClusterAssumption` alone:
`PhasesAreInOrder` (`PhasesInOrder`) and the action property `StepsNeverStall`
(`DecodeNeverStalls`). `ClusterInv` follows one request at a time (`RequestOK`): it is
decoding from its first token to its finish, no stamp is ahead of the clock of the worker
that is being simulated, and nothing is left of it exactly when it has finished.
`WorkersInTurn` makes the end of a run mean that all have finished. A batch stays in its
limit because fewer than k elements of an order have fewer than k before them
(`AtMostFirst`), and a step gets on because the first prefill always has a share of the budget
when no decode runs (`ShareFacts`).

There too, from `ContiguousAssumption`, `ContiguousReservations`
(`ReservationsSound`). Slots `Tiled` the memory without gap or overlap and no two free
ones are neighbours (`Apart`); that needs induction over the list `_coalesce` builds
(`CoalescedTiles`). A request is turned away only when less than a reservation is
free in all: every slot starts at a multiple of the reservation, so a free slot that is
too small for one can only be the end of the memory.

From `TelemetryAssumption`: `ToolsShowWhatHappened`
(`ToolsAreHonest`). A rate compares two sums over the endpoints that answered each
time, and a restart in between lowers one of them. `PollsCovered` is what survives all
that: what a poll can read is at most what the last one counted and what was produced
since; `SampleCompares` says the same of the monitor's sample for each server, unless it
was restarted since. `WatchInv` ties the watch's counters to its window.

`MeasurementProofs` begins with the streaming client, from `ClientAssumption`:
`RecordsAreHonest` (`RecordHonest`). `ClientInv` says that a complete record's events
share its output evenly, the remainder going to the first ones; so they add up to it
(`SharesAddUp`), and the gaps between events add up to the time from the first token to
the last (`GapsAddUp`). What is left out for want of tokens changes no sum
(`LeavingOutEmpty`). Each is an induction over the prefixes of the list.

The load drivers, from `LoadAssumption`: `LoadInvariant`, and from it the first two parts of
`LoadIsAsPlanned` (`LoadAsPlanned`) and the action property `ResultsAreFinal`
(`ResultFinal`). In the closed loop a request is out exactly when one worker waits for it
(`OneEach`), and while a worker has not started, no other has come back for its second
request; so the first wave is `Concurrency` requests, and whatever is taken later is
taken with all others out (`TakenWhileBusy`). In the open loop, arrivals ascend, as
sums of gaps do (`load.py:185`); what is due at a time is then the numbers up to some one,
and the dispatcher has scheduled exactly these. A driver returns when all is answered or its
timer has run out, and both stay true.

The third part is the generator's, from `WorkloadAssumption`. `WorkloadInvariant`: numbers
of draws and sessions are given out once, and what a stream holds of its session is the
request it gave last (`InSession`); so a request either opens a session nobody has had
(`Strangers`) or repeats and extends the one before it. `SitesAreHonest`
(`PublishedWithCaveats`), from the assumptions of `Reports`: `cmd_publish` is a loop over saved runs, so the
argument is an induction over that list. A site that is honest stays so when a
run is entered under its description (`HonestSite`), as the caveats of an earlier run
with that description are replaced when there are new ones and can only be too
many when there are none.

`ExperimentsAreSound` (`ExperimentIsSound`), from `ChaosAssumption`, which says of the
durations only that they are numbers. `ChaosInv` says that no second is sampled twice
(`SampledOnce`), even when a blocked loop takes its samples late, that every answer is in
one sample, in the bucket or still out, and that no sample counts more violations than
answers, so the sums of the burn rate compare (`TotalsCompare`). As samples ascend in time,
those after the fault keep their order (`ThoseByPlace`), and between two of them that make
a run lie just the others of that run (`Between`, `RecoversSoundly`).
`FaultsAreTakenBack` (`FaultsAreUndone`), from `InjectorsAssumption`: `InjectorsInv`
says that each call is one its fault planned (`CallsPlanned`), that the world differs from
what it was on targets of the scenario's faults only (`Confined`), and that a fault being
cleared has a call left that takes it away, or is gone (`Undone`). Pods that
were touched had been listed, and a listing has at most `MaxPods` of them.

`FiguresProofs`, from the assumptions of `Statistics`, `Costs`, `Budget`, `Kernels` and
`Quality`: `FiguresAreRight` (`FiguresAreExact`), with a theorem for each computation. What is computed at one go has no invariant to speak of; the
proofs are about the algorithm.

- `SummariesAreExact` (`SummaryIsExact`). Percentiles: the sorted list is the given one,
  rearranged (`NumbersInOrder`), so at least k numbers are no more than the k-th, and fewer
  than k are no more than a smaller one. The rank the code computes is the least k that
  is p percent (`RankIsExact`), which makes the k-th the nearest rank (`NearestRank`). Little's law: after any number of events the sweep has
  counted who is in flight, and its area is the last time for each of them, less the
  starts, plus the ends that went by (`SweptSoFar`). As everybody has left at the end, it
  is the sum of all latencies, failed requests included (`IntegralIsTime`).
- `BillsAlwaysAddUp` (`BillsAddUp`). The usage of every tenant after i records is the sum
  over its answered ones among them (`UsageAddsUp`), by induction over the records.
- `BudgetsAreSound` (`BudgetIsSound`). Division rounds down and blocks round up
  (`BlocksOfMemory`, `BlocksOfSequence`): a sequence more, or a token more, fits only if
  it fits in whole blocks (`ConcurrencyIsExact`, `LengthIsExact`).
- `VerdictsAreEarned` (`VerdictIsEarned`). `AgreementKept` keeps of each pair of answers
  where they part, which is the same place from either side (`DivergenceIsShared`);
  `TasksKept` keeps that every endpoint was asked every task, and how many it solved.
- `KernelsAreExact` (`KernelsExact`). `KernelsInv` speaks of each program at its tile: its
  maximum is that of the columns it has read (`MaxKept`), its sum is theirs under that
  maximum (`SumKept`), what it has stored it will read again (`ResidKept`), and
  what it has written is final (`OutKept`). A new maximum rescales the sum, which is exact as
  powers of two multiply (`PowersMultiply`, `Rescaling`) while no logit is further than
  `Scale` from another; masked lanes add nothing (`SumOverTile`); no program touches
  another's row (`OthersKept`). A row whose first tile is all -inf has no sum
  (`not_numbers`, section 6): the property holds for the others. The invariant was checked
  by TLC with a fourth column and tiles of three before it was proved.

Only model-checked: all liveness (`AllFinish`, `Responds`, `LoopConverges`, `Answered`,
`BothEnd`), which is beyond the prover. The seven runs that find a disagreement have a
counterexample and nothing to prove.

## 6. Other observations

Met while modelling, without a run of their own. What the models say of them they
model as the code has it.

Allocator and engine:

- `can_allocate` counts evictable blocks that the allocation's own hits are about
  to pin, so the swap-in loop may still get an OutOfBlocks that nothing catches
  (`engine.py:365`; `RestoreCrash`).
- An `allocate_prompt` that meets OutOfBlocks half-way has already entered its full
  blocks in the cache (`paged.py:191`); a later request of that prompt counts them as
  prefilled (`engine.py:254`) although their KV was never computed (`LostPrefix`).
- After blocks were stranded (paged_leak) the engine can stall with requests
  waiting: `step()` returns None when nothing can be scheduled (`engine.py:428`).
- The preemption victim is not always the newest running sequence, as the comment
  at `engine.py:381` has it (`engine.py:395`).
- `append_token` may write into the tail of a full, hashed block when the length it is
  told says so: the block then has a hash and fewer tokens than `block_size`
  (`paged.py:228`), against the comment at `paged.py:43`.
- `projects/09-paged-attention/experiment.py:83` lays its rejects to external
  fragmentation; with one size of reservation none is (**scattered**).

Server and proxy:

- An id used a second time is answered with no tokens after 120 s; `pop(rid)`
  may remove another handler's entry; a truncated answer still says
  `finish_reason: "length"`.
- The proxy counts 4xx and 429 as successes and notes their prefix; a broken stream
  counts as a success and as a resident prefix.

Gateway:

- A good probe closes a breaker that an operator opened, and `observe_error` may
  shorten `open_until`; `max_attempts: 3` with four backends can answer 503 with
  a healthy one untried; an abandoned stream that never started keeps its slot.
- `hedged_call` abandoned by a cancelled caller leaves both tasks running; a fast
  error of one hides the other's success.
- `try_consume` of a negative amount adds tokens (`gateway.py:62`), and `max_tokens` is
  the client's: the bucket may then hold more than the capacity that "sets the burst"
  (`gateway.py:41`), and what a stream minted this way is never taken back (`minted`).
- A stream's slot is released when its response object is returned
  (`projects/13-ai-gateway/gateway.py:305`), so `max_concurrent` does not cap the streams
  under way, against the "concurrency cap" of `projects/13-ai-gateway/README.md:57` and
  its example at `:70`.
- Settlements below the floor of the bucket are lost (`gateway.py:126`), so tenants
  with long outputs may under-pay, against `gateway.py:121`; `OverrunsArePaid` says for
  which bursts they do not.
- Streams are never cached, so a prompt that only streams have answered degrades to a
  503. Retry-After is rounded down; a request larger than `burst_tokens` is refused for ever with a
  finite Retry-After.
- The response cache is keyed without model, tenant and path and keeps 4xx bodies;
  eviction in insertion order may drop a key just refreshed.

Autoscaler:

- A gap in the metrics counts towards the window; a kubectl timeout ends the loop;
  with `min_replicas` 0 it never leaves zero; under `--dry-run` the current size is
  pinned at the minimum; the floating-point ceiling can be one too high (7
  replicas, 232 waiting, target 8: 30, not 29). Draining replicas are not charged in
  `replica_seconds`.

Measuring:

- `load.py:22` says that the suite refuses to publish capacity from closed-loop data
  alone; `bench.py` prints an SLO-bounded capacity for a closed-loop sweep, and
  `RunMeta.validate` does not look at the driver. Its `token_source == "heuristic"`
  lets "heuristic,server_usage" and "" pass.
- Schedule lag records late arrivals, not oversleeping; tasks of a drain that timed
  out go on appending to the returned result (`load.py:189`).
- Fewer tokens than frames leave the last frames with none; a usage of 0 beside
  content is not rebalanced; a stream cut without `[DONE]` counts as a success.
- Little's law (`metrics.py:240`) is an algebraic identity for answered records, so
  the check sees only failed ones; the knee is the highest passing
  concurrency even if lower ones fail.
- `results.py:6` and `bench.py:294` say that project 15 refuses to publish;
  `cmd_publish` refuses nothing, does not consult `verify`, and omits the
  n_ok < 100 caveat. Runs with one description overwrite each other in the series. Git
  state is read after the measurement (`bench.py:277`).
- `attribute_costs`: when nothing succeeded nobody is billed; `idle_policy` is
  unused although `costs.py:254` says idle capacity is reported.
- `required_gpus` returns ok for a degree that does not divide the KV heads; `fits`
  ignores the sliding window while the headroom honours it.
- `measure_agreement` asks for no logprobs, so it compares words, prints "tokens" and
  divides by `max_tokens`; `measure_kl` drops everything at the first failure;
  a baseline that fails its tasks lets any candidate pass.
- Online softmax gives NaN for a row whose first tile is all -inf, where the
  fused one does not, against `test_kernels.py:44`.

Chaos suite and monitors:

- `fault_duration` 0 by default opens the breaker for 0 s; an injector that raises
  cancels CLEAR and leaves the fault, and the next suite's GPU injector then
  restores the leftover limit; refused calls are reported as restored;
  `SimFault.clear` leaves `ttft_jitter_ms` and clears every fault of the server;
  the traffic spike posts slowdown 1.0 and so relieves a throttle.
- `int(float(cur))` drops the fraction of the power limit (`chaos.py:290`), so `clear`
  comes up to a watt short of "the real value" (`chaos.py:272`).
- Samples without answers are skipped, so "consecutive healthy" bridges an outage;
  the last bucket is never judged; the burn rate is over the whole run, the
  consumed budget over the fault; `res.samples` gets an entry without "t" before
  the plot. `drive_load` opens a stream per request, so a multi-turn workload
  sends first turns only.
- The dashboard counts an endpoint it cannot reach as 0, so its return is a spike; the
  acceptance watch does not notice a restart; the monitor's alerts fire once.
- "least-loaded" in the cluster counts what was ever assigned, so it is round robin;
  the first token comes in decode when disaggregated, in prefill when colocated.

## 7. Not modelled

Step costs (`simulator/cost.py`), data tables and closed formulas (`modelspec.py`,
`gpus.py`, `quant.py`, `specdec.py`, `tokenizer.py`, `quantlab.py`) have no state and no
control: the models let a step take any time. The experiment scripts run the
modelled parts on fixed inputs and print tables.

Partly modelled, with what is left out: the cluster (`optimal_split`, roofline
times), dashboard and monitors (reports, rendering), chaos (plots, printing, the
load's seed), statistics (means, deviations, rates over floats), benchmark and
teardown (`cmd_single`, `cmd_compare`, rendering), workloads (length distributions,
text), costs (MFU and MBU), budget (pipeline stages, printing), quality
(texts, sampling noise), kernels (rounding, autotuning, the PyTorch baselines),
acceptance watch (the acceptance arithmetic). In the modelled parts, counters that are
only displayed, log lines, HTTP headers and bodies, and latencies that decide nothing are
left out.
