# A TLA+ verification of the DSpark TP4 serving stack

This directory holds TLA+ models of the repository's software: the gateway in
front of vLLM, the scripts that bring the four-host tensor-parallel cluster up and
those that bring it back after a failure, the two plug-ins that replace the MoE
experts of the engine, and the persistent GEMM kernels one of them launches. TLC
checks the models on small instances and TLAPS proves the central safety properties
for every value of the constants. Paths below are relative to `src/`; `SP` stands
for `scripts/server-production`, `HD` for `scripts/hardening`, `KN` for
`kernels/server-nvfp4`.

    tlc -workers 2 -config MCProxySafety.cfg MCConcurrencyProxy     # one run
    tlapm ConcurrencyProxyProofs.tla                                # one proof module

Contents: 1 the system, 2 the modules, 3 gateway, 4 self-recovery, 5 cluster
start, 6 MoE plug-ins, 7 GEMM kernels, 8 what the checks found, 9 what is and is
not proved, 10 what is not modelled, 11 plan.

## 1. The system

vLLM serves one model with tensor parallelism over four hosts joined by a RoCE
ring. Rank 0 (the head) owns a TCPStore on port 25999 at which ranks 1..3
register, and the API on port 8002. Clients talk to a gateway on port 8001.

| component | source | state | operations |
|---|---|---|---|
| Gateway | `SP/concurrency_proxy.py` | asyncio queue, `in_flight`, one `RequestTask` per request, N worker coroutines | `handle`, `_worker`, `_forward_request`, `_relay_stream`, `_forward_direct`, `_proxy_health`, `_shutdown` |
| Monitor of rank 0 | `SP/monitor_tp4_head.sh` | the step it is at, `LAST`, `NO_PROGRESS` | follow, clear the workers, start rank 0, wait for TCPStore, gate "D3" |
| Health timer | `SP/healthcheck-rebuild.sh`, `HD/healthcheck_hardened.sh` | state files: `failcnt`, time of the last removal | probe, judge, `docker rm -f` |
| Cluster start | `SP/start_tp4_cluster.sh` | where it is, `NODE_MD5`, `cluster_gate_fail` | clean, gate of step 0, head, store, workers, readiness |
| Start scripts | `SP/start_tp4_head.sh`, `SP/start_tp4_worker.sh` | decided index | source the index, checks, D1 wait, `docker rm`, `docker run` |
| RoCE checks | `HD/preflight_roce_gid.sh`, `HD/probe_gid_index.sh`, `HD/gid_index_env.sh` | none (functions of the GID tables) | hole scan, preflight, suggestion, fence |
| Watchdog | `HD/watchdog_hardened.sh` | counters in state files | sample, compare, restart the gateway |
| W4A4 plug-in | `KN/plugin_a1_bprime/` | per layer: derived weights, wrapper; the layout policy of b12x | `install`, `_derive_w4a4`, `process_weights_after_loading`, `apply` |
| Wrapper pool | `patches/ws-dedup-patch-2026-08-22/flashinfer_b12x_moe.py` | pool of wrappers by geometry | `_ensure_wrapper`, `process_weights_after_loading`, `apply` |
| Merged-GEMM plug-in | `KN/plugin_merged/` | per layer: views, cache of w2 combinations; per process: compiled kernels, warm-up | `install`, `_derive`, `_dsl_warmup`, `apply`, `_merged_bucket`, `_w2_combo_get`, `triton_moe` |
| GEMM kernels | `KN/routeb_official_v2/`, the cooperative one in `patches/routeb-archive-2026-08-21/` | mbarriers, ring of stages, epilogue buffers, registers | parser, dispatcher, `run_bs`, `_compute_stages`, loader and MMA warps |
| NCCL ring-only | `patches/ringonly-v5-2026-08-23/` | transport per pair of ranks | connect, refuse |
| Numeric kernels, benchmarks, quality gates, documents | `kernels/`, `scripts/*.py`, `patches/_fp8_qg_toolchain/`, `docs/` | none that outlives a run | numerics, measurement |

**Interactions.** Clients call the gateway, the gateway calls 8002. The monitor,
the health timer, the watchdog, the cluster script and the start scripts never
call each other's state: they meet in Docker (container names), in the sockets of
25999, 8001 and 8002, and in state files. That is where the difficult behaviour
is: each script reads something, decides, and acts later on what may have become
something else. Inside the engine, vLLM calls the experts of a layer when its weights
are loaded and in every forward pass; the plug-ins put their classes in the place of
vLLM's and fall back to them. Both share tensors with the class they replace and a
pool with all other layers. The merged plug-in calls the GEMM kernel per bucket.

**What is hard, and what makes each component correct.**

* Gateway - handlers and workers interleave at every `await`; clients leave
  while queued, while forwarded, or never read; put timeouts race freed room;
  SIGTERM arrives anywhere. Correct means: no request lost or served twice,
  first come first served, slots and counters exact on every path out of a
  forward, a refused request leaves no trace, every request is answered, every
  slot comes back.
* Self-recovery - two watchers unaware of each other act on one container; the
  ranks must come back in an order; timers, a cooldown and a grace overlap;
  an ssh or an engine may fail at any point. Correct means: rank 0 before the
  others, and the cluster serves again once failures stop.
* Cluster start - a gate must hold before anything starts; the scripts it starts
  outlive it; a wrong index hangs the cluster for ever. Correct means: nothing
  starts past a closed gate, no hole is injected, READY means whole, and hosts
  that are in order do come up.
* RoCE checks - lexical order of the shell glob, several ports with different
  tables, absent tools. Correct means: the decided index is dynamic or valid on
  every port.
* Watchdog - counters kept in files while the container they count is replaced.
  Correct means: a burst of errors of the present container is noticed.
* MoE plug-ins - tensors are swapped, shared, repacked and released in place;
  three modes, two classes, four phases of the engine, an exception at any point of a
  bucket. Correct means: whoever reads weights reads them in the order they are in,
  every row is the sum over its experts, each once, whatever way it took, nothing is
  compiled or allocated per call once the engine serves.
* GEMM kernels - a barrier remembers a parity and no more, loads and stores are
  asynchronous, two groups share one ring. Correct means: no stage is read or
  overwritten in the wrong round, one group in each part, every tile stored once, the
  grid ends.

## 2. The modules

| module | role |
|---|---|
| `AdmissionQueue` | abstract specification of the gateway: a bounded line before bounded slots |
| `ConcurrencyProxy` | the gateway, coroutine by coroutine, and its refinement mapping |
| `MCConcurrencyProxy` | instances, five configurations `MCProxy*.cfg` |
| `ConcurrencyProxyProofs` | inductive invariant and safety theorems; the gateway implements `AdmissionQueue` |
| `SelfRecovery` | monitor, health timer, and what they see of vLLM, Docker, the workers |
| `MCSelfRecovery` | instances, `MCRecovery*.cfg` |
| `SelfRecoveryProofs` | inductive invariant and safety theorems |
| `RoceGid` | the pure part: GID tables, preflight, suggestion, injected index |
| `ClusterStart` | the cluster script, the start scripts, containers (extends `RoceGid`) |
| `MCClusterStart` | hosts that differ, `MCStart*.cfg` |
| `ClusterStartProofs` | theorems about the index, the gate and runs that follow each other |
| `ScaleLayout` | the address of a scale, for the host and for Triton, and its conversion |
| `TritonMoe` | `triton_moe` and `_align_pairs` as functions of a batch |
| `WrapperPool` | the pool of wrappers and its look-up |
| `B12xExperts` | layers, batches, and vLLM's own experts as the plug-ins use them |
| `W4A4Experts` | the W4A4 plug-in and the experts of the pool patch |
| `MergedExperts` | the merged plug-in |
| `MoePlugins` | the engine process that loads and calls them |
| `MCMoePlugins` | instance |
| `MoePluginsProofs` | invariants of the engine, every row exact, theorems about the addresses |
| `TilePipeline` | abstract specification of a persistent kernel: tiles pass two parts in order |
| `TmaPipeline` | the machine: mbarriers, TMA loads, bulk stores, tile scheduler |
| `PingpongGemm`, `CooperativeGemm` | the two kernels, warp by warp |
| `GemmHost` | parser, checks, stages, shared-memory layout as operators |
| `GemmRun` | a call of `run_bs`, the properties and the refinement of `TilePipeline` |
| `MCGemmRun` | instances |
| `TmaPipelineProofs` | the ring of stages: rounds of an mbarrier, what a stage holds |
| `PingpongGemmProofs`, `CooperativeGemmProofs` | inductive invariants of the two kernels |
| `GemmRunProofs` | the arithmetic of the host, the theorems about a whole run and the refinement of `TilePipeline` |

Definitions marked "Mutant" are variants of the action that follows them, as a
plausible bug would have it (a dropped guard, a missing reset, a lost step). No
specification uses them: they exist to confirm that each property would notice
the bug, by replacing the action with its variant.

Conventions: a step is what one process does between two points at which
another can observe it. Guards come from the conditions of the code. Bounds on
failures and runs are constants named `Max...`; they appear in the guard
of `Fault` or `Launch` and nowhere else.

## 3. Gateway

### State and actions

| variable | code |
|---|---|
| `queue`, `unfinished` | `self.queue` and its count of tasks without `task_done()` |
| `in_flight` | `self.in_flight` |
| `handler[c]` | where `handle()` of client `c` is suspended, or how it ended |
| `cancelled`, `done`, `result` | `task.cancelled`, `task.done`, `task.response` / `task.exc` |
| `prepared` | clients that have been sent a status line by `_relay_stream` |
| `gone` | clients whose connection is lost |
| `wpc[w]`, `wtask[w]` | the await at which worker `w` is suspended, its local `task` |
| `cancelling` | workers with a `cancel()` that is not delivered yet |
| `backend` | requests that vLLM executes |
| `phase` | `run()`: serving, in `_shutdown`, over |

The coroutine suspends only at an `await` that really waits, so one action runs
from one such await to the next. `queue.put` with room, `asyncio.Lock` without
contention and `prepare` do not suspend. The stages of a forward are `body`
(`request.read`), `connect`, `await` (headers or a whole body), `stream`
(`iter_any`), `write`, and `eof` / `abort`: the `write_eof` of the finally
clause, after a stream that ended or failed. `Finish` is the except and finally
clauses of `_worker`. A probe (`/v1/models`, `/health`) passes the queue by and has
three stages of its own, `reading` its body, `connecting`, `asking`
(`ControlArrives` to `ControlTimesOut`). A client that was answered comes back with its next
request (`Recycle`), so runs are unbounded without a counter.

Constants: `MaxConc`, `MaxQueue` (the queue holds their sum, line 86);
`HandlerCancellation`, since whether aiohttp cancels the handler of a client that
has left depends on the server option and its version; `MayStop`.

### Fairness

`LoopFairness` is the event loop: a coroutine that can run does run, and a timer
that stays armed fires (`QUEUE_PUT_TIMEOUT_S`, `CONNECT_TIMEOUT_S`, `sock_read`, and
the timers of a probe, lines 267-269 and 285). `WF(BodyLost)`, `WF(WriteFails)`,
`WF(ControlBodyLost)` and the like hold because asyncio delivers the
loss of a connection. Nothing is assumed of clients or of the backend: reading a
body has no timer, neither in a forward nor in a probe (line 263), so no fairness
ends it while the client stays connected. A second
set, `Cooperation`, says that clients send the body they announced and read what
they asked for, and that the backend ends each stream (`max_tokens`); only the
cooperative run uses it. Strong fairness of `StreamEnds` is needed there because
the stream alternates between waiting for a chunk and writing it.

### Runs

| run | instance | shows |
|---|---|---|
| `proxy_safety` | 3 clients, 2 workers, queue of 2, cancellation, SIGTERM; symmetric clients | refinement of `AdmissionQueue`, the type invariant and five safety invariants |
| `proxy_cooperative` | 3 clients, 1 worker, queue of 1, SIGTERM, cooperation | `EveryRequestAnswered`, `SlotReleased`, `IdleShutdownCompletes` |
| `proxy_adversarial` | 2 clients and a probe, 1 worker, queue of 1, frozen clients, silent backend | `SilentBackendHoldsNobody`: a silent backend keeps neither a slot nor a probe whose body has been read; no deadlock |
| `proxy_frozen_client` | 1 client | `SlotReleased` is violated, see 8 |
| `proxy_mid_stream` | 1 client | `FailureIs502` is violated, see 8 |

Why these bounds are enough: the interesting races need a full queue with a
blocked put beside a newcomer (three clients over capacity) and two workers that
finish out of order. All of them occur. A client comes back when nothing of its
former request is queued, held or executed (`Recycle`): a request that is back
earlier is another client to the gateway. The proofs remove the bounds for safety.

## 4. Self-recovery of rank 0

### State and actions

`head` is the container of rank 0 as the scripts can tell it apart: absent, before
and after TCPStore listens, serving, `hung` (`/health` answers, nothing is
generated), `deaf` (runs, `/health` does not answer), `stalled` (a rank was lost
during the start). `worker[w]` is the container of a rank and whether it belongs
to the present rank 0 (`stale` if not); `starting` is a `start_tp4_worker.sh` that
runs and has not come to its `docker run`, up to 300 s later. The monitor is `mon`, `toClear`, `tries`,
`last`, `noProgress`; the timer is `timer`, `failcnt`, `cooling`. History variables
say what the properties refer to: has the gate given this rank 0 up (`abandoned`),
which hosts has the ssh loop of this round missed (`unreached`), and on which did it find
no container but a start script that ran (`late`).

The timer's run is three steps (`ProbeFails`, `Judge...`, `TimerRemoves`), because
minutes pass between the probe and `docker rm -f` (30 s of probe, 5 s of curl), and
the monitor moves meanwhile. The ssh loop is one step per host, any order being a
superset of the order of the loop; a failed ssh (`|| true`) is `ClearFails`.

**Time.** A poll may find whatever has happened, and a wait may end at any
moment. `GRACE_SECONDS` (900) exceeds a cold start and `COOLDOWN` (1800) exceeds
the grace: when the grace ends before rank 0 is ready, or the cooldown during a
start, the model charges a failure. vLLM, Docker and the workers' monitors
(`monitor_tp4_worker.sh` is not in the repository;
`docs/07-deployment/ops/self-recovery.md` describes it) are external.

**Fairness.** systemd restarts the monitor, the timer fires every minute, ssh and
curl have timeouts; an engine boots, the workers' monitors launch and the start scripts
come to an end (`WorkerLaunches`, `WorkerCreates`), a worker joins, and a rank that waits for a
lost one ends by `--distributed-timeout-seconds 300`. None for failures, for a
deaf engine that hears again, and for a worker's monitor that kills rank 0.

### Runs

`recovery`: three workers (the real number), any two failures, limits of two polls
in place of 60 and 12 - the counters differ only in how long they take. Two
failures are what it takes to combine an unreachable host with a lost rank, or a
deaf engine with a removal in the cooldown. It checks `TypeOK`, `HeadFirst`,
and under fairness `Recovers` and `DeafRebuilt`. `HeadFirst` says of the order only what
the scripts can hold: when a rank 0 boots, what there is on a worker's host is one the
loop missed or one a running script has created or will create. `recovery_gate`:
`AbandonedHeadRebuilt` is violated, see 8. Deadlock is checked.

Some remarks from the modelling that no run restates.
* A script launched while the old TCPStore listened creates its container on a
  cleared host before the new rank 0 listens, although the runbook
  (`docs/07-deployment/runbook-tp4-v1.5-2026-08-12.md:13`) has worker containers wait
  for the store: `start_tp4_worker.sh` does not look again after waiting for its model.
* The timer removes whatever rank 0 there is when it comes to `docker rm -f`: if its
  probes found none and the monitor starts one meanwhile, that is one in its grace,
  which the probe alone respects (`healthcheck_hardened.sh:10`).
* `failcnt` is reset by a healthy probe or a removal only, so the "two consecutive"
  failures of line 68 of `healthcheck-rebuild.sh` may be hours apart, with BUSY verdicts
  or a cooldown in between; the model keeps the counter exactly so.

A `hung` engine is BUSY to the
timer for ever, and only vLLM's own timeout brings it back: `Recovers` rests
on it. And `ss | grep -c` counts every socket with the port, including rank 0's
own, if it has any: the constant `OwnSockets`, 0 in the runs as the script
assumes, any natural number in the proofs.

## 5. RoCE checks and cluster start

### State and actions

`RoceGid` is pure. The tables of a host are a sequence (ports, in glob order) of
functions from slots to `hole`, `v2`, `other`; `Glob` is the lexical order in which
a shell lists the slots (10 before 3). `Preflight`, `Suggest` and `GidIndexEnv`
are what the three scripts compute, `SafeIndex` what an injected index has to be.

`ClusterStart` has the cluster script (`cpc`, `pos`, `libs`, `gateFail`), one start
script per run and host (`leaf`, `index`), and the containers (`owner`: the
run whose script created it, `phase`). The start scripts run in the background and
outlive the cluster script, so scripts of two runs can be alive together. A host
is a record: tables, library, are the checks installed (`tools`), have the
ports their expected names, is the model mounted when the script looks. The
exit codes count as the scripts use them: the branch for 3 and 4 after
`if ! cmd; then RC=$?` never runs, so `Checks` goes on.

**Abstractions.** An existing but empty `/sys/class/infiniband`, for which the probe
prints -1 and the head's script goes on, is taken for a host without InfiniBand
(`Blocked`). What the hosts are like is fixed while the model runs, except
that a model may be mounted late: the index is decided up to 300 s before it is
injected (`start_tp4_worker.sh:110`), and a table that changes in between is not
covered. Two polls in a row are one. The three ssh calls of the gate per rank
are one outcome. A deadline without a reason costs a failure (`Late`). `--peers`
(no script passes it), `TP4_GID_INDEX` (the operator's own choice) and criterion 3
(a warning) are left out, and so are starts by systemd while the script runs.

**Fairness.** Scripts run, engines boot and join. None for an operator's launch,
failures, mounts and deadlines. `CHECK_DEADLOCK FALSE`, as the script ends.

### Runs

`cluster_start`: three hosts, two runs of the script, one failing command. One
host, any, or all of them deviate from a good host in any of ten ways: index 1
only, an index that is a hole on another port, a hole in the window, no
InfiniBand, no checks, neither, other port names, late mount, missing or other
library. Two ports with slots 1, 10 and 3 suffice for each branch of the probe
(slot 3 valid; last port has the say; first slot in lexical order; no v2).
Checked: `TypeOK`, `GateHolds`, `InjectedIndexSafe`, `OnlyThisRun`, `ReadyIsWhole`,
`FirstStartCompletes`. `start_nogo`: violated, see 8; one run of
the script and no failure are enough.

`OnlyThisRun` and `ReadyIsWhole` have the exception `~gaveUp` for a reason: the
existence gate waits 120 s for a container whose script may wait 300 s for its
model. A run that gives up there leaves a script behind that can create a container
in the middle of the next run. The operator who launches again at once meets it.

## 6. MoE plug-ins

### State and actions

| variable | code |
|---|---|
| `env` | environment variables of the process, what the checkpoint is like |
| `host` | what `install()` has put in place: class, layout policy, direct kernel |
| `phase` | import, load, profile, capture, serve, or stopped by an exception |
| `layer[l]` | the layer's tensors: order of the halves of w13 (`w31`: gate first), are w2 and the scales intact, what the W4A16 path has prepared |
| `kernel[l]` | attributes of the layer's experts; `view` is the layer's own tensor, anything else a copy |
| `pool`, `made` | `_B12X_WRAPPER_POOL` and every wrapper created |
| `combos`, `order` | `_w2_combo`, `_w2_combo_order` |
| `compiled`, `late`, `warmed` | `_COMPILED`, what of it was added after loading, outcome of the warm-up |
| `at`, `tokens`, `batch` | the layer that loads or runs, M of the pass, the call of `apply` |

`Install` imports the plug-ins; `Load` is `process_weights_after_loading` of the next
layer in its class (`LoadW4A4`, `LoadMerged`, `LoadOverlay`, `LoadBase`); `Profile`,
`Capture` and `Serve` begin a pass, `Apply` is one step of one layer's `apply`,
`NextLayer` goes on. A batch through the merged experts takes one step per bucket and
one for the rest, because an exception may hit any of them: a bucket may fail before
its second operand, after it, or after the rows were written (`merged_mask` is set
last), then Triton computes the rows again; Triton may fail too, then the class that was
replaced does the whole batch (`TritonFails`). All else of an `apply` is one
stream of one process and so one step; the pool's look-up is under its lock.

Data are abstracted to what the properties tell apart. A weight is the order it is in
and whether it has been overwritten; an output row counts, for each expert and slot,
how often that expert's result went in with the weight of that slot, so the right
row is one for each valid slot. Sorting by key, the tile map, the padded alignment of
Triton, tiers and keys of compiled kernels are computed as in the code.

### Run and bounds

`moe`: two layers, three experts, two per row, blocks of two rows, ten batches of at
most four rows. Sizes the real values keep apart are kept apart: 1 (direct kernel) < 2
(bucket, tile, tier) < 3 (W4A4 from here) < 4 (beyond the top tier, and the profiling
pass). The cache holds one combination, so the second of a batch drops the first. Two
layers of equal or different geometry, one or none from an NVFP4 checkpoint, are
what sharing takes. Environments: every mode of the W4A4 plug-in with and without
pool, native layout, known layout policy, weights on the input; the merged one
with expert map, weights on the input, with and without warm-up.

* `RowsExact`: each row of each answer is exact, in all modes, phases and fall-backs.
* `KernelReadsItsOrder`: what a wrapper and the W4A16 path are given after loading.
* `CombosBounded`, `NoCompileWhileServing`, `OneWrapperPerGeometry`: what is shared stays
  bounded and is not handed to those it was not made for.
* `EveryPassEnds`: loading and each pass end, in an answer or the end of the engine.

`moe_fall_back`: the merged plug-in alone; `ViewsOutlastFallBacks` is violated, see 8. That
B12X prepares on its first call what nobody has prepared, in place, is external
(`B12xApply`) and taken from what `triton_moe.py:184-187` and `merged_experts.py:5` say.

**Fairness.** `WF(Step)`: an engine that can go on does. Nobody has to begin a pass.
`CHECK_DEADLOCK FALSE`, as an exception may end the engine.

**Limits.** The documentation of the plug-ins forbids the two in one process
(`OnePlugin`). `Supported(l)` leaves out weights on the input for the merged experts,
for layers of an NVFP4 checkpoint (`apply` takes the flag and never reads it, and the
wrapper can only weight the output: the model's answer is `Garbage`) and for the
full W4A4 mode, which falls back to a path that it has not prepared.
`VLLM_MOE_W4A4_CG` keeps its default of 1. A CUDA graph that is replayed is not
modelled, only its capture, which ends the engine if the path needs the host.

## 7. GEMM kernels

### State and actions

One CTA: the DMA warp (`loader`), the MMA warps (`pc`, `warp`, `ord`), per stage the
barriers `full` and `empty` and what the stage holds (`smem`), the order barrier
(`order`), the named barrier of the epilogue (`bar`), TMA loads under way (`inflight`),
epilogue buffers (`sC`), bulk stores with their read progress (`stores`), and the output.
An mbarrier is a parity and its arrivals, as in hardware: a wait passes when the phase
of its parity is over, in whichever round. Loads land and stores read in any order
that the hardware allows. Each pc of an MMA warp is a point at which it waits or after
which another warp can see what it did; the register pipeline (copy block k+1, multiply
block k) is explicit. The accumulator is the sequence of fragments that were
multiplied, so `OutputRight` compares what is stored with the product the caller's
tile map means, not with what was launched.

CUTLASS DSL and hardware are external and modelled from how the kernels use them.
`GemmHost` has the parser's and dispatcher's checks, `_compute_stages` and the
layout of `SharedStorage` with real sizes and the real capacity of 101376 bytes.

### Run and bounds

`gemm`: all combinations of operand types, scale types, vector sizes and tile shapes
through the host and on one tile; then a ping-pong kernel with three stages, an
indirect tile map and two warps in each group, with a single stage, with eight epilogue
slices over four buffers, as second of two CTAs, and the cooperative kernel with one
slice and with two. At most
three tiles and three k tiles: the groups take turns, one has a last round without a
tile, the ring wraps within a tile and across tiles, and a group skips the k tiles of
the other. Number of warps is one or two where the kernel has four.

`OutputRight`, `StageIntact`, `OneGroupPerPart`, `DrainedAtExit` are about rounds and
asynchronous copies; `StorageFits` and `ParsedCompiles` relate the tables of the host
to each other; `TilesInOrder` is the refinement of `TilePipeline`; `EveryTileStored` is
liveness. **Fairness** is weak and of the whole next-state relation: a warp that waits
is not enabled, copies complete, so a step that stays possible is taken.

**Limits.** CuTe's layout algebra (which thread holds which element), the bit shift of
FP4 in the mixed mode, the reference check and the benchmark loop are left out;
n is a multiple of 128 and the batch dimension L is 1 (`TileN`), as for every caller.
`FinalExecution` is the last execution of the ping-pong `run_bs`, which writes the
tensors it returns; for the cooperative `run_bs`, which returns a time, it stands
for any of its launches. `WellFormed` in `GemmRun` names the calls
that are looked at (`ProblemsAssumption`): nothing in the code refuses a direct call
whose tile leaves no room for a stage. The cooperative kernel drains none of its stores
at the end, so `DrainedAtExit` allows it one less than it has buffers (what its last
acquire lets be), and zero for the ping-pong kernel.

## 8. Where the code and its documentation differ

Each is a run that finds the violation of what the text says.

| run | property | text | code |
|---|---|---|---|
| `proxy_frozen_client` | `SlotReleased` | `SP/concurrency_proxy.py:17`: the stream timeout keeps a frozen request from holding a slot for ever | `request.read`, `client_resp.write` and `write_eof` have no timer; `sock_read` bounds the backend only |
| `proxy_mid_stream` | `FailureIs502` | line 193: recorded, then returned as 502 | a stream that fails has sent its 200 and gets a regular end of stream; the 502 is a second response |
| `recovery_gate` | `AbandonedHeadRebuilt` | `SP/monitor_tp4_head.sh:15`: no progress leads to a head-first rebuild of the whole chain | the monitor exits, rank 0 stays, and the next monitor follows it |
| `start_nogo` | `NoGoNeverStarts` | `SP/start_tp4_head.sh:209`: any anomaly is exit 3, no container is created | the exit code is lost in a negation |
| `moe_fall_back` | `ViewsOutlastFallBacks` | `merged_experts.py:4` in `KN/plugin_merged/routeb_merged_plugin`: B12X is out altogether, as its repacking in place would destroy the views | when Triton fails, `super().apply` (line 336) prepares the layer in place and `_ready` stays set: the next batch reads repacked bytes (`RowsExact` leaves those batches out) |

Read off the code, without a run: no script passes `--peers`, so nobody compares the
indices of the hosts, although `SP/start_tp4_head.sh:252` says the cluster layer does; the key of the pool leaves out `use_cuda_graph`; `SharedStorage` of the
ping-pong kernel has room for two order mbarriers where four are set up, and the padding
before the first buffer takes the rest (`StorageFits`); B's alignment is checked with A's
data type (`run_bs`). `_worker` catches the CancelledError of
`_shutdown` and goes on, so a SIGTERM under load does not end the process
(`IdleShutdownCompletes` states the part that holds); after an idle timeout
vLLM may execute more than `MAX_CONCURRENCY` requests for a while, although the
header (`:8`) promises that it has at most 12 at a time; aiohttp does not cancel the
handler of a lost client unless `AppRunner` is told to (line 101 does not), so
lines 170-172 may never run in production - the constant `HandlerCancellation` covers
both; `start_tp4_head.sh:239` speaks of keeping the decided
value in a degraded path in which `set -e` has already ended the script; the
probe's header excludes holes, its suggestion may be a hole of another port
(`gid_index_env.sh` fences it, which is what `InjectedIndexSafe` relies on).

## 9. What is proved

All theorems hold for every value of the constants that satisfies the named
assumptions (positive concurrency, `NoClient` not a client, finitely many workers,
positive limits, distinct natural slots, hosts of the right shape, positive sizes of the experts,
whole blocks of 128 and 256 rows, ascending tiers of the merged experts, never both
plug-ins, GEMM problems of the shape the parser builds, a shared memory with room for
the largest tile). Where a theorem needs more, that is its hypothesis and named below.
The pattern is the usual one: `Init => Inv`, `Inv /\ [Next]_vars => Inv'`, `Inv => P`.

* **Gateway.** The safety invariants are not inductive: that a queue has no
  duplicates depends on a handler never putting a task that still exists. `Inv` adds
  `WorkersHold` (a worker has a task exactly in a forward), `DoneIsOver` (a done task
  is nowhere else), `HandlerMatchesTask` (what each state of the handler says of the
  places the task can be) and `DeadAtExit`. Steps are grouped by shape: a put, a
  move of a handler, a get, a move within a forward (`MovesOn`), the end of a
  forward (`Leaves`); lemmas on `Append`, `Tail` and the cardinality of the busy
  workers serve all of them. Theorems: `TypeCorrect`, `SlotsAccounted`,
  `NoDoubleService`, `NoRequestLost`, `RefusalIsClean`, `BackendAccounted`.
* **Refinement.** `GatewayRefinesAdmissionQueue`: a put is `Admit` (a blocked one
  `Ask` first), a get `Start` or `Drop`, `Finish` is `Complete`, a cancelled handler
  `Abandon`, the end of the process `Abandon` of all; the rest stutters. The
  invariant supplies that a queued task is marked cancelled exactly if its verdict
  is "abandoned", and that a worker in `queue.get` means a free slot.
* **Self-recovery.** `HeadFirst` needs that a cleared host stays clear while the loop
  goes on, which holds as no TCPStore listens (`ClearedStaysClear`), and that a script
  the loop found running is remembered. Theorems: `RecoveryTypeCorrect`,
  `HeadStartsFirst`.
* **Cluster start.** `DecidedIndexSafe` is about any tables, by
  the least-element lemma on the glob order. `GateBeforeStart` needs that what
  the loop has looked at is what `libs` and `gateFail` remember (`CheckedSoFar`), also
  for a second run over the same hosts. `NoHoleInjected` combines the index with the
  life of the start scripts. `StartTypeCorrect` is the type invariant. `RunsApart` and `ReadyMeansWhole` hold while
  nothing has failed and no run has given up (`Calm`); their invariant `Undisturbed`
  says that only scripts of the present run are active, and only while it starts
  something, that it has not started what its loop has not reached, that a container
  was created by a script that is done, and that an engine that serves is whole.
* **MoE plug-ins.** `EngineTypes` is the frame of the rest: types, and the phase the
  engine is in. `OneWrapper` needs that with sharing on every wrapper is in the pool
  under its own geometry (`PoolShape`). `OrderRead` needs that a layer not loaded yet is
  as the loader left it, and what exactly each of the three modes leaves (`OrderInv`).
  `ComboCacheRight` rests on a lemma on sequences: appending a new element and
  dropping the oldest keeps a sequence without duplicates (`FirstInFirstOut`).
  `NothingCompiledLate` needs that nothing is compiled late before the warm-up
  (`LateInv`: a layer with merged experts that is ready means the warm-up was tried),
  and that every bucket gets the key of a tier or is larger than all of them
  (`TierPicked`, from `TiersAssumption`: ascending tiers). Its hypothesis
  `WarmTopK = TopK` is a real condition: `_dsl_warmup` has the 6 experts of one model
  written into it, and a model with another number compiles while it serves.
  `TritonReadsWhatHostWrote`, `SwizzleInStorage` and `SwizzleIsInjective` replace the
  sampled rows of the run by all rows, groups and sizes.
  `EveryRowExact` states `RowsExact` and is the most of the work. Its invariant adds to
  the types, orders and cache what loading and each fall-back leave of a layer
  (`LayersRight`: the views of a merged layer show the loaded bytes as long as its
  W4A16 path has not been prepared, and so does every cached combination) and that a
  row is exact from the moment a bucket has taken it (`BatchRight`). What a step then needs
  are facts about the three ways a row is computed:
  - Triton, for any batch (`TritonRowsExact`): the pairs of a batch and (row, slot) are
    one to one (`PairsOfRows`); the padded segments of the experts add up and fit the
    buffer (`EndsAddUp`, `RunsFit`) and follow each other in it (`RunsFollow`); so a
    pair's place in the sorted order gives it a position of its own in a block of its own
    expert (`PositionsInOrder`, `BlockOfPair`, `AddedOnce`).
  - Buckets: the key is a number whose digits are the sorted experts, so equal keys mean
    equal experts (`KeyDigits`, `SameKeySameExperts`); sorting a row loses and repeats no
    slot (`SortPermutes`); each block of rows of the merged GEMM gets the weights of the expert
    whose slot it is (`BlockOfExpert`, `MergedRowExact`).
  - The rest of the engine: the base class, the W4A4 and the overlay answer with the
    exact rows if `OrderRead` holds for the layer.
  Recursive functions (prefix sums, Horner's scheme, powers of two) are followed over an
  interval with a set of the places where the claim holds (`IntervalInduction`,
  `RecursionSolved`), since the induction theorems of the library take an operator.
  Two hypotheses. `NumExperts <= 256`: the key has the base 256, and nothing in the code
  compares it with the number of experts; with more, rows of different experts would
  share a bucket. Here a model has 256 experts, of which 6 per row make 48 bits; the
  key is a number without a width in the model, so the theorem speaks of int64 for up to seven
  slots. `SampledScales \subseteq 118 .. 135`: the E8M0 scales of the checkpoint are those
  whose value an E4M3 byte has; the table rounds the smaller ones to zero and has no
  number for the larger ones.
* **GEMM kernels.** `RunTypes`, `StagesStayIntact`, `RunGroupsTakeTurns`,
  `OutputStaysRight` and `RunDrained` are about a run of either kernel, for any number of warps, tiles, k
  tiles, stages, slices, buffers and CTAs; the run has at most three tiles.
  A parity cannot tell round n from n + 2, so the invariants count what the kernel does
  not: how many phases of each barrier are over and how often each warp has arrived.
  For the order barrier that is `Rounds` in `PingpongGemmProofs`: no warp is two rounds
  behind, and within that distance the parity decides (`GroupsTakeTurns`). For the ring,
  `TmaPipelineProofs` gives every load a running number. The loader has filled stage s
  as often as its number says, each warp has released what lies behind its own number,
  full and empty barriers are at the round these numbers imply, and a stage holds the
  operands of the load that filled it until the last of its readers released it. A group
  of the ping-pong kernel skips the numbers of the other's tiles, which is why `advance`
  must toggle its parity exactly once for each wrap. Lemmas there are one per operation
  of the ring (a load, a landing, a wait, a release, a skip) and serve both kernels;
  `PingInv` and `CoopInv` add what each warp's registers say of its number, and which of
  its stores are unread.
  From the stages the data is followed to the output. `PingSums` and `CoopSums` say
  which blocks a warp has multiplied and which it holds in registers, as a function of
  the place it has reached. `EpilogueInv` and `CoopEpilogueInv` say that the warps that share an
  epilogue pass its two barriers together (no warp is past a barrier another has not
  reached), which slice each warp has put into which buffer, that no store still
  reads a buffer that is written again, and that the stores issued so far are exactly
  what the output has and will get: each slice of a tile by one store, which holds the sums
  of all warps.
  `OutputStaysRight` has a hypothesis, `TwoBlocksEach`: a k tile of the ping-pong kernel has
  at least two MMA blocks. Its main loop copies the first block of the next k
  tile before it multiplies the last one of the present, so with a single block it would
  overwrite the fragment it is about to multiply. Every tile shape of the command line has
  two or more; nothing in the code refuses a direct call with one.
  `RunKeepsTilesInOrder` is the refinement of `TilePipeline`, without a hypothesis. The
  abstract counts are those of all warps at once: a tile has entered when some warp has
  begun it and is multiplied when every warp with a share in it is past its main loop. That
  such counts move by one needs `InTurn`: no warp begins a tile while another has
  not ended an earlier one of its own. In the ping-pong kernel the rounds of the order barrier
  give it (`RoundsInTurn`), for the two parts separately; that a tile is multiplied by
  all its warps before one of them has the buffers is due to the named barrier
  (`PassedInTurn`), which in the cooperative kernel has to keep the warps in turn alone.
  `Advance` says that a step gains in one of the four places only, `CountsMove` turns
  that into a step of the abstract counts, and `StoreMoves` follows a bulk store to its slice.
  What the host does before the launch, loads, barriers and blocks are stuttering steps.
  `GemmRunProofs` starts at the host: its numbers (`HostNumbers`, `CliStages`) are what
  `LaunchIsLaunch` needs for the kernels' invariants to hold at the first step, and
  what a stage should hold by the caller's tile map (`WantedStage`) is what
  the launch makes the loader fetch (`WantedColumn`). `RunParsedCompiles` and `RunStorageFits` are
  about the tables and sizes: every tile of the command line, every pair of types,
  vector size and C type. `RunStorageFits` has the real capacity of 101376 bytes as
  hypothesis, and the tiles of the command line: the padding that the four order
  mbarriers live in depends on both. `RunParsedCompiles` needs room for one stage of the
  largest tile only (`SmemCapacityAssumption`).

Only model-checked: every liveness property, as no prover here does fairness or
ENABLED. Every invariant and every action property of the passing runs is a theorem.

## 10. What is not modelled

* Watchdog, ring-only NCCL: planned, see 11. The patched NCCL itself is not in the
  repository as source, only what the patch changes.
* FP4 arithmetic, activation, quantisation of the MoE path, its self check and debug
  output: numerics. Which bytes are read, in which order, with which scales, is modelled.
* The earlier versions of the GEMM kernels in `patches/routeb-archive-2026-08-21/` (the
  ping-pong one, its probe and its pipelines): the deployed version is modelled.
* `crash_dump.sh` only reads; the worker role of the health scripts does not act in
  another way than the head role and keeps no state of its own; the older
  `healthcheck.sh` is superseded.
* Headers, URLs, warm-up, log texts, environment of the containers, diagnosis.
* The NVFP4 vLLM plug-in (a prefill branch and a KV write-back on tensors), the
  predecessor `plugin_a1` of the W4A4 plug-in, and the one-shot FP8 conversion of the
  LM head: tensor programs without a protocol, or superseded.
* The older Triton and CUDA kernels: numerics on a GPU. Benchmarks, recorded data, quality gates, overlays:
  sequential programs that keep nothing. Superseded `.bak` scripts and documents.
* systemd's limits on restarts: the units are not in the repository, and restarts are
  unlimited in the model.

## 11. Plan

1. *Done*: gateway with its abstraction and proofs; self-recovery; RoCE checks and
   cluster start with the life of several runs; the GEMM kernels with their abstraction
   and the proof of the order barrier; the MoE plug-ins with the engine around them.
2. `Watchdog`: counters in files across container rebuilds (state: last counts,
   `started_at`, the container's own count; actions: sample, rebuild, errors, reboot).
   To check: a burst in the present container is noticed; the loading phase applies
   to each start.
3. `ClusterOperation`: `ClusterStart` composed with `SelfRecovery` - the cluster
   script removes rank 0 while the monitor follows it, and both start containers.
4. `RingTransport`: which transport each pair of ranks gets under the ring-only patch.
5. Proofs: an abstract start ("nothing runs until all passed, then head, then workers") that `ClusterStart`
   implements; a recovery specification that `SelfRecovery` implements up to liveness.
