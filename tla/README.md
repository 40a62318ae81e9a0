# TLA+ models of the astate RDMA transport engine

This directory models `RDMATransporter`
(`src/src/transport/rdma_transporter.cpp`, declared in `src/unnamed/part_003`).
It is the point-to-point RDMA transfer engine of astate. It runs on top of the
utrans backend: `utrans_setup`, `utrans_setup_rpcsrv`, `utrans_exec_transfer`,
`utrans_regist_*` and `utrans_clean`.

## 1. Inventory

### Components and their state

| Component | Code | State kept | Operations |
|---|---|---|---|
| Lifecycle | `Start` 238-267, `Stop` 269-297, `~RDMATransporter` 605-612 | `ctx_`, `is_running_`, `close_mutex_`, `local_server_port_` | Start, Stop (from any thread), destructor |
| RPC bring-up | `SetupRpcServer` 119-138, `SetupRpcServerWithRetry` 153-209 | `rpc_listen_port` of the utrans config, `local_server_port_`, the lambda's `attempt_count` | fixed port, or a scan from `51010 + rand[0,1000]` under `CountingRetry(kBindPortMaxRetry)` |
| Perf sampler thread | `InitializePerfMetricsThread` 140-151, `PerfMetricsLoggingThread` 580-603 | `perf_logging_thread_running_`, `perf_logging_thread_`, `perf_stats_interval_ms_` | loop, sleep, check the activity window, `utrans_print_perf_info(ctx_)` |
| Data plane | `Send` 299-404, `Receive` 406-527 | `last_send_receive_time_`; per call, the retry counter and the op handle | query inst id, exec transfer, read the result, unref the handle, retry with sleep |
| Memory registration | `RegisterMemory` 549-568, `DeregisterMemory` 570-578 | backend registrations (per utrans context) | register RAM or VRAM, deregister |
| Device selection / NUMA | `SelectRdmaDevices`, `NumaNodeOfInfiniband`, `InitializeRdmaConfig` 29-108 | `nic_nodes_`, `rdma_numa_node_` | pick NICs by GPU or by rank, bind NUMA |
| Backend selection | `src/src/common/rdma_type.h`, `src/cmake/dependencies.cmake` 461-490 | build-time | UTRANS or UCX |
| Scripts, Docker, docs | `src/unnamed/part_000..002`, `src/README.md`, `src/python/...` | none | none |

### How the components interact

- Start runs on the owner thread. It sets up `ctx_`, binds the RPC server, starts the perf thread and sets `is_running_`.
- The perf thread shares `ctx_`, `last_send_receive_time_` and its run flag with the other threads. It reads all three without a lock.
- Send, Receive and the memory calls run on any caller thread. They use `ctx_` without a lock and write `last_send_receive_time_`.
- Stop may be called by several threads at once, including the destructor. It is a double-checked `is_running_` around `close_mutex_`. It clears the perf flag and joins the perf thread. It never cleans `ctx_`; only the destructor does that.

### What is hard

- Concurrent Stops, and the join that has to wait for the sampler to finish its sleep.
- Teardown order: the perf thread must be joined before `utrans_clean`.
- Callers racing on `last_send_receive_time_`.
- Retries: every failure must be counted, and every op handle must be released.
- The bounded port scan.
- Re-Start after a failure.
- The relation between `ctx_` and `is_running_` after a failed Start or after Stop.

### Properties that make each component correct

- Lifecycle:
  - the perf thread never uses a cleaned context;
  - the destructor never leaves a joinable thread;
  - the perf thread is joined exactly once;
  - Stop returns;
  - no sampling happens after Stop;
  - at most one live utrans context exists.
- RPC bring-up: the port it reports is the one it listens on, and a scan stays within its window.
- Data plane:
  - every call returns;
  - op handles are released;
  - argument errors return false;
  - no transfer is submitted when the engine is not running;
  - the activity timestamp is monotonic.
- Memory registration: no property. The engine only checks `ctx_` for null, throws on a null registration and passes `utrans_dereg_mem`'s answer through; what is registered is the backend's business, so a registry property would restate the model's assumption about utrans.

`PROJECT.json` lists every hazard at its source line.

## 2. Modules

- `RdmaTransporter.tla` models the engine.
  - The owner thread (Start, its explicit Stop and the destructor) runs one step per statement that matters: `StartSetup`, `SetupRpcServerFixed` or `SetupRpcServerWithRetry`, `StartFinish`, `Destroy` and `DestroyClean`.
  - `Stop(s)` is a per-thread program counter `stop_pc[s]` over `Stoppers \cup {Owner}`. There is one action per statement of `Stop()`: `StopCheck`, `StopLock`, `StopRecheck`, `StopReadFlag`, `StopClearFlag`, `StopJoinable`, `StopJoin` and `StopFinish`.
  - The perf thread is `perf_pc`, with `PerfLoop`, `PerfWake`, `PerfCheck`, `PerfNullCheck` and `PerfPrint`.
  - The wall clock is `now`, advanced by `Tick` in `TickMs` steps up to `MaxTimeMs`.
  - Each caller thread `t` has `tpc[t]`. Its actions are `TransferCall` (entry checks and clock read), `TransferStamp`, `TransferQuery`, `TransferExec`, `TransferComplete`, `TransferFailed` (the retry runner) and `TransferSleep`, plus `AsyncTransfer` (AsyncSend/AsyncReceive, which always throw "Not implemented"), `RegisterMemory` and `DeregisterMemory`.
  - Data is abstracted:
    - buffers and addresses become one "arguments valid" choice, except the buffer length: `Sizes` are size_t values written as `<<high, low>>` 32-bit words, because TLC integers are 32-bit. `SegmentLength` keeps the low word, which is what `static_cast<uint32_t>` does;
    - utrans contexts are the numbers `1..MaxStarts`, each in the state unused, live or cleaned;
    - every backend call answers success or failure nondeterministically.
  - Mutant operators, commented `Mutant:`, sit directly before the definition they replace.
  - Two environment switches: `StartWhileRunning` lets the owner call Start on a running engine. `WriteTimeoutMs`/`ReadTimeoutMs` are the timeouts of Start's options. `InitializeFromOptions` copies them into `write_timeout_ms`/`read_timeout_ms`, which start at the members' default of -1. They decide whether `utrans_exec_transfer` is guaranteed to return.
- `MC_RdmaTransporter.tla` instantiates the spec for TLC. It fixes the random port offsets to `{0, 1000}`, the two ends of the real range. Buffer sizes are 4 KiB (`MC_Sizes`), or 4 KiB and exactly 4 GiB (`MC_LargeSizes`).
- `TransportLifecycle.tla` is the abstract lifecycle of spec 4.8.
  - State: `Idle`, `Starting`, `Running`, `Stopping`, `Destroyed`, plus whether the sampler is alive and whether the destructor has begun.
  - Actions: `BeginStart`, `StartFailed`, `StartDone`, `BeginStop`, `SamplerExit`, `EndStop`, `RequestDestroy`, `Release`.
  - Weak fairness on `SamplerExit` and `EndStop`: a Stop that has begun completes.
  - `RdmaTransporter` defines the refinement mapping `LifecycleState`:
    - `Stopping` from the step where a Stop passes its locked recheck until `is_running_ = false`;
    - `Starting` between `utrans_setup` and the end of Start;
    - the sampler is alive from the thread assignment until its loop exits.
  - `LifecycleRefinement == Lifecycle!Spec` is checked as a PROPERTY.
- `DeviceSelection.tla` models `InitializeRdmaConfig`, `SelectRdmaDevices` and `NumaNodeOfInfiniband` (cpp 29-108, 211-236), plus the node `RegisterMemory` passes to `utrans_regist_ram`.
  - The machine is chosen in `Init`: every content of each NIC's `numa_node` file, including -1.
  - Each Start nondeterministically picks the CUDA answer and whether the topology singleton initialises.
  - `GpuTopologyManager` is not in src/, so its by-GPU and by-rank answers are constant tables (spec 4.1). Uninitialised, it may also answer nothing.
  - `numa_bitmask_setbit` is modelled by what it does with an out-of-range node: no bit is set.
  - `MC_DeviceSelection.tla` has two NICs on two NUMA nodes, two GPUs and `MaxRdmaDevices = 1`.
- `BuildConfig.tla` models the CMake backend branch (`dependencies.cmake` 461-488) and `rdma_type.h`, one step each. `USE_ASTATE_RDMA_IMPL` is chosen in `Init`.

## 3. Runs

| Run | cfg | Expect | Shows |
|---|---|---|---|
| lifecycle | MC_Lifecycle.cfg | pass | Scan-mode Start, sampler, Stop from the owner and one more thread, destructor, one caller. Checks `PerfNeverOutlivesContext`, `NoSamplingAfterStop`, `SingleJoiner`, `RpcPortWithinWindow`, `StopReturns` and `LifecycleRefinement`. |
| transfer | MC_Transfer.cfg | pass | Fixed port, two concurrent callers making two calls each, Send retry 2, Receive retry 1 (406,715 states, about 1.5 min). Checks `OpHandlesReleased`, `TransfersReturn` and `RetryBudgetRespected`: a failing call makes exactly retry_count + 1 attempts, and a succeeding one at most retry_count failures. The second call of a thread shows that the counter is reset per call. The type invariant and the port window are checked once, on the lifecycle run, where the scan gives the window content. |
| activity_race | MC_ActivityRace.cfg | violation | `LastActivityMonotonic`: t1 reads the clock, time passes, t2 reads and stores, then t1 stores the older value. |
| transfer_after_stop | MC_TransferAfterStop.cfg | violation | `TransferOnlyWhileRunning`: a fixed-port bind fails and Start returns false with `ctx_` set, yet a Send reaches `utrans_exec_transfer`. The same happens after Stop. |
| arg_error | MC_ArgError.cfg | violation | `ArgumentErrorReturnsFalse`: invalid arguments, or Receive before Start, throw `std::invalid_argument`. |
| restart | MC_Restart.cfg | violation | `NoLeakedContext`: a second Start after a failed one overwrites `ctx_`, so the first context stays live and is never cleaned. |
| start_while_running | MC_StartWhileRunning.cfg | violation | `PerfThreadAssignedOnlyWhenJoined`: Start on a running engine assigns a new `std::thread` over the joinable sampler, which means std::terminate. |
| devices | MC_Devices.cfg | pass | 537 states: two Starts over every sysfs content, CUDA answer and topology outcome. `NicNodesDescribeDevicePattern`: the devices given to utrans and the NIC/NUMA pairs (and `rdma_numa_node_`) stay in step across Starts. |
| stale_numa | MC_StaleNuma.cfg | violation | `RamRegisteredOnCurrentNic`: a re-Start that selects no NIC keeps the old node, and RAM is registered on it. |
| topology_fallback | MC_TopologyFallback.cfg | violation | `SelectionFallsBackToRank`: a failed topology init still selects by GPU. |
| backend_mismatch | MC_BackendMismatch.cfg | violation | `BackendLinked`: with `USE_ASTATE_RDMA_IMPL` off, the libutrans headers are compiled but only `UCX::ucx` is linked. |
| size_truncation | MC_SizeTruncation.cfg | violation | `RequestCoversBuffer`: a Send of exactly 4 GiB passes the zero-size check and goes to `utrans_exec_transfer` with a segment length of 0. |

Every property of a passing run has a mutant in `PROJECT.json`: a plausible bug in the mapped code that TLC finds. Examples are the join dropped from Stop, the mutex dropped, the scan guard dropped, a missing unref, an uncounted retry and a seconds/milliseconds cast.

### Bounds and why they are enough

- `kBindPortMaxRetry = 2` gives a window of two ports plus the runner's extra call that hits the guard. Both ends of the random offset range are included.
- `TickMs = PerfStatsIntervalMs = 500` and a clock span of 1000-1500 ms. This lets the sampler run one or two rounds, puts a transfer inside and outside the 1000 ms activity window, and lets Stop meet a sleeping sampler.
- One Stop thread besides the owner is enough for the double-checked lock race.
- Two callers are enough for the timestamp race and for concurrent retries.
- `MaxCalls = 2` per caller in the transfer run, so that a call follows a failed one. `MaxCalls = 1` elsewhere. `MaxStarts = 1`, or 2 for the restart runs. A second Start in the lifecycle run would multiply its 1m47s run by about 10.
- One size that fits in 32 bits in the passing runs. The 4 GiB size is the boundary where the truncation first shows.

### Fairness

- Weak fairness is assumed for each started Stop call, each in-flight transfer, the perf thread and the clock. The OS schedules runnable threads, and time passes.
- Backend calls are assumed to return, except `utrans_exec_transfer` with a -1 timeout. The fairness is on `TransferProgress(t)`, which excludes the exec step when that call's timeout is -1 ("wait forever", spec 4.4). The transfer run uses 5000 ms timeouts, so `TransfersReturn` is a claim about finite timeouts only.
- Callers are never forced to call anything.

## 4. Findings

Details are in `PROJECT.json`.

1. `last_send_receive_time_` is not monotonic: a read-then-store race between callers (cpp:323, 430).
2. Send, Receive and RegisterMemory check `ctx_`, not `is_running_`. Work is accepted after a failed Start or after Stop (cpp:305, 412, 550).
3. Argument errors throw instead of returning false (cpp:311, 317, 414-423).
4. Start is not guarded against a second call, and the earlier utrans context leaks (cpp:111, 249).
5. Start on a running engine assigns `perf_logging_thread_` over a joinable thread: std::terminate (cpp:148).
6. Stop never releases the context; only the destructor does, although the spec says Stop does (cpp:296). Finding 2's run shows the consequence.
7. An unreadable NIC `numa_node` (-1) leads to an empty membind mask. The spec does not say what to do, so no run checks it; the devices run reaches it (cpp:91).
8. A re-Start with an empty selection keeps a stale `rdma_numa_node_`, and RAM is then registered on the old node (cpp:74, 559).
9. A failed topology-manager init does not fall back to rank-based selection (cpp:227).
10. `dependencies.cmake` overwrites the backend deps with UCX, so with `USE_ASTATE_RDMA_IMPL` off the build links the wrong library (line 484).
11. The transfer length is cast to `uint32_t`. A buffer of 4 GiB or more is submitted truncated, and exactly 4 GiB becomes a 0-byte transfer (cpp:343, 451).

## 5. Not modelled, and the plan

Done so far: RdmaTransporter, TransportLifecycle with the refinement, DeviceSelection and BuildConfig.

Order of work for later sittings:

1. Done: the retry budget (spec 8.6) is `RetryBudgetRespected`. The NonRetryable path cannot happen, because no code in src/ throws `NonRetryableException`.
2. Dropped: a memory-registration refinement. It held only because the model's utrans backend is itself the abstract registry; the engine code adds nothing to check.
3. Larger instances of the lifecycle run (two extra stoppers, MaxStarts 2 with StartWhileRunning off) if the state space allows.

Left out for good:

- Logging configuration, and the hostname and meta address of `InitializeFromOptions`, keep no state that any property tells apart.
- `options_` is never assigned (part_003:140). What Send/Receive read from it depends on `GetOptionValue`, which is outside src/, so the retry counts are constants.
- Scripts, Docker and docs have no runtime state.
- The `valid_dev_patt` buffer allocated with `new[]` on each Start (cpp:100) is handed to `utrans_setup`. Its ownership is decided in code outside src/.
- The transport structs of part_004 are abstracted into the argument choice. Their `TransferTensorMeta` helpers (`AddTensorRDMAInfo`, `EmplaceTensorRDMAInfo` and the readers) have no caller anywhere in src/, so no behaviour of the engine involves them. Whether `EmplaceTensorRDMAInfo`'s default null `atensor` is ever dereferenced depends on callers that do not exist in this repository.
