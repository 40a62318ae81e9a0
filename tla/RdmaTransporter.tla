--------------------------- MODULE RdmaTransporter ---------------------------
(***************************************************************************)
(* The RDMA transport engine RDMATransporter                               *)
(* (src/src/transport/rdma_transporter.cpp, class declared in              *)
(* src/unnamed/part_003).                                                  *)
(*                                                                         *)
(* Actors:                                                                 *)
(*   Owner     the thread that starts the engine and destroys it; its      *)
(*             phase follows Start(), Stop() and ~RDMATransporter().       *)
(*   Stoppers  other threads that may call Stop() concurrently.            *)
(*   Threads   data-plane threads calling Send, Receive, RegisterMemory    *)
(*             and DeregisterMemory.                                       *)
(*   the perf thread PerfMetricsLoggingThread, started by Start().         *)
(*                                                                         *)
(* The utrans backend is the environment: its calls succeed or fail        *)
(* nondeterministically.  RetryUtils::Retry and its policies are not in    *)
(* src/ and are modelled from the spec (ShouldRetry).                      *)
(***************************************************************************)
EXTENDS Integers, FiniteSets

CONSTANTS
    Owner,              \* thread owning the engine object
    Stoppers,           \* further threads that call Stop()
    Threads,            \* data-plane caller threads
    Regions,            \* {addr,len} buffers the callers register
    NULL,
    FixedPort,          \* TRANSFER_ENGINE_SERVICE_FIXED_PORT
    LocalPort,          \* TRANSFER_ENGINE_LOCAL_PORT
    kRdmaPortStart,     \* 51010
    kBindPortMaxRetry,  \* port-scan window length
    RandomOffsets,      \* values of dis(gen) in [0,1000] explored
    EnablePerfMetrics,  \* TRANSFER_ENGINE_ENABLE_PERF_METRICS
    PerfStatsIntervalMs,\* TRANSFER_ENGINE_PERF_STATS_INTERVAL_MS
    SendRetryCount,     \* TRANSPORT_SEND_RETRY_COUNT
    ReceiveRetryCount,  \* TRANSPORT_RECEIVE_RETRY_COUNT
    WriteTimeoutMs,     \* TRANSFER_ENGINE_WRITE_TIMEOUT_MS, -1 = wait forever
    ReadTimeoutMs,      \* TRANSFER_ENGINE_READ_TIMEOUT_MS, -1 = wait forever
    StartWhileRunning,  \* the owner may call Start() on a running engine
    Sizes,              \* send_size / recv_size values (size_t, non-zero) as
                        \* <<high 32 bits, low 32 bits>>
    MaxStarts,          \* bound: calls of Start() by the owner
    MaxCalls,           \* bound: API calls per data-plane thread
    TickMs,             \* granularity of the modelled wall clock
    StartTimeMs,        \* system_clock value when the model starts
    MaxTimeMs           \* bound: the clock is not advanced beyond this

ASSUME /\ Owner \notin Stoppers
       /\ kBindPortMaxRetry \in Nat \ {0}
       /\ RandomOffsets \subseteq 0..1000
       /\ {SendRetryCount, ReceiveRetryCount, MaxStarts, MaxCalls} \subseteq Nat
       /\ {WriteTimeoutMs, ReadTimeoutMs} \subseteq Int
       /\ StartWhileRunning \in BOOLEAN
       /\ Sizes \subseteq (Nat \X Nat) \ {<<0, 0>>}
       /\ StartTimeMs >= 1000 /\ MaxTimeMs >= StartTimeMs /\ TickMs > 0

\* The literal 1000 of PerfMetricsLoggingThread: "activity in the last 1 second".
ActivityWindowMs == 1000

StopProcs == {Owner} \cup Stoppers
Ctxs == 1..MaxStarts          \* utrans contexts, one per utrans_setup call
Ops == {"Send", "Receive"}
AsyncOps == {"AsyncSend", "AsyncReceive"}

VARIABLES
    phase,                  \* the owner: where Start / Stop / ~RDMATransporter is
    starts,                 \* utrans_setup calls so far
    ctx,                    \* ctx_
    ctx_state,              \* per context: "unused", "live" or "cleaned"
    write_timeout_ms,       \* write_timeout_ms_
    read_timeout_ms,        \* read_timeout_ms_
    is_running,             \* is_running_
    close_mutex,            \* holder of close_mutex_, or NULL
    stop_pc,                \* per StopProcs: position in Stop()
    perf_logging_thread_running,
    perf_pc,                \* the perf thread: "none" before it exists, "joined" after
    wake_at,                \* perf thread: end of its current sleep
    rpc_listen_port,        \* utrans_get_conf(ctx_)->rpc_listen_port
    local_server_port,      \* local_server_port_
    bind_base,              \* SetupRpcServerWithRetry: base_port
    bind_attempt,           \* SetupRpcServerWithRetry: attempt_count
    bind_calls,             \* invocations of setup_func by the retry runner
    now,                    \* std::chrono::system_clock, in ms
    last_send_receive_time, \* last_send_receive_time_
    tpc,                    \* per thread: position in Send / Receive
    t_op,                   \* per thread: "Send" or "Receive"
    t_now,                  \* per thread: the local `now` of Send / Receive
    t_size,                 \* per thread: send_size / recv_size of the current call
    t_fail,                 \* per thread: failed attempts of the current call
    op_held,                \* per thread: holds an unreleased utrans_req_info_t
    t_result,               \* per thread: outcome of its last call
    calls,                  \* per thread: API calls made
    mrs                     \* per context: regions registered in the backend

setup_vars == <<starts, ctx, ctx_state, write_timeout_ms, read_timeout_ms>>
owner_vars == <<phase, setup_vars, is_running>>
stop_vars == <<close_mutex, stop_pc>>
perf_vars == <<perf_logging_thread_running, perf_pc, wake_at>>
bind_vars == <<rpc_listen_port, local_server_port, bind_base, bind_attempt, bind_calls>>
time_vars == <<now, last_send_receive_time>>
thread_vars == <<tpc, t_op, t_now, t_size, t_fail, op_held, t_result, calls>>
mem_vars == <<mrs>>
vars == <<owner_vars, stop_vars, perf_vars, bind_vars, time_vars, thread_vars, mem_vars>>

Phases == {"idle", "binding", "perf", "started", "failed", "stopping", "stopped",
           "destroying", "destroyed"}
StopPcs == {"idle", "check", "lock", "recheck", "readflag", "clearflag",
            "joinable", "join", "finish", "done"}
PerfPcs == {"none", "loop", "sleep", "check", "nullcheck", "print", "exited", "joined"}
TPcs == {"idle", "stamp", "query", "exec", "complete", "failed", "sleep"}
Results == {"none", "true", "false", "throw"}

(***************************************************************************)
(* RetryUtils::Retry with CountingRetry(N) or CountingAndSleepRetryPolicy   *)
(* (N, S): after the n-th failed attempt the runner tries again iff n <= N *)
(* ("allow up to N retries"), so at most N + 1 attempts are made.          *)
(***************************************************************************)
\* Mutant: the runner stops one attempt early.
ShouldRetryOffByOne(n, failures) == failures < n

ShouldRetry(n, failures) == failures <= n

RetryCount(op) == IF op = "Send" THEN SendRetryCount ELSE ReceiveRetryCount

\* trans_conf_t{4, 1 MiB, write_timeout_ms_ | read_timeout_ms_}: -1 makes
\* utrans_exec_transfer wait forever.
TimeoutFinite(op) == (IF op = "Send" THEN write_timeout_ms ELSE read_timeout_ms) # -1

\* std::thread::joinable() of perf_logging_thread_
Joinable == perf_pc \in {"loop", "sleep", "check", "nullcheck", "print", "exited"}

SamplerAlive == perf_pc \in {"loop", "sleep", "check", "nullcheck", "print"}

Init ==
    /\ phase = "idle"
    /\ starts = 0
    /\ ctx = NULL
    /\ ctx_state = [c \in Ctxs |-> "unused"]
    /\ write_timeout_ms = -1
    /\ read_timeout_ms = -1
    /\ is_running = FALSE
    /\ close_mutex = NULL
    /\ stop_pc = [s \in StopProcs |-> "idle"]
    /\ perf_logging_thread_running = FALSE
    /\ perf_pc = "none"
    /\ wake_at = 0
    /\ rpc_listen_port = 0
    /\ local_server_port = 0
    /\ bind_base = 0
    /\ bind_attempt = 0
    /\ bind_calls = 0
    /\ now = StartTimeMs
    /\ last_send_receive_time = 0
    /\ tpc = [t \in Threads |-> "idle"]
    /\ t_op = [t \in Threads |-> "Send"]
    /\ t_now = [t \in Threads |-> 0]
    /\ t_size = [t \in Threads |-> <<0, 0>>]
    /\ t_fail = [t \in Threads |-> 0]
    /\ op_held = [t \in Threads |-> FALSE]
    /\ t_result = [t \in Threads |-> "none"]
    /\ calls = [t \in Threads |-> 0]
    /\ mrs = [c \in Ctxs |-> {}]

NoTransferInFlight == \A t \in Threads : tpc[t] = "idle"
OtherStoppersIdle == \A s \in Stoppers : stop_pc[s] \in {"idle", "done"}

-----------------------------------------------------------------------------
(***************************************************************************)
(* SetupUtransContext: utrans_setup hands out a fresh context, or fails    *)
(* and Start() returns false.                                              *)
(***************************************************************************)
SetupUtransContext ==
    \/ /\ ctx' = starts + 1
       /\ ctx_state' = [ctx_state EXCEPT ![starts + 1] = "live"]
       /\ phase' = "binding"
    \/ /\ phase' = "failed"
       /\ UNCHANGED <<ctx, ctx_state>>

\* InitializeFromOptions: the two timeouts are taken from Start()'s options;
\* the hostname and meta address it also reads are not modelled.
InitializeFromOptions ==
    /\ write_timeout_ms' = WriteTimeoutMs
    /\ read_timeout_ms' = ReadTimeoutMs

\* Entry of SetupRpcServerWithRetry: base_port = kRdmaPortStart + dis(gen),
\* attempt_count = 0.  Fixed-port mode does not get here.
DrawBasePort ==
    /\ IF FixedPort
          THEN UNCHANGED bind_base
          ELSE \E r \in RandomOffsets : bind_base' = kRdmaPortStart + r
    /\ bind_attempt' = 0
    /\ bind_calls' = 0

\* Start(): InitializeFromOptions; InitializeLoggingConfig and
\* InitializeRdmaConfig keep no state the properties here tell apart (device
\* selection and NUMA binding are DeviceSelection.tla); then SetupUtransContext.
\* Start has no guard against being called again: ctx_ is overwritten.
StartSetup ==
    /\ \/ phase \in {"idle", "failed", "stopped"}
       \/ StartWhileRunning /\ phase = "started"
    /\ starts < MaxStarts
    /\ starts' = starts + 1
    /\ InitializeFromOptions
    /\ SetupUtransContext
    /\ DrawBasePort
    /\ UNCHANGED <<is_running, stop_vars, perf_vars, rpc_listen_port, local_server_port,
                   time_vars, thread_vars, mem_vars>>

\* SetupRpcServer, fixed_port: one utrans_setup_rpcsrv on the configured port.
SetupRpcServerFixed ==
    /\ phase = "binding"
    /\ FixedPort
    /\ rpc_listen_port' = LocalPort
    /\ \/ /\ local_server_port' = LocalPort
          /\ phase' = "perf"
       \/ /\ phase' = "failed"
          /\ UNCHANGED local_server_port
    /\ UNCHANGED <<setup_vars, is_running, stop_vars, perf_vars,
                   bind_base, bind_attempt, bind_calls, time_vars, thread_vars, mem_vars>>

\* The runner's reaction to an exception of the n-th invocation of setup_func.
BindFailed(n) == phase' = IF ShouldRetry(kBindPortMaxRetry, n) THEN "binding" ELSE "failed"

\* Mutant: setup_func without its `attempt_count >= kBindPortMaxRetry` guard.
SetupRpcServerWithRetryNoGuard ==
    /\ phase = "binding"
    /\ ~FixedPort
    /\ bind_calls' = bind_calls + 1
    /\ rpc_listen_port' = bind_base + bind_attempt
    /\ \/ /\ local_server_port' = bind_base + bind_attempt
          /\ phase' = "perf"
          /\ UNCHANGED bind_attempt
       \/ /\ bind_attempt' = bind_attempt + 1
          /\ BindFailed(bind_calls + 1)
          /\ UNCHANGED local_server_port
    /\ UNCHANGED <<setup_vars, is_running, stop_vars, perf_vars, bind_base,
                   time_vars, thread_vars, mem_vars>>

(***************************************************************************)
(* One invocation of setup_func inside RetryUtils::Retry("RPC server        *)
(* setup", setup_func, CountingRetry(kBindPortMaxRetry)).  It throws at    *)
(* once when attempt_count has reached kBindPortMaxRetry; otherwise it     *)
(* sets rpc_listen_port to base_port + attempt_count and calls             *)
(* utrans_setup_rpcsrv, recording the port on success and counting the     *)
(* attempt and throwing on failure.                                        *)
(***************************************************************************)
SetupRpcServerWithRetry ==
    /\ phase = "binding"
    /\ ~FixedPort
    /\ bind_calls' = bind_calls + 1
    /\ \/ /\ bind_attempt >= kBindPortMaxRetry
          /\ BindFailed(bind_calls + 1)
          /\ UNCHANGED <<rpc_listen_port, local_server_port, bind_attempt>>
       \/ /\ bind_attempt < kBindPortMaxRetry
          /\ rpc_listen_port' = bind_base + bind_attempt
          /\ \/ /\ local_server_port' = bind_base + bind_attempt
                /\ phase' = "perf"
                /\ UNCHANGED bind_attempt
             \/ /\ bind_attempt' = bind_attempt + 1
                /\ BindFailed(bind_calls + 1)
                /\ UNCHANGED local_server_port
    /\ UNCHANGED <<setup_vars, is_running, stop_vars, perf_vars, bind_base,
                   time_vars, thread_vars, mem_vars>>

\* InitializePerfMetricsThread: the perf thread is started iff perf metrics
\* are enabled and ctx_ is set.
InitializePerfMetricsThread ==
    IF EnablePerfMetrics /\ ctx # NULL
       THEN /\ perf_logging_thread_running' = TRUE
            /\ perf_pc' = "loop"
       ELSE UNCHANGED <<perf_logging_thread_running, perf_pc>>

\* End of Start(): InitializePerfMetricsThread, is_running_ = true, the
\* 1000 ms warm-up sleep, return true.
StartFinish ==
    /\ phase = "perf"
    /\ InitializePerfMetricsThread
    /\ is_running' = TRUE
    /\ phase' = "started"
    /\ UNCHANGED <<setup_vars, stop_vars, wake_at, bind_vars, time_vars,
                   thread_vars, mem_vars>>

\* The owner calls Stop() explicitly, once no transfer is in flight.
OwnerStop ==
    /\ phase = "started"
    /\ NoTransferInFlight
    /\ phase' = "stopping"
    /\ stop_pc' = [stop_pc EXCEPT ![Owner] = "check"]
    /\ UNCHANGED <<setup_vars, is_running, close_mutex, perf_vars, bind_vars,
                   time_vars, thread_vars, mem_vars>>

OwnerStopReturned ==
    /\ phase = "stopping"
    /\ stop_pc[Owner] = "done"
    /\ phase' = "stopped"
    /\ stop_pc' = [stop_pc EXCEPT ![Owner] = "idle"]
    /\ UNCHANGED <<setup_vars, is_running, close_mutex, perf_vars, bind_vars,
                   time_vars, thread_vars, mem_vars>>

\* Mutant: the destructor releases the context without calling Stop().
DestroyNoStop ==
    /\ phase \in {"idle", "started", "failed", "stopped"}
    /\ NoTransferInFlight
    /\ phase' = "destroying"
    /\ stop_pc' = [stop_pc EXCEPT ![Owner] = "done"]
    /\ UNCHANGED <<setup_vars, is_running, close_mutex, perf_vars, bind_vars,
                   time_vars, thread_vars, mem_vars>>

\* ~RDMATransporter() begins: it first calls Stop().
Destroy ==
    /\ phase \in {"idle", "started", "failed", "stopped"}
    /\ NoTransferInFlight
    /\ phase' = "destroying"
    /\ stop_pc' = [stop_pc EXCEPT ![Owner] = "check"]
    /\ UNCHANGED <<setup_vars, is_running, close_mutex, perf_vars, bind_vars,
                   time_vars, thread_vars, mem_vars>>

\* ~RDMATransporter() after Stop(): utrans_clean(ctx_) if set, ctx_ = nullptr.
DestroyClean ==
    /\ phase = "destroying"
    /\ stop_pc[Owner] = "done"
    /\ OtherStoppersIdle
    /\ ctx_state' = IF ctx # NULL THEN [ctx_state EXCEPT ![ctx] = "cleaned"] ELSE ctx_state
    /\ ctx' = NULL
    /\ phase' = "destroyed"
    /\ UNCHANGED <<starts, write_timeout_ms, read_timeout_ms, is_running, stop_vars,
                   perf_vars, bind_vars, time_vars,
                   thread_vars, mem_vars>>

-----------------------------------------------------------------------------
(***************************************************************************)
(* Stop(), one statement per step, for each thread s that calls it.        *)
(***************************************************************************)
StopGoto(s, from, to) ==
    /\ stop_pc[s] = from
    /\ stop_pc' = [stop_pc EXCEPT ![s] = to]

\* A thread other than the owner calls Stop() on the engine Start() has
\* returned, never while a transfer is in flight (the caller's obligation).
StopCall(s) ==
    /\ s \in Stoppers
    /\ phase \in {"started", "failed", "stopping", "stopped", "destroying"}
    /\ NoTransferInFlight
    /\ StopGoto(s, "idle", "check")
    /\ UNCHANGED <<owner_vars, close_mutex, perf_vars, bind_vars, time_vars,
                   thread_vars, mem_vars>>

\* if (!is_running_) return;
StopCheck(s) ==
    /\ StopGoto(s, "check", IF is_running THEN "lock" ELSE "done")
    /\ UNCHANGED <<owner_vars, close_mutex, perf_vars, bind_vars, time_vars,
                   thread_vars, mem_vars>>

\* Mutant: Stop() without close_mutex_.
StopLockNoMutex(s) ==
    /\ StopGoto(s, "lock", "recheck")
    /\ UNCHANGED <<owner_vars, close_mutex, perf_vars, bind_vars, time_vars, thread_vars,
                   mem_vars>>

\* std::lock_guard<std::mutex> lock_close(close_mutex_);
StopLock(s) ==
    /\ close_mutex = NULL
    /\ close_mutex' = s
    /\ StopGoto(s, "lock", "recheck")
    /\ UNCHANGED <<owner_vars, perf_vars, bind_vars, time_vars, thread_vars, mem_vars>>

\* Mutant: is_running_ = false moved up, before the perf thread is stopped.
StopRecheckClearEarly(s) ==
    /\ StopGoto(s, "recheck", IF is_running THEN "readflag" ELSE "done")
    /\ close_mutex' = IF is_running THEN close_mutex ELSE NULL
    /\ is_running' = FALSE
    /\ UNCHANGED <<phase, setup_vars, perf_vars, bind_vars, time_vars,
                   thread_vars, mem_vars>>

\* if (!is_running_) return;  -- the lock_guard releases the mutex
StopRecheck(s) ==
    /\ StopGoto(s, "recheck", IF is_running THEN "readflag" ELSE "done")
    /\ close_mutex' = IF is_running THEN close_mutex ELSE NULL
    /\ UNCHANGED <<owner_vars, perf_vars, bind_vars, time_vars, thread_vars, mem_vars>>

\* if (perf_logging_thread_running_) {
StopReadFlag(s) ==
    /\ StopGoto(s, "readflag", IF perf_logging_thread_running THEN "clearflag" ELSE "finish")
    /\ UNCHANGED <<owner_vars, close_mutex, perf_vars, bind_vars, time_vars,
                   thread_vars, mem_vars>>

\*     perf_logging_thread_running_ = false;
StopClearFlag(s) ==
    /\ StopGoto(s, "clearflag", "joinable")
    /\ perf_logging_thread_running' = FALSE
    /\ UNCHANGED <<owner_vars, close_mutex, perf_pc, wake_at, bind_vars, time_vars,
                   thread_vars, mem_vars>>

\* Mutant: Stop() clears the flag but never joins the perf thread.
StopJoinableSkipJoin(s) ==
    /\ StopGoto(s, "joinable", "finish")
    /\ UNCHANGED <<owner_vars, close_mutex, perf_vars, bind_vars, time_vars,
                   thread_vars, mem_vars>>

\*     if (perf_logging_thread_.joinable()) {
StopJoinable(s) ==
    /\ StopGoto(s, "joinable", IF Joinable THEN "join" ELSE "finish")
    /\ UNCHANGED <<owner_vars, close_mutex, perf_vars, bind_vars, time_vars,
                   thread_vars, mem_vars>>

\*         perf_logging_thread_.join();  -- blocks until the perf thread has exited
StopJoin(s) ==
    /\ perf_pc = "exited"
    /\ perf_pc' = "joined"
    /\ StopGoto(s, "join", "finish")
    /\ UNCHANGED <<owner_vars, close_mutex, perf_logging_thread_running, wake_at,
                   bind_vars, time_vars, thread_vars, mem_vars>>

\* is_running_ = false;  return  -- the lock_guard releases the mutex
StopFinish(s) ==
    /\ StopGoto(s, "finish", "done")
    /\ is_running' = FALSE
    /\ close_mutex' = NULL
    /\ UNCHANGED <<phase, setup_vars, perf_vars, bind_vars, time_vars,
                   thread_vars, mem_vars>>

Stop(s) ==
    \/ StopCall(s) \/ StopCheck(s) \/ StopLock(s) \/ StopRecheck(s) \/ StopReadFlag(s)
    \/ StopClearFlag(s) \/ StopJoinable(s) \/ StopJoin(s) \/ StopFinish(s)

-----------------------------------------------------------------------------
(***************************************************************************)
(* PerfMetricsLoggingThread.                                               *)
(***************************************************************************)
PerfGoto(from, to) ==
    /\ perf_pc = from
    /\ perf_pc' = to

\* Mutant: the sampler loops forever, `while (true)`.
PerfLoopIgnoringFlag ==
    /\ PerfGoto("loop", "sleep")
    /\ wake_at' = now + PerfStatsIntervalMs
    /\ UNCHANGED <<owner_vars, stop_vars, perf_logging_thread_running, bind_vars,
                   time_vars, thread_vars, mem_vars>>

\* while (perf_logging_thread_running_) { sleep_for(perf_stats_interval_ms_)
PerfLoop ==
    /\ PerfGoto("loop", IF perf_logging_thread_running THEN "sleep" ELSE "exited")
    /\ wake_at' = now + PerfStatsIntervalMs
    /\ UNCHANGED <<owner_vars, stop_vars, perf_logging_thread_running, bind_vars,
                   time_vars, thread_vars, mem_vars>>

\* The sleep ends once the interval has elapsed (or the clock is at its bound).
PerfWake ==
    /\ now >= wake_at \/ now + TickMs > MaxTimeMs
    /\ PerfGoto("sleep", "check")
    /\ UNCHANGED <<owner_vars, stop_vars, perf_logging_thread_running, wake_at,
                   bind_vars, time_vars, thread_vars, mem_vars>>

\* if (now - last_activity < 1000)
PerfCheck ==
    /\ PerfGoto("check", IF now - last_send_receive_time < ActivityWindowMs
                         THEN "nullcheck" ELSE "loop")
    /\ UNCHANGED <<owner_vars, stop_vars, perf_logging_thread_running, wake_at,
                   bind_vars, time_vars, thread_vars, mem_vars>>

\* if (ctx_ != nullptr)
PerfNullCheck ==
    /\ PerfGoto("nullcheck", IF ctx # NULL THEN "print" ELSE "loop")
    /\ UNCHANGED <<owner_vars, stop_vars, perf_logging_thread_running, wake_at,
                   bind_vars, time_vars, thread_vars, mem_vars>>

\* utrans_print_perf_info(ctx_);
PerfPrint ==
    /\ PerfGoto("print", "loop")
    /\ UNCHANGED <<owner_vars, stop_vars, perf_logging_thread_running, wake_at,
                   bind_vars, time_vars, thread_vars, mem_vars>>

PerfThread == PerfLoop \/ PerfWake \/ PerfCheck \/ PerfNullCheck \/ PerfPrint

\* Wall-clock time passes.
Tick ==
    /\ now + TickMs <= MaxTimeMs
    /\ now' = now + TickMs
    /\ UNCHANGED <<owner_vars, stop_vars, perf_vars, bind_vars, last_send_receive_time,
                   thread_vars, mem_vars>>

-----------------------------------------------------------------------------
(***************************************************************************)
(* Send / Receive.  The two functions differ only in the opcode, the       *)
(* timeout, the retry options they read, and the first early return:      *)
(* with ctx_ == nullptr Send returns false and Receive throws.  The other  *)
(* argument checks (null local_addr, zero size, null remote address from   *)
(* GetRemoteAddrFromExtendInfo) throw std::invalid_argument before the     *)
(* retry block, so it escapes the call.                                    *)
(***************************************************************************)

\* The caller does not call into the engine during Start(), Stop() or destruction.
CallerMayCall(t) ==
    /\ tpc[t] = "idle"
    /\ calls[t] < MaxCalls
    /\ phase \in {"idle", "started", "failed", "stopped"}
    /\ \A s \in StopProcs : stop_pc[s] \in {"idle", "done"}

SetResult(t, r) == t_result' = [t_result EXCEPT ![t] = r]

TGoto(t, from, to) ==
    /\ tpc[t] = from
    /\ tpc' = [tpc EXCEPT ![t] = to]

\* Entry checks, then `now` is read from the clock.
TransferCall(t, op) ==
    /\ CallerMayCall(t)
    /\ calls' = [calls EXCEPT ![t] = @ + 1]
    /\ t_op' = [t_op EXCEPT ![t] = op]
    /\ t_fail' = [t_fail EXCEPT ![t] = 0]
    /\ \E size \in Sizes : t_size' = [t_size EXCEPT ![t] = size]
    /\ \E args_valid \in BOOLEAN :
          \/ /\ ctx = NULL
             /\ SetResult(t, IF op = "Send" THEN "false" ELSE "throw")
             /\ UNCHANGED <<tpc, t_now>>
          \/ /\ ctx # NULL
             /\ ~args_valid
             /\ SetResult(t, "throw")
             /\ UNCHANGED <<tpc, t_now>>
          \/ /\ ctx # NULL
             /\ args_valid
             /\ SetResult(t, "none")
             /\ tpc' = [tpc EXCEPT ![t] = "stamp"]
             /\ t_now' = [t_now EXCEPT ![t] = now]
    /\ UNCHANGED <<owner_vars, stop_vars, perf_vars, bind_vars, time_vars, op_held, mem_vars>>

\* AsyncSend / AsyncReceive: throw std::runtime_error("Not implemented") in
\* any state of the engine.
AsyncTransfer(t, op) ==
    /\ CallerMayCall(t)
    /\ calls' = [calls EXCEPT ![t] = @ + 1]
    /\ t_op' = [t_op EXCEPT ![t] = op]
    /\ SetResult(t, "throw")
    /\ UNCHANGED <<owner_vars, stop_vars, perf_vars, bind_vars, time_vars, tpc, t_now, t_size,
                   t_fail, op_held, mem_vars>>

\* Mutant: the clock read cast to std::chrono::seconds, not milliseconds.
TransferStampSeconds(t) ==
    /\ TGoto(t, "stamp", "query")
    /\ last_send_receive_time' = t_now[t] \div 1000
    /\ t_now' = [t_now EXCEPT ![t] = 0]
    /\ UNCHANGED <<owner_vars, stop_vars, perf_vars, bind_vars, now, t_op, t_size, t_fail,
                   op_held, t_result, calls, mem_vars>>

\* last_send_receive_time_ = now;
TransferStamp(t) ==
    /\ TGoto(t, "stamp", "query")
    /\ last_send_receive_time' = t_now[t]
    /\ t_now' = [t_now EXCEPT ![t] = 0]
    /\ UNCHANGED <<owner_vars, stop_vars, perf_vars, bind_vars, now, t_op, t_size, t_fail,
                   op_held, t_result, calls, mem_vars>>

\* utrans_query_instid: failure throws std::runtime_error (retryable).
TransferQuery(t) ==
    /\ \/ TGoto(t, "query", "exec")
       \/ TGoto(t, "query", "failed")
    /\ UNCHANGED <<owner_vars, stop_vars, perf_vars, bind_vars, time_vars, t_op, t_now, t_size,
                   t_fail, op_held, t_result, calls, mem_vars>>

\* trans_req_t{inst_id, opcode, 1, rbuf, nullptr, {{local_addr,
\* static_cast<uint32_t>(size)}}}: the one local segment's length is the size
\* truncated to its low 32 bits.
SegmentLength(size) == size[2]

\* utrans_exec_transfer of that request: a null op_info throws; otherwise
\* the handle is held.
TransferExec(t) ==
    /\ \/ /\ TGoto(t, "exec", "complete")
          /\ op_held' = [op_held EXCEPT ![t] = TRUE]
       \/ /\ TGoto(t, "exec", "failed")
          /\ UNCHANGED op_held
    /\ UNCHANGED <<owner_vars, stop_vars, perf_vars, bind_vars, time_vars, t_op, t_now, t_size,
                   t_fail, t_result, calls, mem_vars>>

\* Mutant: utrans_unref_req_info missing on the failed-status path.
TransferCompleteLeakOnFailure(t) ==
    /\ \/ /\ TGoto(t, "complete", "idle")
          /\ op_held' = [op_held EXCEPT ![t] = FALSE]
          /\ SetResult(t, "true")
       \/ /\ TGoto(t, "complete", "failed")
          /\ UNCHANGED <<op_held, t_result>>
    /\ UNCHANGED <<owner_vars, stop_vars, perf_vars, bind_vars, time_vars, t_op, t_now, t_size,
                   t_fail, calls, mem_vars>>

\* utrans_get_req_exec_result, utrans_unref_req_info on both paths; success
\* returns true from the call, a failed status throws.
TransferComplete(t) ==
    /\ op_held' = [op_held EXCEPT ![t] = FALSE]
    /\ \/ /\ TGoto(t, "complete", "idle")
          /\ SetResult(t, "true")
       \/ /\ TGoto(t, "complete", "failed")
          /\ UNCHANGED t_result
    /\ UNCHANGED <<owner_vars, stop_vars, perf_vars, bind_vars, time_vars, t_op, t_now, t_size,
                   t_fail, calls, mem_vars>>

\* Mutant: the retry runner never counts a failed attempt.
TransferFailedNoCount(t) ==
    /\ IF ShouldRetry(RetryCount(t_op[t]), t_fail[t] + 1)
          THEN /\ TGoto(t, "failed", "sleep")
               /\ UNCHANGED t_result
          ELSE /\ TGoto(t, "failed", "idle")
               /\ SetResult(t, "false")
    /\ UNCHANGED <<owner_vars, stop_vars, perf_vars, bind_vars, time_vars, t_op, t_now, t_size,
                   t_fail, op_held, calls, mem_vars>>

\* RetryUtils::Retry with CountingAndSleepRetryPolicy(retry_count, retry_sleep_ms):
\* retry after a sleep, or surface the exception, which the call turns into false.
TransferFailed(t) ==
    /\ LET n == t_fail[t] + 1 IN
          /\ t_fail' = [t_fail EXCEPT ![t] = n]
          /\ IF ShouldRetry(RetryCount(t_op[t]), n)
                THEN /\ TGoto(t, "failed", "sleep")
                     /\ UNCHANGED t_result
                ELSE /\ TGoto(t, "failed", "idle")
                     /\ SetResult(t, "false")
    /\ UNCHANGED <<owner_vars, stop_vars, perf_vars, bind_vars, time_vars, t_op, t_now, t_size,
                   op_held, calls, mem_vars>>

TransferSleep(t) ==
    /\ TGoto(t, "sleep", "query")
    /\ UNCHANGED <<owner_vars, stop_vars, perf_vars, bind_vars, time_vars, t_op, t_now, t_size,
                   t_fail, op_held, t_result, calls, mem_vars>>

TransferStep(t) ==
    \/ TransferStamp(t) \/ TransferQuery(t) \/ TransferExec(t)
    \/ TransferComplete(t) \/ TransferFailed(t) \/ TransferSleep(t)

(***************************************************************************)
(* RegisterMemory / DeregisterMemory: one backend call each.  A null       *)
(* registration from utrans_regist_ram / utrans_regist_vram throws.        *)
(***************************************************************************)
RegisterMemory(t, r) ==
    /\ CallerMayCall(t)
    /\ calls' = [calls EXCEPT ![t] = @ + 1]
    /\ t_op' = [t_op EXCEPT ![t] = "Register"]
    /\ \/ /\ ctx = NULL
          /\ SetResult(t, "false")
          /\ UNCHANGED mem_vars
       \/ /\ ctx # NULL
          /\ mrs' = [mrs EXCEPT ![ctx] = @ \cup {r}]
          /\ SetResult(t, "true")
       \/ /\ ctx # NULL
          /\ SetResult(t, "throw")
          /\ UNCHANGED mem_vars
    /\ UNCHANGED <<owner_vars, stop_vars, perf_vars, bind_vars, time_vars, tpc, t_now, t_size,
                   t_fail, op_held>>

\* utrans_dereg_mem(ctx_, addr, len) == 0
DeregisterMemory(t, r) ==
    /\ CallerMayCall(t)
    /\ calls' = [calls EXCEPT ![t] = @ + 1]
    /\ t_op' = [t_op EXCEPT ![t] = "Deregister"]
    /\ \/ /\ ctx = NULL
          /\ SetResult(t, "false")
          /\ UNCHANGED mem_vars
       \/ /\ ctx # NULL
          /\ SetResult(t, IF r \in mrs[ctx] THEN "true" ELSE "false")
          /\ mrs' = [mrs EXCEPT ![ctx] = @ \ {r}]
    /\ UNCHANGED <<owner_vars, stop_vars, perf_vars, bind_vars, time_vars, tpc, t_now, t_size,
                   t_fail, op_held>>

-----------------------------------------------------------------------------
Owner_ ==
    \/ StartSetup \/ SetupRpcServerFixed \/ SetupRpcServerWithRetry \/ StartFinish
    \/ OwnerStop \/ OwnerStopReturned \/ Destroy \/ DestroyClean

StopStep(s) == Stop(s) /\ stop_pc[s] # "idle"

Next ==
    \/ Owner_
    \/ \E s \in StopProcs : Stop(s)
    \/ PerfThread
    \/ Tick
    \/ \E t \in Threads :
          \/ \E op \in Ops : TransferCall(t, op)
          \/ \E op \in AsyncOps : AsyncTransfer(t, op)
          \/ TransferStep(t)
          \/ \E r \in Regions : RegisterMemory(t, r) \/ DeregisterMemory(t, r)

(***************************************************************************)
(* Fairness: the OS keeps scheduling every runnable thread and the clock   *)
(* keeps running.  A backend call returns; utrans_exec_transfer does so    *)
(* only when its timeout is finite.  Whether a caller makes a call at all  *)
(* is not forced.                                                          *)
(***************************************************************************)
TransferProgress(t) ==
    /\ TransferStep(t)
    /\ tpc[t] = "exec" => TimeoutFinite(t_op[t])

Fairness ==
    /\ \A s \in StopProcs : WF_vars(StopStep(s))
    /\ \A t \in Threads : WF_vars(TransferProgress(t))
    /\ WF_vars(PerfThread)
    /\ WF_vars(Tick)

Spec == Init /\ [][Next]_vars /\ Fairness

-----------------------------------------------------------------------------
(***************************************************************************)
(* Properties.                                                             *)
(***************************************************************************)
TypeOK ==
    /\ phase \in Phases
    /\ starts \in 0..MaxStarts
    /\ ctx \in Ctxs \cup {NULL}
    /\ ctx_state \in [Ctxs -> {"unused", "live", "cleaned"}]
    /\ is_running \in BOOLEAN
    /\ close_mutex \in StopProcs \cup {NULL}
    /\ stop_pc \in [StopProcs -> StopPcs]
    /\ perf_logging_thread_running \in BOOLEAN
    /\ perf_pc \in PerfPcs
    /\ wake_at \in Nat
    /\ {rpc_listen_port, local_server_port, bind_base, bind_attempt, bind_calls} \subseteq Nat
    /\ now \in StartTimeMs..MaxTimeMs
    /\ last_send_receive_time \in {0} \cup StartTimeMs..MaxTimeMs
    /\ tpc \in [Threads -> TPcs]
    /\ t_op \in [Threads -> Ops \cup AsyncOps \cup {"Register", "Deregister"}]
    /\ write_timeout_ms \in {-1, WriteTimeoutMs}
    /\ read_timeout_ms \in {-1, ReadTimeoutMs}
    /\ t_now \in [Threads -> {0} \cup StartTimeMs..MaxTimeMs]
    /\ t_size \in [Threads -> {<<0, 0>>} \cup Sizes]
    /\ t_fail \in [Threads -> Nat]
    /\ op_held \in [Threads -> BOOLEAN]
    /\ t_result \in [Threads -> Results]
    /\ calls \in [Threads -> 0..MaxCalls]
    /\ mrs \in [Ctxs -> SUBSET Regions]

(* Teardown order (spec 4.7, "a hard invariant"): utrans_print_perf_info is *)
(* only ever reached with ctx_ pointing to a context utrans_clean has not   *)
(* released, and ~RDMATransporter never finishes while the perf thread is  *)
(* still joinable (std::thread's destructor would call std::terminate).    *)
PerfNeverOutlivesContext ==
    /\ perf_pc = "print" => ctx # NULL /\ ctx_state[ctx] = "live"
    /\ phase = "destroyed" => ~Joinable

(* Spec 8.4: once a call of Stop() has returned, whichever of several      *)
(* concurrent callers it was, the perf sampler has finished and makes no   *)
(* further utrans_print_perf_info call.                                    *)
NoSamplingAfterStop ==
    \A s \in StopProcs : stop_pc[s] = "done" => ~SamplerAlive

(* Stop() from several threads: the double-checked is_running_ and         *)
(* close_mutex_ make sure the perf thread is joined by one thread only,    *)
(* and only while it is still joinable (a second or concurrent join() is   *)
(* std::system_error or undefined).                                        *)
SingleJoiner ==
    /\ \A s1, s2 \in StopProcs : stop_pc[s1] = "join" /\ stop_pc[s2] = "join" => s1 = s2
    /\ \A s \in StopProcs : stop_pc[s] = "join" => Joinable

(* Listener bring-up (spec 4.3, 8.1): after a successful SetupRpcServer,   *)
(* GetBindPort() is the port utrans_setup_rpcsrv listens on: LocalPort in  *)
(* fixed mode, and in scan mode a port of [base, base + kBindPortMaxRetry) *)
(* with base = 51010 + offset; a failed scan has tried every port of the   *)
(* window.                                                                 *)
RpcPortWithinWindow ==
    /\ phase \in {"perf", "started", "stopping", "stopped"} =>
          /\ local_server_port = rpc_listen_port
          /\ FixedPort => local_server_port = LocalPort
          /\ ~FixedPort => local_server_port \in bind_base..(bind_base + kBindPortMaxRetry - 1)
    /\ (phase = "failed" /\ ctx # NULL /\ ~FixedPort) => bind_attempt = kBindPortMaxRetry

(* Spec 7: the op handle from utrans_exec_transfer is released on every    *)
(* path, success or failed status, before the next attempt or the return. *)
OpHandlesReleased ==
    \A t \in Threads : tpc[t] # "complete" => ~op_held[t]

(* Spec 3, invariant 5: retries never cause unbounded work; every Send or  *)
(* Receive that reached the backend eventually returns, whatever the       *)
(* backend answers.                                                        *)
TransfersReturn ==
    \A t \in Threads : tpc[t] # "idle" ~> tpc[t] = "idle"

(* Spec 4.4 step 2: the request's local segment is {local_addr, length}; *)
(* every request handed to utrans_exec_transfer covers the whole buffer    *)
(* of the Send or Receive, whatever its size_t length.                     *)
RequestCoversBuffer ==
    [][\A t \in Threads :
          (tpc[t] = "exec" /\ tpc'[t] # "exec") => <<0, SegmentLength(t_size[t])>> = t_size[t]]_vars

(* Spec 3 invariant 5 and 8.6: the retry runner around query + exec makes *)
(* retry_count + 1 attempts at most: a Send or Receive that returns false  *)
(* from the retry block does so after exactly retry_count + 1 failed       *)
(* attempts, one that returns true after at most retry_count failures.    *)
RetryBudgetRespected ==
    [][\A t \in Threads :
          (tpc[t] \in {"complete", "failed"} /\ tpc'[t] = "idle") =>
              IF t_result'[t] = "true" THEN t_fail[t] <= RetryCount(t_op[t])
              ELSE t_fail'[t] = RetryCount(t_op[t]) + 1]_vars

(* Stop() always returns: the perf thread sees the cleared flag after its  *)
(* sleep and exits, so join() does not block forever.                      *)
StopReturns ==
    \A s \in StopProcs : stop_pc[s] \notin {"idle", "done"} ~> stop_pc[s] = "done"

(* Spec 5: last_send_receive_time_ is a monotonic clock; it never moves    *)
(* backwards (Send / Receive store a `now` read earlier).                  *)
LastActivityMonotonic ==
    [][last_send_receive_time' >= last_send_receive_time]_last_send_receive_time

(* Spec 4.8: operations fail fast when the engine is not Running; no       *)
(* transfer is submitted to utrans_exec_transfer after Stop().             *)
TransferOnlyWhileRunning ==
    [][\A t \in Threads : (tpc[t] = "exec" /\ tpc'[t] = "complete") => is_running]_vars

(* Spec 3, invariant 1: exactly one backend context exists between a       *)
(* Start() and the release; every live utrans context is the one ctx_     *)
(* points to, so the destructor's utrans_clean can release it.             *)
NoLeakedContext ==
    \A c \in Ctxs : ctx_state[c] = "live" => c = ctx

(* Spec 8.3 and scenario S6: Send / Receive with a null buffer, a zero     *)
(* length or no remote address returns false; it does not throw.          *)
ArgumentErrorReturnsFalse ==
    \A t \in Threads : t_op[t] \in Ops => t_result[t] # "throw"
(* std::thread's move assignment calls std::terminate when the thread it   *)
(* replaces is still joinable: InitializePerfMetricsThread never assigns   *)
(* perf_logging_thread_ before the previous sampler has been joined, so a  *)
(* second Start() cannot abort the process.                                *)
PerfThreadAssignedOnlyWhenJoined ==
    [][(phase = "perf" /\ phase' = "started" /\ perf_logging_thread_running') => ~Joinable]_vars

-----------------------------------------------------------------------------
(***************************************************************************)
(* Refinement of TransportLifecycle.  The engine is Stopping from the step *)
(* in which a Stop() passes its locked recheck until is_running_ = false; *)
(* it is Starting while Start() is between utrans_setup and its return;    *)
(* the sampler is alive from the std::thread assignment until the loop     *)
(* exits.                                                                  *)
(***************************************************************************)
StopTearingDown ==
    \E s \in StopProcs : stop_pc[s] \in {"readflag", "clearflag", "joinable", "join", "finish"}

LifecycleState ==
    CASE phase = "destroyed"            -> "Destroyed"
      [] phase \in {"binding", "perf"}  -> "Starting"
      [] is_running /\ StopTearingDown  -> "Stopping"
      [] is_running                     -> "Running"
      [] OTHER                          -> "Idle"

Lifecycle == INSTANCE TransportLifecycle
    WITH state <- LifecycleState,
         sampling <- SamplerAlive,
         destroy_requested <- phase \in {"destroying", "destroyed"},
         SamplerEnabled <- EnablePerfMetrics

(* Start / Stop / the perf thread / ~RDMATransporter, with every thread    *)
(* interleaving, implement the lifecycle of spec 4.8: the sampler runs     *)
(* only between a successful Start() and the Stop() that ends it, a Stop   *)
(* that has begun tearing down completes, and the destructor releases the  *)
(* engine only once it is stopped.                                         *)
LifecycleRefinement == Lifecycle!Spec
=============================================================================
