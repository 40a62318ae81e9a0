\* Start in scan mode, the perf sampler, Stop from the owner and from one
\* more thread, the destructor, and one data-plane thread.
CONSTANTS
    Owner = o
    Stoppers = {s1}
    Threads = {t1}
    Regions = {r1}
    NULL = NULL
    FixedPort = FALSE
    LocalPort = 19001
    kRdmaPortStart = 51010
    kBindPortMaxRetry = 2
    RandomOffsets <- MC_RandomOffsets
    EnablePerfMetrics = TRUE
    PerfStatsIntervalMs = 500
    SendRetryCount = 1
    ReceiveRetryCount = 1
    WriteTimeoutMs = 5000
    ReadTimeoutMs = 5000
    StartWhileRunning = FALSE
    Sizes <- MC_Sizes
    MaxStarts = 1
    MaxCalls = 1
    TickMs = 500
    StartTimeMs = 2000
    MaxTimeMs = 3000

SPECIFICATION Spec
INVARIANT TypeOK
INVARIANT PerfNeverOutlivesContext
INVARIANT NoSamplingAfterStop
INVARIANT SingleJoiner
INVARIANT RpcPortWithinWindow
PROPERTY StopReturns
PROPERTY LifecycleRefinement
CHECK_DEADLOCK FALSE
