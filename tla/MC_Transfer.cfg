\* Two data-plane threads making two calls each (Send / Receive with retries,
\* the async stubs, memory registration) against a backend that may fail
\* every call; fixed-port bring-up, perf sampler off.
CONSTANTS
    Owner = o
    Stoppers = {}
    Threads = {t1, t2}
    Regions = {r1}
    NULL = NULL
    FixedPort = TRUE
    LocalPort = 19001
    kRdmaPortStart = 51010
    kBindPortMaxRetry = 2
    RandomOffsets <- MC_RandomOffsets
    EnablePerfMetrics = FALSE
    PerfStatsIntervalMs = 500
    SendRetryCount = 2
    ReceiveRetryCount = 1
    WriteTimeoutMs = 5000
    ReadTimeoutMs = 5000
    StartWhileRunning = FALSE
    Sizes <- MC_Sizes
    MaxStarts = 1
    MaxCalls = 2
    TickMs = 500
    StartTimeMs = 2000
    MaxTimeMs = 2500

SPECIFICATION Spec
INVARIANT OpHandlesReleased
PROPERTY TransfersReturn
PROPERTY RetryBudgetRespected
CHECK_DEADLOCK FALSE
