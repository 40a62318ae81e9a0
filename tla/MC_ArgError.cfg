\* Send / Receive called with invalid arguments or before Start().
CONSTANTS
    Owner = o
    Stoppers = {}
    Threads = {t1, t2}
    Regions = {r1}
    NULL = NULL
    FixedPort = TRUE
    LocalPort = 19001
    kRdmaPortStart = 51010
    kBindPortMaxRetry = 2
    RandomOffsets <- MC_RandomOffsets
    EnablePerfMetrics = FALSE
    PerfStatsIntervalMs = 500
    SendRetryCount = 2
    ReceiveRetryCount = 1
    WriteTimeoutMs = 5000
    ReadTimeoutMs = 5000
    StartWhileRunning = FALSE
    Sizes <- MC_Sizes
    MaxStarts = 1
    MaxCalls = 1
    TickMs = 500
    StartTimeMs = 2000
    MaxTimeMs = 2500

SPECIFICATION Spec
INVARIANT ArgumentErrorReturnsFalse
CHECK_DEADLOCK FALSE
