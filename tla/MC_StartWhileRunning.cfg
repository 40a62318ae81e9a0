\* Start() called again on a running engine with the perf sampler enabled.
CONSTANTS
    Owner = o
    Stoppers = {}
    Threads = {}
    Regions = {r1}
    NULL = NULL
    FixedPort = TRUE
    LocalPort = 19001
    kRdmaPortStart = 51010
    kBindPortMaxRetry = 2
    RandomOffsets <- MC_RandomOffsets
    EnablePerfMetrics = TRUE
    PerfStatsIntervalMs = 500
    SendRetryCount = 1
    ReceiveRetryCount = 1
    WriteTimeoutMs = 5000
    ReadTimeoutMs = 5000
    StartWhileRunning = TRUE
    Sizes <- MC_Sizes
    MaxStarts = 2
    MaxCalls = 1
    TickMs = 500
    StartTimeMs = 2000
    MaxTimeMs = 3000

SPECIFICATION Spec
PROPERTY PerfThreadAssignedOnlyWhenJoined
CHECK_DEADLOCK FALSE
