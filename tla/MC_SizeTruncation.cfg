\* One Send or Receive of a 4 KiB or an exactly 4 GiB buffer, fixed-port
\* bring-up, against a backend that may fail every call.
CONSTANTS
    Owner = o
    Stoppers = {}
    Threads = {t1}
    Regions = {r1}
    NULL = NULL
    FixedPort = TRUE
    LocalPort = 19001
    kRdmaPortStart = 51010
    kBindPortMaxRetry = 2
    RandomOffsets <- MC_RandomOffsets
    EnablePerfMetrics = FALSE
    PerfStatsIntervalMs = 500
    SendRetryCount = 2
    ReceiveRetryCount = 1
    WriteTimeoutMs = 5000
    ReadTimeoutMs = 5000
    StartWhileRunning = FALSE
    Sizes <- MC_LargeSizes
    MaxStarts = 1
    MaxCalls = 1
    TickMs = 500
    StartTimeMs = 2000
    MaxTimeMs = 2500

SPECIFICATION Spec
CHECK_DEADLOCK FALSE
PROPERTY RequestCoversBuffer
