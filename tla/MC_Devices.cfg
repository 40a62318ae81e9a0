\* Device selection over every /sys numa_node content, CUDA answer and
\* topology-manager outcome, across two Start() calls.
CONSTANTS
    Devices = {"mlx5_0", "mlx5_1"}
    NumaNodes = {0, 1}
    Gpus = {0, 1}
    RoleRank = 1
    MaxRdmaDevices = 1
    NumaEnabled = TRUE
    ByGpu <- MC_ByGpu
    ByRank <- MC_ByRank
    MaxStarts = 2

SPECIFICATION Spec
INVARIANT TypeOK
INVARIANT NicNodesDescribeDevicePattern
CHECK_DEADLOCK FALSE
