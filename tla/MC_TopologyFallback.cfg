\* The topology manager fails to initialise while a CUDA device is current.
CONSTANTS
    Devices = {"mlx5_0", "mlx5_1"}
    NumaNodes = {0, 1}
    Gpus = {0, 1}
    RoleRank = 1
    MaxRdmaDevices = 1
    NumaEnabled = TRUE
    ByGpu <- MC_ByGpu
    ByRank <- MC_ByRank
    MaxStarts = 2

SPECIFICATION Spec
INVARIANT SelectionFallsBackToRank
CHECK_DEADLOCK FALSE
