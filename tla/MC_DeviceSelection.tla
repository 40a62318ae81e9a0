------------------------- MODULE MC_DeviceSelection -------------------------
(* Instantiation of DeviceSelection for TLC: two NICs on two NUMA nodes,   *)
(* two GPUs each closest to a different NIC, a rank whose share is the     *)
(* second NIC, and TRANSFER_ENGINE_MAX_RDMA_DEVICES = 1 so that the        *)
(* manager's cap matters.                                                  *)
EXTENDS DeviceSelection, TLC

MC_ByGpu == (0 :> <<"mlx5_0", "mlx5_1">>) @@ (1 :> <<"mlx5_1", "mlx5_0">>)
MC_ByRank == <<"mlx5_1">>
=============================================================================
