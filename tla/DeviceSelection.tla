--------------------------- MODULE DeviceSelection ---------------------------
(***************************************************************************)
(* RDMA device selection and NUMA binding of RDMATransporter::Start():     *)
(* InitializeRdmaConfig, SelectRdmaDevices and NumaNodeOfInfiniband        *)
(* (src/src/transport/rdma_transporter.cpp), and the NUMA node that        *)
(* RegisterMemory then hands to utrans_regist_ram.                         *)
(*                                                                         *)
(* The machine is the environment: which GPU cudaGetDevice reports, what   *)
(* /sys/class/infiniband/<dev>/device/numa_node holds, and whether the     *)
(* GpuTopologyManager singleton initialises.  The manager is not in src/;  *)
(* its two selections are tables given as constants (spec 4.1).  The       *)
(* comma-joined device string and SplitByComma are abstracted to a         *)
(* sequence of device names.                                               *)
(***************************************************************************)
EXTENDS Integers, Sequences

CONSTANTS
    Devices,          \* RDMA NIC names
    NumaNodes,        \* NUMA nodes of the machine
    Gpus,             \* CUDA device indices
    RoleRank,         \* parallel_config.role_rank
    MaxRdmaDevices,   \* TRANSFER_ENGINE_MAX_RDMA_DEVICES
    NumaEnabled,      \* TRANSFER_ENGINE_ENABLE_NUMA_ALLOCATION
    ByGpu,            \* GpuTopologyManager::SelectRdmaDevices, devices closest first
    ByRank,           \* GpuTopologyManager::SelectRdmaDevicesByRank for RoleRank
    MaxStarts         \* bound: calls of Start()

ASSUME /\ ByGpu \in [Gpus -> Seq(Devices)]
       /\ ByRank \in Seq(Devices)
       /\ MaxRdmaDevices \in Nat /\ MaxStarts \in Nat
       /\ -1 \notin NumaNodes

VARIABLES
    sysfs_numa,        \* content of each device's numa_node file, -1 if unreadable
    topo_initialized,  \* topology_manager->IsInitialized() (a static singleton)
    starts,
    selected,          \* selected_devices of the latest Start
    by_rank,           \* that selection came from SelectRdmaDevicesByRank
    nic_nodes,         \* nic_nodes_
    rdma_numa_node,    \* rdma_numa_node_
    membind,           \* <<nodes of the mask last passed to numa_set_membind>>, or <<>>
    dev_patt,          \* utrans_config.rdma_conf.valid_dev_patt (<<>> for nullptr)
    reg_node           \* <<Start it follows, numa argument>> of the last
                       \* utrans_regist_ram, or <<>>

vars == <<sysfs_numa, topo_initialized, starts, selected, by_rank, nic_nodes,
          rdma_numa_node, membind, dev_patt, reg_node>>

Cap(s) == IF Len(s) <= MaxRdmaDevices THEN s ELSE SubSeq(s, 1, MaxRdmaDevices)

(***************************************************************************)
(* The manager's answers (spec 4.1): the MaxRdmaDevices devices closest to *)
(* the GPU, or the rank's share.  Uninitialised, it knows no topology and  *)
(* may answer with nothing.                                                *)
(***************************************************************************)
ManagerByGpu(init, g) == IF init THEN {Cap(ByGpu[g])} ELSE {Cap(ByGpu[g]), <<>>}
ManagerByRank(init)   == IF init THEN {Cap(ByRank)} ELSE {Cap(ByRank), <<>>}

\* NumaNodeOfInfiniband: the integer in the file, or -1.
NumaNodeOfInfiniband(dev) == sysfs_numa[dev]

\* Mutant: the node is set in the mask whatever its value.
NodeMaskUnchecked(n) == {n}

\* numa_allocate_nodemask, numa_bitmask_clearall, numa_bitmask_setbit(bm, n):
\* n is an unsigned int, and a bit beyond the mask's size is not set.
NodeMask(n) == IF n \in NumaNodes THEN {n} ELSE {}

Init ==
    /\ sysfs_numa \in [Devices -> NumaNodes \cup {-1}]
    /\ topo_initialized = FALSE
    /\ starts = 0
    /\ selected = <<>>
    /\ by_rank = FALSE
    /\ nic_nodes = <<>>
    /\ rdma_numa_node = -1
    /\ membind = <<>>
    /\ dev_patt = <<>>
    /\ reg_node = <<>>

(***************************************************************************)
(* SelectRdmaDevices: initialise the singleton if it is not yet (a failure *)
(* is only logged), then select by the current CUDA device if cudaGetDevice *)
(* reports one, else by rank.  The set of answers the manager may give.    *)
(***************************************************************************)
SelectRdmaDevices(init, cuda) ==
    IF cuda \in Gpus THEN ManagerByGpu(init, cuda) ELSE ManagerByRank(init)

\* Mutant: nic_nodes_ is not cleared before it is refilled.
RecordNicNodesNoClear(sel) ==
    LET nodes == nic_nodes \o [i \in 1..Len(sel) |-> <<sel[i], NumaNodeOfInfiniband(sel[i])>>]
    IN /\ nic_nodes' = nodes
       /\ rdma_numa_node' = nodes[1][2]

\* nic_nodes_.clear(); one <<name, NumaNodeOfInfiniband(name)>> per selected
\* device; rdma_numa_node_ is the first one's node.
RecordNicNodes(sel) ==
    LET nodes == [i \in 1..Len(sel) |-> <<sel[i], NumaNodeOfInfiniband(sel[i])>>]
    IN /\ nic_nodes' = nodes
       /\ rdma_numa_node' = nodes[1][2]

(***************************************************************************)
(* InitializeRdmaConfig, the part of Start() before utrans_setup.  With a  *)
(* non-empty selection the NIC/NUMA pairs are recomputed and, with NUMA    *)
(* allocation on, the thread and the memory policy are bound to            *)
(* rdma_numa_node_; an empty selection leaves valid_dev_patt null and both *)
(* members as they were.                                                   *)
(***************************************************************************)
InitializeRdmaConfig ==
    /\ starts < MaxStarts
    /\ starts' = starts + 1
    /\ \E init_ok \in BOOLEAN, cuda \in Gpus \cup {-1} :
          LET init == topo_initialized \/ init_ok IN
          \E sel \in SelectRdmaDevices(init, cuda) :
             /\ topo_initialized' = init
             /\ by_rank' = (cuda \notin Gpus)
             /\ selected' = sel
             /\ IF sel # <<>>
                   THEN /\ RecordNicNodes(sel)
                        /\ membind' = IF NumaEnabled THEN <<NodeMask(rdma_numa_node')>> ELSE membind
                        /\ dev_patt' = sel
                   ELSE /\ dev_patt' = <<>>
                        /\ UNCHANGED <<nic_nodes, rdma_numa_node, membind>>
    /\ UNCHANGED <<sysfs_numa, reg_node>>

\* RegisterMemory(addr, len, is_vram = false, ...): utrans_regist_ram with
\* rdma_numa_node_, whatever the caller passed; recorded with the Start it
\* follows.
RegisterRam ==
    /\ starts > 0
    /\ reg_node' = <<starts, rdma_numa_node>>
    /\ UNCHANGED <<sysfs_numa, topo_initialized, starts, selected, by_rank, nic_nodes,
                   rdma_numa_node, membind, dev_patt>>

Next == InitializeRdmaConfig \/ RegisterRam

Spec == Init /\ [][Next]_vars

-----------------------------------------------------------------------------
TypeOK ==
    /\ sysfs_numa \in [Devices -> NumaNodes \cup {-1}]
    /\ topo_initialized \in BOOLEAN
    /\ starts \in 0..MaxStarts
    /\ selected \in Seq(Devices)
    /\ by_rank \in BOOLEAN
    /\ nic_nodes \in Seq(Devices \X (NumaNodes \cup {-1}))
    /\ rdma_numa_node \in NumaNodes \cup {-1}
    /\ membind \in {<<>>} \cup {<<m>> : m \in SUBSET NumaNodes}
    /\ dev_patt \in Seq(Devices)
    /\ reg_node \in {<<>>} \cup ((1..MaxStarts) \X (NumaNodes \cup {-1}))

(* The devices handed to utrans (valid_dev_patt) and the NIC/NUMA pairs    *)
(* the engine keeps describe the same NICs, in order, and rdma_numa_node_  *)
(* is the first one's node, across any number of Start() calls.            *)
NicNodesDescribeDevicePattern ==
    dev_patt # <<>> =>
        /\ Len(nic_nodes) = Len(dev_patt)
        /\ \A i \in 1..Len(dev_patt) : nic_nodes[i] = <<dev_patt[i], sysfs_numa[dev_patt[i]]>>
        /\ rdma_numa_node = nic_nodes[1][2]

(* Spec 4.6: a RAM registration uses the NUMA node of the engine's primary *)
(* NIC; after a Start() that selected no NIC there is none (-1).           *)
RamRegisteredOnCurrentNic ==
    (reg_node # <<>> /\ reg_node[1] = starts) =>
        reg_node[2] = IF selected = <<>> THEN -1 ELSE sysfs_numa[selected[1]]

(* Spec 4.1: when the topology manager fails to initialise, selection      *)
(* falls back to SelectRdmaDevicesByRank.                                  *)
SelectionFallsBackToRank ==
    (starts > 0 /\ ~topo_initialized) => by_rank
====
