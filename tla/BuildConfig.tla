----------------------------- MODULE BuildConfig -----------------------------
(***************************************************************************)
(* Build-time choice of the RDMA backend: the USE_ASTATE_RDMA_IMPL branch   *)
(* of src/cmake/dependencies.cmake (link libraries and compile definition) *)
(* followed by src/src/common/rdma_type.h, which includes the backend's     *)
(* headers according to that definition.  A configure-and-build is one    *)
(* sequential run; its steps are actions so that the order is explicit.    *)
(***************************************************************************)
EXTENDS FiniteSets

Backends == {"UTRANS", "UCX"}

\* The library that defines the utrans_* symbols each header set declares:
\* libutrans for <libutrans/utrans.h>, the UCX-based implementation for
\* "utrans/utrans.h".
Provider == [b \in Backends |-> IF b = "UTRANS" THEN "utrans" ELSE "UCX::ucx"]

VARIABLES
    use_impl,   \* the USE_ASTATE_RDMA_IMPL option
    step,       \* "cmake", "overwrite", "compile", "done"
    deps,       \* ASTATE_TRANSFER_DEPS
    defs,       \* backends given as ASTATE_RDMA_BACKEND_<b>=1 compile definitions
    header      \* backend whose headers rdma_type.h included, or "error"

vars == <<use_impl, step, deps, defs, header>>

Init ==
    /\ use_impl \in BOOLEAN
    /\ step = "cmake"
    /\ deps = {}
    /\ defs = {}
    /\ header = "none"

\* if(USE_ASTATE_RDMA_IMPL) ... else() ... endif()
SelectBackend ==
    /\ step = "cmake"
    /\ LET b == IF use_impl THEN "UCX" ELSE "UTRANS" IN
          /\ deps' = {"numa", "ibverbs", Provider[b]}
          /\ defs' = {b}
    /\ step' = "overwrite"
    /\ UNCHANGED <<use_impl, header>>

\* The set(ASTATE_TRANSFER_DEPS numa ibverbs UCX::ucx) after the endif().
OverwriteDeps ==
    /\ step = "overwrite"
    /\ deps' = {"numa", "ibverbs", "UCX::ucx"}
    /\ step' = "compile"
    /\ UNCHANGED <<use_impl, defs, header>>

\* rdma_type.h: #if UTRANS ... #elif UCX ... #else #error.
CompileRdmaType ==
    /\ step = "compile"
    /\ header' = CASE "UTRANS" \in defs -> "UTRANS"
                   [] "UCX" \in defs    -> "UCX"
                   [] OTHER             -> "error"
    /\ step' = "done"
    /\ UNCHANGED <<use_impl, deps, defs>>

Next == SelectBackend \/ OverwriteDeps \/ CompileRdmaType

Spec == Init /\ [][Next]_vars

TypeOK ==
    /\ use_impl \in BOOLEAN
    /\ step \in {"cmake", "overwrite", "compile", "done"}
    /\ deps \subseteq {"numa", "ibverbs", "utrans", "UCX::ucx"}
    /\ defs \subseteq Backends
    /\ header \in Backends \cup {"none", "error"}

(* Spec 4.2 and 9: the backend is chosen by the build flag alone: the      *)
(* headers rdma_type.h includes and the library the engine links are the   *)
(* same backend, whichever value USE_ASTATE_RDMA_IMPL has.                 *)
BackendLinked ==
    step = "done" => header \in Backends /\ Provider[header] \in deps
=============================================================================
