------------------------- MODULE TransportLifecycle -------------------------
(***************************************************************************)
(* What the transport engine promises about its lifecycle (spec 4.7, 4.8, *)
(* 5): an engine is started, runs, is stopped and is destroyed; the perf   *)
(* sampler runs only from a successful Start until the Stop that ends it,  *)
(* a Stop that has begun always completes, and the destructor releases the *)
(* engine only once nothing runs.                                          *)
(*                                                                         *)
(*   state             Idle (new, failed to start, or stopped), Starting,  *)
(*                     Running, Stopping, Destroyed                        *)
(*   sampling          the perf sampler thread is alive                    *)
(*   destroy_requested the destructor has begun                            *)
(***************************************************************************)
CONSTANT SamplerEnabled     \* enable_perf_metrics

VARIABLES state, sampling, destroy_requested

vars == <<state, sampling, destroy_requested>>

States == {"Idle", "Starting", "Running", "Stopping", "Destroyed"}

TypeOK ==
    /\ state \in States
    /\ sampling \in BOOLEAN
    /\ destroy_requested \in BOOLEAN

Init ==
    /\ state = "Idle"
    /\ sampling = FALSE
    /\ destroy_requested = FALSE

\* Start() on an engine that is not running, before the destructor.
BeginStart ==
    /\ state = "Idle"
    /\ ~destroy_requested
    /\ state' = "Starting"
    /\ UNCHANGED <<sampling, destroy_requested>>

\* Start() returns false: the context or the listener could not be set up.
StartFailed ==
    /\ state = "Starting"
    /\ state' = "Idle"
    /\ UNCHANGED <<sampling, destroy_requested>>

\* Start() returns true; the sampler runs iff it is enabled.
StartDone ==
    /\ state = "Starting"
    /\ state' = "Running"
    /\ sampling' = SamplerEnabled
    /\ UNCHANGED destroy_requested

\* The one Stop() that wins the lock begins tearing down.
BeginStop ==
    /\ state = "Running"
    /\ state' = "Stopping"
    /\ UNCHANGED <<sampling, destroy_requested>>

\* The sampler sees the cleared flag and exits, only while stopping.
SamplerExit ==
    /\ state = "Stopping"
    /\ sampling
    /\ sampling' = FALSE
    /\ UNCHANGED <<state, destroy_requested>>

\* Stop() finishes only after the sampler has exited.
EndStop ==
    /\ state = "Stopping"
    /\ ~sampling
    /\ state' = "Idle"
    /\ UNCHANGED <<sampling, destroy_requested>>

\* The destructor begins (it then stops a running engine).
RequestDestroy ==
    /\ state \in {"Idle", "Running", "Stopping"}
    /\ ~destroy_requested
    /\ destroy_requested' = TRUE
    /\ UNCHANGED <<state, sampling>>

\* The destructor releases the engine once it is stopped.
Release ==
    /\ state = "Idle"
    /\ destroy_requested
    /\ ~sampling
    /\ state' = "Destroyed"
    /\ UNCHANGED <<sampling, destroy_requested>>

Next ==
    \/ BeginStart \/ StartFailed \/ StartDone \/ BeginStop
    \/ SamplerExit \/ EndStop \/ RequestDestroy \/ Release

\* A Stop that has begun completes: the sampler exits and Stop returns.
Spec ==
    /\ Init /\ [][Next]_vars
    /\ WF_vars(SamplerExit)
    /\ WF_vars(EndStop)
=============================================================================
