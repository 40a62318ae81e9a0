\* Both values of USE_ASTATE_RDMA_IMPL through configure and compile.
SPECIFICATION Spec
INVARIANT BackendLinked
CHECK_DEADLOCK FALSE
