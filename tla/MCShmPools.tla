----------------------------- MODULE MCShmPools ------------------------------
(* A small instance of ShmPools: every way the proxy can be started.         *)
EXTENDS ShmPools, TLC

HostSymmetry == Permutations(HostIds)

MCConfigs ==
  {[gpu |-> TRUE, virtwl |-> "dmabuf", gbm |-> FALSE],
   [gpu |-> FALSE, virtwl |-> "shm", gbm |-> TRUE],
   [gpu |-> TRUE, virtwl |-> "none", gbm |-> TRUE]}
==============================================================================
