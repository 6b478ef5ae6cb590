--------------------------- MODULE MCDmabufParams ---------------------------
(* One params ID reused once, two dma-bufs, one- and two-plane formats, and  *)
(* kernels with a fence, with only the virtio-gpu wait and with neither.     *)
EXTENDS DmabufParams

CONSTANTS d1, d2

MCLayout == d1 :> [virtgpu |-> TRUE, stride |-> 8] @@ d2 :> [virtgpu |-> FALSE, stride |-> 4]
MCCreates == {[format |-> "nv12", width |-> 4, height |-> 2],
              [format |-> "argb", width |-> 2, height |-> 1],
              [format |-> "argb", width |-> 0, height |-> 1]}

Node(minor, driver, gbm, wait, probe) ==
  [minor |-> minor, opens |-> TRUE, driver |-> driver, gbm |-> gbm, wait |-> wait,
   features |-> TRUE, probe |-> probe]
Software == Node(128, "vkms", TRUE, FALSE, "ok")
VirtGpu == Node(129, "virtio_gpu", TRUE, TRUE, "einval")
OldVirtGpu == Node(130, "virtio_gpu", TRUE, TRUE, "ok")
MCMachines ==
  { [export |-> TRUE, forced |-> 0, nodes |-> {Software, VirtGpu}],
    [export |-> FALSE, forced |-> 0, nodes |-> {Software, OldVirtGpu}],
    [export |-> FALSE, forced |-> 128, nodes |-> {Software, VirtGpu}] }
=============================================================================
