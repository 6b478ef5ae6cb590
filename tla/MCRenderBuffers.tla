-------------------------- MODULE MCRenderBuffers --------------------------
(* RenderBuffers on two surfaces that share their buffers.                 *)
EXTENDS RenderBuffers

CONSTANTS s1, s2, shm1, shm2, dma1, r1, r2

MCSymmetry == Permutations(Surfaces) \cup Permutations(Regions)
=============================================================================
