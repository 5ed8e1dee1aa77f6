----------------------------- MODULE MCSampling -----------------------------
(***************************************************************************)
(* An instance of Sampling: memory of two units, in every way the kernel   *)
(* may account for it.  Shared memory is part of the page cache, and a     *)
(* reading that is not taken at one moment may add up to too much.         *)
(***************************************************************************)
EXTENDS Sampling

MCMemInfo ==
  { m \in [free : 0 .. 2, buffers : 0 .. 1, cached : 0 .. 2,
           reclaimable : 0 .. 1, shmem : 0 .. 2] : m.shmem <= m.cached }
=============================================================================
