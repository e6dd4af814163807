---------------------------- MODULE MCBufferPool -----------------------------
(* Small instances of BufferPool for TLC. *)
EXTENDS BufferPool

CONSTANTS core, worker, b1, b2, b3

BothEnvs     == {core, worker}
ThreeBlocks == {b1, b2, b3}

SomeRequests      == {1, 4}
SomeAlignments == {1, 3, 8}
SomeOrigins    == {0, 3}

Symmetric == Permutations(ThreeBlocks) \cup Permutations(BothEnvs)
=============================================================================
