---------------------------- MODULE MCPrefetcher ----------------------------
(* Small instances of Prefetcher for TLC. *)
EXTENDS Prefetcher

CONSTANTS w1, w2, j1, j2, j3, j4, j5, j6

TwoWorkers == {w1, w2}
SixJobs    == {j1, j2, j3, j4, j5, j6}

ByOneOrTwo == {1, 2}
=============================================================================
