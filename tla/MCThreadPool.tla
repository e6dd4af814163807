---------------------------- MODULE MCThreadPool ----------------------------
(* A small instance of ThreadPool for TLC: one caller beside the jobs that *)
(* queue jobs themselves.                                                  *)
EXTENDS ThreadPool, TLC

CONSTANTS c1, w1, w2

OneCaller == {c1}
TwoWorkers == {w1, w2}
=============================================================================
