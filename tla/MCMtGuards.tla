----------------------------- MODULE MCMtGuards ------------------------------
(* Small instances of MtGuards for TLC. *)
EXTENDS MtGuards, TLC

CONSTANTS g1, g2, p1, p2

TwoGuards      == {g1, g2}
TwoPrefetchers == {p1, p2}
OneAndTwo      == {1, 2}

Symmetric == Permutations(TwoGuards) \cup Permutations(TwoPrefetchers)

-----------------------------------------------------------------------------
(* What the source says and the code does not keep; TLC has refuted it.    *)

(* Only a single prefetcher is allowed per script. *)
OnlyOneActive == Cardinality(Active) <= 1

(* EnableMT does not need the stored parameters again once it has dropped  *)
(* them.                                                                   *)
ParametersNotNeeded == ~crashed
=============================================================================
