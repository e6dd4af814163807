---------------------------- MODULE MCFilterChain ----------------------------
(* Small instances of FilterChain for TLC. *)
EXTENDS FilterChain, TLC

CONSTANTS t1, t2

TwoThreads == {t1, t2}

Source == {0}
Second == {1}

Symmetric == Permutations(TwoThreads)

-----------------------------------------------------------------------------
(* What the source says and the code does not keep; TLC has refuted it.    *)

(* Threads never wait for one another in a circle, scripts or not.         *)
NeverInCircle == \A S \in (SUBSET Threads) \ {{}} : \E t \in S : Awaits(t) \cap S = {}
=============================================================================
