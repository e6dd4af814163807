--------------------------- MODULE MCCacheRegistry ---------------------------
(* Small instances of CacheRegistry for TLC. *)
EXTENDS CacheRegistry

CONSTANTS t1, t2, c1, c2, c3

TwoThreads  == {t1, t2}
ThreeCaches == {c1, c2, c3}

(* The last one's filter has been asked for its frames, or will be. *)
FirstTwo == {c1, c2}

(* How far caches grow. *)
TwoOneNone == [c \in ThreeCaches |-> CASE c = c1 -> 2 [] c = c2 -> 1 [] c = c3 -> 0]

Symmetric == Permutations(TwoThreads)

-----------------------------------------------------------------------------
(* What the source says and the code does not keep; TLC has refuted it.    *)

(* Taking a slot away from a cache never gives it more room.               *)
TakesSlotAway ==
  [][\A t \in Threads : pc[t] = "taking" /\ pc'[t] = "grow" =>
       \A c \in Caches : Capacity(cache'[c]) <= Capacity(cache[c])]_vars

(* When too little memory is left no cache is given more room.             *)
ReducesCaching ==
  [][\A t \in Threads : pc[t] = "set" /\ pc'[t] = "shrink" =>
       \A c \in Caches : Capacity(cache'[c]) <= Capacity(cache[c])]_vars
=============================================================================
