----------------------------- MODULE RecencyList -----------------------------
(***************************************************************************)
(* The doubly linked lists of SimpleLruCache.h, as values.                 *)
(*                                                                         *)
(* A list without duplicates is the function from its keys to their        *)
(* positions: 1 is the front (the most recently used key), the number of   *)
(* keys is the back.  Everything the list code does is then a set          *)
(* expression, which both TLC and the provers evaluate without recursion.  *)
(* SimpleLruCache.tla checks these operators against the loops of the code *)
(* run over sequences.                                                     *)
(***************************************************************************)
LOCAL INSTANCE Integers
LOCAL INSTANCE FiniteSets

EmptyList == [k \in {} |-> 0]

(* The position of k among the keys of S. *)
Rank(list, S, k) == Cardinality({j \in S : list[j] <= list[k]})

(* The list with only the keys of S left, in their order. *)
Keep(list, S) == [k \in S |-> Rank(list, S, k)]

(* k moved, or inserted, at the front. *)
ToFront(list, k) ==
  LET rest == DOMAIN list \ {k}
  IN  [j \in rest \cup {k} |-> IF j = k THEN 1 ELSE 1 + Rank(list, rest, j)]

(* The keys of S, in their order in `from`, moved or inserted before the   *)
(* other keys of list.                                                     *)
Stack(from, S, list) ==
  LET rest == DOMAIN list \ S
  IN  [k \in S \cup rest |-> IF k \in S THEN Rank(from, S, k)
                             ELSE Cardinality(S) + Rank(list, rest, k)]

(* The keys past the first n. *)
Beyond(list, n) == {k \in DOMAIN list : list[k] > n}

(* The first n keys. *)
Prefix(list, n) == Keep(list, DOMAIN list \ Beyond(list, n))

(* A value is a list when its positions are exactly 1 .. length. *)
IsList(list) ==
  {list[k] : k \in DOMAIN list} = 1 .. Cardinality(DOMAIN list)
=============================================================================
