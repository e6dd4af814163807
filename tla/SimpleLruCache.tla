--------------------------- MODULE SimpleLruCache ---------------------------
(***************************************************************************)
(* SimpleLruCache.h as it is written: a list walked node by node, with the *)
(* eviction event called from inside the walk.  Two of these lists work    *)
(* together in LruCache: MainCache, whose eviction event refuses locked    *)
(* entries and files the others in the ghost list, and Ghosts, which has   *)
(* no eviction event.                                                      *)
(*                                                                         *)
(* LruCache.tla describes the same operations in one step each, with       *)
(* RecencyList's positions.  MCLruCache checks each of its steps against   *)
(* the walks.  A state of both lists is a record:                          *)
(*   cache     MainCache.Cache, a sequence of keys, the front first        *)
(*   lim       MainCache's MinCapacity, MaxCapacity, Requested- and        *)
(*             RealCapacity                                                *)
(*   ghosts    Ghosts.Cache, a sequence of [key, hot]: hot is ghosted > 0  *)
(*   ghostCap  Ghosts' RealCapacity                                        *)
(*   locked    the keys of MainCache whose entries have locks > 0          *)
(***************************************************************************)
EXTENDS Integers, SequencesExt

CONSTANT GhostsMin \* GHOSTS_MIN_CAPACITY

KeyAt(list, i) == list[i].key
Holds(list, k) == \E i \in DOMAIN list : KeyAt(list, i) = k
IndexIn(list, k) == CHOOSE i \in DOMAIN list : KeyAt(list, i) = k

(* lookup of a key that is in the list: splice to the front. *)
MoveToFront(list, i) == <<list[i]>> \o RemoveAt(list, i)

(* trim of a list without an eviction event: the tail goes. *)
TrimAll(list, cap) == IF Len(list) > cap THEN SubSeq(list, 1, cap) ELSE list

(* Ghosts.lookup: the found ghost first, or, after a trim, a new one. *)
GhostLookup(list, cap, k, hot) ==
  IF Holds(list, k) THEN MoveToFront(list, IndexIn(list, k))
  ELSE <<[key |-> k, hot |-> hot]>> \o TrimAll(list, cap)

(* MainEvictEvent on the node at index i, and the splice that follows when *)
(* it accepts.                                                             *)
EvictEvent(s, i) ==
  LET k == KeyAt(s.cache, i)
      g == GhostLookup(s.ghosts, s.ghostCap, k, TRUE)
  IN  IF k \in s.locked THEN s
      ELSE [s EXCEPT !.cache = RemoveAt(@, i), !.ghosts = [g EXCEPT ![1].hot = TRUE]]

(* trim's loop: n nodes are visited, from the back of the list on. *)
RECURSIVE Visit(_, _, _)
Visit(s, i, n) == IF n = 0 THEN s ELSE Visit(EvictEvent(s, i), i - 1, n - 1)

Trim(s, cap) ==
  IF Len(s.cache) > cap THEN Visit(s, Len(s.cache), Len(s.cache) - cap) ELSE s

Clamp(n, min, max) ==
  LET low == IF n > max THEN max ELSE n
  IN  IF low < min THEN min ELSE low

(* resize: the capacities, then trim. *)
Resize(s, cap) ==
  LET real == Clamp(cap, s.lim.min, s.lim.max)
  IN  Trim([s EXCEPT !.lim.req = cap, !.lim.real = real], real)

-----------------------------------------------------------------------------
(* LruCache.h's calls, the part that changes the lists *)

(* lookup of a key that is in MainCache. *)
Found(s, k) == [s EXCEPT !.cache = MoveToFront(@, IndexIn(@, k))]

(* MainCache.lookup: trim, then a node at the front if there is any room. *)
Inserted(s, k) ==
  LET t == Trim(s, s.lim.real)
  IN  IF s.lim.real # 0 THEN [t EXCEPT !.cache = <<[key |-> k]>> \o @] ELSE t

(* Ghosts.lookup, and the growth when the ghost has been one before. *)
Grown(s, k) ==
  LET t == Inserted(s, k)
      g == GhostLookup(t.ghosts, t.ghostCap, k, FALSE)
      r == Resize([t EXCEPT !.ghosts = g], t.lim.real + 1)
      c == GhostsMin + 2 * r.lim.real
  IN  IF Head(g).hot
      THEN [r EXCEPT !.ghostCap = c, !.ghosts = TrimAll(@, c)]
      ELSE [t EXCEPT !.ghosts = g]

(* lookup of a key that is not, with storage and without. *)
Missed(s, k) == IF s.lim.real # 0 THEN Grown(s, k)
                ELSE [Grown(s, k) EXCEPT !.ghosts[1].hot = TRUE]

(* remove, from rollback. *)
Removed(s, k) == [s EXCEPT !.cache = RemoveAt(@, IndexIn(@, k))]

(* set_limits. *)
Limited(s, min, max) == Resize([s EXCEPT !.lim.min = min, !.lim.max = max], s.lim.req)
=============================================================================
