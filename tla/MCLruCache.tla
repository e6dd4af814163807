----------------------------- MODULE MCLruCache -----------------------------
(* LruCache for TLC: small instances, LruCache seen as an implementation   *)
(* of FrameMemo, and the comparison with the list walks of SimpleLruCache. *)
EXTENDS LruCache, TLC

CONSTANTS t1, t2, t3, k1, k2, k3, e1, e2, e3, e4

TwoThreads   == {t1, t2}
ThreeThreads == {t1, t2, t3}
TwoKeys      == {k1, k2}
ThreeKeys    == {k1, k2, k3}
ThreeEntries == {e1, e2, e3}
FourEntries  == {e1, e2, e3, e4}

NoLimits     == {}
\* SET_MIN_CAPACITY 1 and SET_MAX_CAPACITY 0 or 1
TightLimits  == {<<0, 0>>, <<0, 1>>, <<1, 1>>}

Symmetric == Permutations(TwoThreads) \cup Permutations(ThreeKeys) \cup Permutations(FourEntries)

-----------------------------------------------------------------------------
(* Cache::GetFrame over LruCache implements the frame memory, whatever     *)
(* fails: that every request is answered, too, but for those of abandoned  *)
(* frames.                                                                 *)
ImplementsFrameMemo == Memo!MemoSpec

-----------------------------------------------------------------------------
Walk == INSTANCE SimpleLruCache

(* LruCache's lists as SimpleLruCache has them. *)
InOrder(list) == [i \in 1 .. Cardinality(DOMAIN list) |-> CHOOSE k \in DOMAIN list : list[k] = i]
Lists == [cache    |-> [i \in 1 .. Cardinality(DOMAIN pos) |-> [key |-> InOrder(pos)[i]]],
          lim      |-> lim,
          ghosts   |-> [i \in 1 .. Cardinality(DOMAIN ghosts.list) |->
                          [key |-> InOrder(ghosts.list)[i],
                           hot |-> InOrder(ghosts.list)[i] \in ghosts.hot]],
          ghostCap |-> ghosts.cap,
          locked   |-> {k \in Resident : entry[node[k]].locks > 0}]

ListsBecome(s) == \A field \in {"cache", "lim", "ghosts", "ghostCap"} : Lists'[field] = s[field]

(* Every operation, walked node by node as the code does it, leaves the    *)
(* lists that the step of LruCache.tla leaves: the same victims, the same  *)
(* order, the same ghosts, the same capacities, and the node that lookup   *)
(* has just inserted, whose entry pointer is not yet set, is never walked  *)
(* over.                                                                   *)
ListsAgree ==
  [][/\ \A t \in Threads, k \in Keys :
          /\ pc[t] = "idle" /\ req'[t] = k =>
               ListsBecome(IF k \in Resident THEN Walk!Found(Lists, k) ELSE Walk!Missed(Lists, k))
          /\ LookupNotAvailable(t, k) => ListsBecome(Walk!Found(Lists, k))
          /\ RollbackRemoves(t) /\ req[t] = k => ListsBecome(Walk!Removed(Lists, k))
     /\ \A l \in Limits : SetLimits(l[1], l[2]) => ListsBecome(Walk!Limited(Lists, l[1], l[2]))]_vars

-----------------------------------------------------------------------------
(* What the source says and the code does not keep; TLC has refuted it.    *)

(* Of a producer that steps back while others wait: "another one will have *)
(* to take over" (rollback), "we take over his place" (lookup).            *)
RolledBackIsTakenOver ==
  \A e \in Entries :
    entry[e].state = "rolledback" ~>
      \E t \in Threads : pc[t] \in {"compute", "stored", "notifyall"} /\ hnd[t] = e

(* Of FOUND_AND_READY: "Item has been found and returned", and the caller  *)
(* asserts a non-null result.                                              *)
FoundIsReturned == \A t \in Threads : pc[t] = "done" => res[t] # None
=============================================================================
