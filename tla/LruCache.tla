------------------------------ MODULE LruCache ------------------------------
(***************************************************************************)
(* LruCache.h, the concurrent frame cache of AviSynth+, together with the  *)
(* SimpleLruCache.h lists it is made of and the protocol by which          *)
(* Cache::GetFrame (cache.cpp) and the Prefetcher use it.                  *)
(*                                                                         *)
(* A caller looks a frame number up.  The first caller of a number that is *)
(* not resident becomes its producer: it computes the frame outside the    *)
(* mutex, writes it into the entry and commits; callers that arrive in     *)
(* between sleep on the entry's condition variable.  When the computation  *)
(* throws, the producer rolls the entry back.  Every critical section of   *)
(* the cache's mutex is one action; what the code does outside the mutex   *)
(* (the child's GetFrame, the store of the value, the notifications) is an *)
(* action of its own.                                                      *)
(*                                                                         *)
(* Frames are represented by their numbers: the child filter is a function *)
(* of the frame number, and None is the null PVideoFrame.                  *)
(***************************************************************************)
EXTENDS Integers, FiniteSets, RecencyList

CONSTANTS
  Threads,      \* the threads that call the cache
  Keys,         \* the frame numbers of the clip
  Entries,      \* storage for LruEntry objects (the EntryPool's memory)
  InitCapacity, \* the constructor's argument: 0 in cache.cpp
  SizeMax,      \* numeric_limits<size_t>::max(): the bound of the capacity
  GhostsMin,    \* GHOSTS_MIN_CAPACITY: 50 in the code
  Limits,       \* the <<min, max>> pairs that set_limits is called with
  MaxFaults,    \* bound: how often the child may throw
  None          \* a null pointer

ASSUME SetsAssumption == /\ IsFiniteSet(Threads)
                         /\ IsFiniteSet(Keys)
                         /\ None \notin Keys
                         /\ None \notin Entries
ASSUME SizesAssumption == /\ InitCapacity \in Nat
                          /\ SizeMax \in Nat
                          /\ GhostsMin \in Nat \ {0}
                          /\ MaxFaults \in Nat
                          /\ Limits \subseteq (Nat \X Nat)

VARIABLES
  pos,     \* MainCache.Cache: the resident keys, most recent first
  node,    \* MainCache.Cache: the entry each resident key points at
  lim,     \* MainCache's MinCapacity, MaxCapacity, Requested-, RealCapacity
  ghosts,  \* Ghosts: its list, the keys with ghosted > 0, its capacity
  entry,   \* the LruEntry objects
  used,    \* the entries that EntryPool has constructed and not destructed
  pc,      \* where each thread is
  req,     \* the key each thread asked for
  hnd,     \* the entry in each thread's handle
  res,     \* the frame each thread's GetFrame will return
  faults   \* how often the child has thrown

cacheVars == <<pos, node, lim, ghosts>>
vars == <<pos, node, lim, ghosts, entry, used, pc, req, hnd, res, faults>>

EntryStates == {"empty", "available", "rolledback"}

(* The places of a thread inside Cache::GetFrame.                          *)
(*   wait      asleep in ready_cond.wait                                   *)
(*   woken     notified, about to take the mutex again                     *)
(*   compute   lookup returned NOT_FOUND: in the child's GetFrame          *)
(*   stored    the frame is in the entry, commit_value not yet called      *)
(*   notifyall commit_value has unlocked, notify_all not yet called        *)
(*   threw     the child threw, rollback not yet called                    *)
(*   notifyone rollback has unlocked, notify_one not yet called            *)
(*   nocache   lookup returned NO_CACHE: in the child's GetFrame           *)
(*   done      GetFrame returns res                                        *)
Places == {"idle", "wait", "woken", "compute", "stored", "notifyall",
           "threw", "notifyone", "nocache", "done"}

Waiting   == {"wait", "woken"}
Producing == {"compute", "stored", "threw"}
Holding   == Waiting \cup Producing

Resident == DOMAIN node

(* LruEntry's constructor, and reset() in MainEvictEvent. *)
FreshEntry(k) == [key |-> k, value |-> None, locks |-> 0, state |-> "empty"]

(* The entry that lookup hands to a producer, which holds one lock on it. *)
Reserved(k) == [FreshEntry(k) EXCEPT !.locks = 1]

(* SimpleLruCache::resize: the two clamps are those of minmax.h, in their  *)
(* order, so that the minimum wins.                                        *)
Resized(l, cap) ==
  LET low == IF cap > l.max THEN l.max ELSE cap
  IN  [l EXCEPT !.req = cap, !.real = IF low < l.min THEN l.min ELSE low]

Init ==
  /\ pos = EmptyList
  /\ node = [k \in {} |-> None]
  /\ lim = [min |-> 0, max |-> SizeMax, req |-> InitCapacity, real |-> InitCapacity]
  /\ ghosts = [list |-> EmptyList, hot |-> {}, cap |-> GhostsMin]
  /\ entry = [e \in Entries |-> FreshEntry(None)]
  /\ used = {}
  /\ pc = [t \in Threads |-> "idle"]
  /\ req = [t \in Threads |-> None]
  /\ hnd = [t \in Threads |-> None]
  /\ res = [t \in Threads |-> None]
  /\ faults = 0

-----------------------------------------------------------------------------
(* Eviction *)

\* Mutant: MainEvictEvent does not look at the lock count.
Evictable_Always(k) == TRUE

(* MainEvictEvent: an entry somebody holds is not given up. *)
Evictable(k) == entry[node[k]].locks = 0

\* Mutant: the loop starts at the wrong end.
Victims_FromFront(list, cap) ==
  {k \in DOMAIN list \cap Resident :
     list[k] <= Cardinality(DOMAIN list) - cap /\ Evictable(k)}

(* SimpleLruCache::trim with capacity cap: of the nodes past the capacity, *)
(* those that the eviction event accepts.  (A node that lookup has just    *)
(* inserted has no entry yet: it is at the front, and never past it.)      *)
Victims(list, cap) == {k \in Beyond(list, cap) \cap Resident : Evictable(k)}

(* What MainEvictEvent makes of the ghosts g for the victims V, back of    *)
(* the list first: each becomes the front ghost, with ghosted > 0, after a *)
(* trim when it was no ghost yet.                                          *)
GhostsAfter(g, list, V) ==
  LET all  == Stack(list, V, g.list)
      kept == IF V \subseteq DOMAIN g.list THEN all ELSE Prefix(all, g.cap + 1)
  IN  [g EXCEPT !.list = kept, !.hot = (@ \cup V) \cap DOMAIN kept]

(* The entries of the victims, reset and returned to EntryPool. *)
EntriesOf(V) == {node[k] : k \in V}
EntriesAfter(V) ==
  [e \in Entries |-> IF e \in EntriesOf(V) THEN FreshEntry(None) ELSE entry[e]]

\* Mutant: MainEvictEvent does not call EntryPool.Destruct.
UsedAfter_Leaks(V) == used
UsedAfter(V) == used \ EntriesOf(V)

(* The list that a trim evicting V leaves. *)
ListAfter(list, V) == Keep(list, DOMAIN list \ V)

-----------------------------------------------------------------------------
(* lookup *)

Call(t, k, place) == /\ pc[t] = "idle"
                     /\ pc' = [pc EXCEPT ![t] = place]
                     /\ req' = [req EXCEPT ![t] = k]

(* A hit on an entry that is not EMPTY: the value is copied and the lock   *)
(* count raised and lowered within the one critical section.               *)
LookupReady(t, k) ==
  /\ k \in Resident
  /\ entry[node[k]].state # "empty"
  /\ Call(t, k, "done")
  /\ pos' = ToFront(pos, k)
  /\ hnd' = [hnd EXCEPT ![t] = node[k]]
  /\ res' = [res EXCEPT ![t] = entry[node[k]].value]
  /\ UNCHANGED <<node, lim, ghosts, entry, used, faults>>

\* Mutant: a waiter does not count itself in.
LookupWait_NoLock(t, k) ==
  /\ k \in Resident
  /\ entry[node[k]].state = "empty"
  /\ Call(t, k, "wait")
  /\ pos' = ToFront(pos, k)
  /\ hnd' = [hnd EXCEPT ![t] = node[k]]
  /\ UNCHANGED <<node, lim, ghosts, entry, used, res, faults>>

(* A hit on an entry whose producer is at work, by a caller that blocks. *)
LookupWait(t, k) ==
  /\ k \in Resident
  /\ entry[node[k]].state = "empty"
  /\ Call(t, k, "wait")
  /\ pos' = ToFront(pos, k)
  /\ hnd' = [hnd EXCEPT ![t] = node[k]]
  /\ entry' = [entry EXCEPT ![node[k]].locks = @ + 1]
  /\ UNCHANGED <<node, lim, ghosts, used, res, faults>>

(* The same by a caller that does not block (FOUND_BUT_NOTAVAIL): the      *)
(* Prefetcher when it schedules.  The key still moves to the front.        *)
LookupNotAvailable(t, k) ==
  /\ pc[t] = "idle"
  /\ k \in Resident
  /\ entry[node[k]].state # "available"
  /\ pos' = ToFront(pos, k)
  /\ UNCHANGED <<node, lim, ghosts, entry, used, pc, req, hnd, res, faults>>

(* The ghost list's part of a miss on k, after the trim has made g of it:  *)
(* k comes to the front, trimming the list if k was not in it.             *)
GhostSeen(g, k) ==
  IF k \in DOMAIN g.list
  THEN [g EXCEPT !.list = ToFront(@, k)]
  ELSE LET kept == Prefix(g.list, g.cap)
       IN  [g EXCEPT !.list = ToFront(kept, k), !.hot = @ \cap DOMAIN kept]

\* Mutant: MainCache.resize does not trim.
GrowthVictims_None(g, k, list) == {}

(* A key that was evicted, or was not cached, not long ago is asked for    *)
(* again: both lists grow.  MainCache.resize trims once more, and when the *)
(* capacity is at its maximum it evicts the node that lookup's own trim,   *)
(* which ran before the insertion, had left at the back.                   *)
GrownLimits(g, k) == IF k \in g.hot THEN Resized(lim, lim.real + 1) ELSE lim

GrowthVictims(g, k, list) ==
  IF k \in g.hot THEN Victims(list, GrownLimits(g, k).real) ELSE {}

GrownGhosts(g, k, list) ==
  IF k \in g.hot
  THEN LET cap  == GhostsMin + 2 * GrownLimits(g, k).real
           h    == GhostsAfter(g, list, GrowthVictims(g, k, list))
           kept == Prefix(h.list, cap)
       IN  [list |-> kept, hot |-> h.hot \cap DOMAIN kept, cap |-> cap]
  ELSE g

(* A miss with storage (NOT_FOUND): the caller becomes the producer.       *)
(* EntryPool hands out some object that is not in use.                     *)
LookupMiss(t, k) ==
  LET V    == Victims(pos, lim.real)
      g    == GhostSeen(GhostsAfter(ghosts, pos, V), k)
      list == ToFront(ListAfter(pos, V), k)
      W    == V \cup GrowthVictims(g, k, list)
  IN  /\ k \notin Resident
      /\ lim.real # 0
      /\ Call(t, k, "compute")
      /\ lim' = GrownLimits(g, k)
      /\ ghosts' = GrownGhosts(g, k, list)
      /\ pos' = ListAfter(list, W)
      /\ \E e \in Entries \ UsedAfter(W) :
           /\ node' = [j \in (Resident \ W) \cup {k} |-> IF j = k THEN e ELSE node[j]]
           /\ entry' = [EntriesAfter(W) EXCEPT ![e] = Reserved(k)]
           /\ used' = UsedAfter(W) \cup {e}
           /\ hnd' = [hnd EXCEPT ![t] = e]
      /\ UNCHANGED <<res, faults>>

(* A miss without storage (NO_CACHE): the capacity is 0, the caller        *)
(* computes for itself, and the number becomes a ghost with ghosted > 0.   *)
(* Here resize's trim finds nothing: lookup's has evicted all it could.    *)
LookupNoCache(t, k) ==
  LET V     == Victims(pos, 0)
      g     == GhostSeen(GhostsAfter(ghosts, pos, V), k)
      grown == GrownGhosts(g, k, ListAfter(pos, V))
  IN  /\ k \notin Resident
      /\ lim.real = 0
      /\ Call(t, k, "nocache")
      /\ lim' = GrownLimits(g, k)
      /\ ghosts' = [grown EXCEPT !.hot = (@ \cup {k}) \cap DOMAIN grown.list]
      /\ pos' = ListAfter(pos, V)
      /\ node' = [j \in Resident \ V |-> node[j]]
      /\ entry' = EntriesAfter(V)
      /\ used' = UsedAfter(V)
      /\ hnd' = [hnd EXCEPT ![t] = None]
      /\ UNCHANGED <<res, faults>>

Lookup(t) == \E k \in Keys : \/ LookupReady(t, k)
                             \/ LookupWait(t, k)
                             \/ LookupNotAvailable(t, k)
                             \/ LookupMiss(t, k)
                             \/ LookupNoCache(t, k)

-----------------------------------------------------------------------------
(* Waiting on an entry *)

SpuriousWakeup(t) ==
  /\ pc[t] = "wait"
  /\ pc' = [pc EXCEPT ![t] = "woken"]
  /\ UNCHANGED <<cacheVars, entry, used, req, hnd, res, faults>>

(* The body of the wait loop, with the mutex held again, when the entry is *)
(* available: the value is copied before the lock count drops.             *)
TakeValue(t) ==
  /\ pc[t] = "woken"
  /\ entry[hnd[t]].state = "available"
  /\ pc' = [pc EXCEPT ![t] = "done"]
  /\ res' = [res EXCEPT ![t] = entry[hnd[t]].value]
  /\ entry' = [entry EXCEPT ![hnd[t]].locks = @ - 1]
  /\ UNCHANGED <<cacheVars, used, req, hnd, faults>>

(* The same when it is not: a spurious wakeup goes back to sleep, and so   *)
(* does the waiter that finds the entry rolled back, having made it EMPTY. *)
WaitAgain(t) ==
  /\ pc[t] = "woken"
  /\ entry[hnd[t]].state # "available"
  /\ pc' = [pc EXCEPT ![t] = "wait"]
  /\ entry' = [entry EXCEPT ![hnd[t]].state = "empty"]
  /\ UNCHANGED <<cacheVars, used, req, hnd, res, faults>>

-----------------------------------------------------------------------------
(* Producing a frame *)

(* The child returns: the frame goes to the caller's result and, outside   *)
(* the mutex, into the entry.                                              *)
ChildReturns(t) ==
  /\ pc[t] = "compute"
  /\ pc' = [pc EXCEPT ![t] = "stored"]
  /\ res' = [res EXCEPT ![t] = req[t]]
  /\ entry' = [entry EXCEPT ![hnd[t]].value = req[t]]
  /\ UNCHANGED <<cacheVars, used, req, hnd, faults>>

(* commit_value's critical section. *)
CommitValue(t) ==
  /\ pc[t] = "stored"
  /\ pc' = [pc EXCEPT ![t] = "notifyall"]
  /\ entry' = [entry EXCEPT ![hnd[t]].state = "available", ![hnd[t]].locks = @ - 1]
  /\ UNCHANGED <<cacheVars, used, req, hnd, res, faults>>

\* Mutants: the producer takes its result from the entry after the commit;
\* notify_one in place of notify_all.
NotifyAll_ReadsEntry(t) ==
  /\ pc[t] = "notifyall"
  /\ pc' = [u \in Threads |->
              IF u = t THEN "done"
              ELSE IF pc[u] = "wait" /\ hnd[u] = hnd[t] THEN "woken" ELSE pc[u]]
  /\ res' = [res EXCEPT ![t] = entry[hnd[t]].value]
  /\ UNCHANGED <<cacheVars, entry, used, req, hnd, faults>>
NotifyAll_WakesOne(t) ==
  LET sleepers == {u \in Threads : pc[u] = "wait" /\ hnd[u] = hnd[t]}
      after == [pc EXCEPT ![t] = "done"]
  IN  /\ pc[t] = "notifyall"
      /\ \/ sleepers = {} /\ pc' = after
         \/ \E u \in sleepers : pc' = [after EXCEPT ![u] = "woken"]
      /\ UNCHANGED <<cacheVars, entry, used, req, hnd, res, faults>>

(* commit_value after its unlock: everybody asleep on the entry's          *)
(* condition variable wakes up.                                            *)
NotifyAll(t) ==
  /\ pc[t] = "notifyall"
  /\ pc' = [u \in Threads |->
              IF u = t THEN "done"
              ELSE IF pc[u] = "wait" /\ hnd[u] = hnd[t] THEN "woken" ELSE pc[u]]
  /\ UNCHANGED <<cacheVars, entry, used, req, hnd, res, faults>>

ChildThrows(t) ==
  /\ pc[t] \in {"compute", "nocache"}
  /\ faults < MaxFaults
  /\ faults' = faults + 1
  /\ IF pc[t] = "compute"
     THEN /\ pc' = [pc EXCEPT ![t] = "threw"]
          /\ UNCHANGED <<req, hnd>>
     ELSE /\ pc' = [pc EXCEPT ![t] = "idle"]
          /\ req' = [req EXCEPT ![t] = None]
          /\ hnd' = [hnd EXCEPT ![t] = None]
  /\ UNCHANGED <<cacheVars, entry, used, res>>

\* Mutant: rollback does not look at the lock count.
RollbackRemoves_Always(t) ==
  /\ pc[t] = "threw"
  /\ LET rest == Resident \ {entry[hnd[t]].key}
     IN  /\ pos' = Keep(pos, rest)
         /\ node' = [k \in rest |-> node[k]]
  /\ pc' = [pc EXCEPT ![t] = "idle"]
  /\ req' = [req EXCEPT ![t] = None]
  /\ hnd' = [hnd EXCEPT ![t] = None]
  /\ UNCHANGED <<lim, ghosts, entry, used, res, faults>>

(* rollback by the only holder: the node goes, and its entry is not handed *)
(* back to EntryPool.                                                      *)
RollbackRemoves(t) ==
  /\ pc[t] = "threw"
  /\ entry[hnd[t]].locks = 1
  /\ LET rest == Resident \ {entry[hnd[t]].key}
     IN  /\ pos' = Keep(pos, rest)
         /\ node' = [k \in rest |-> node[k]]
  /\ pc' = [pc EXCEPT ![t] = "idle"]
  /\ req' = [req EXCEPT ![t] = None]
  /\ hnd' = [hnd EXCEPT ![t] = None]
  /\ UNCHANGED <<lim, ghosts, entry, used, res, faults>>

(* rollback while others wait: its critical section ... *)
RollbackHandsOver(t) ==
  /\ pc[t] = "threw"
  /\ entry[hnd[t]].locks # 1
  /\ pc' = [pc EXCEPT ![t] = "notifyone"]
  /\ entry' = [entry EXCEPT ![hnd[t]].state = "rolledback", ![hnd[t]].locks = @ - 1]
  /\ UNCHANGED <<cacheVars, used, req, hnd, res, faults>>

(* ... and its notification of one sleeper, if there is one. *)
NotifyOne(t) ==
  LET sleepers == {u \in Threads : pc[u] = "wait" /\ hnd[u] = hnd[t]}
      after == [pc EXCEPT ![t] = "idle"]
  IN  /\ pc[t] = "notifyone"
      /\ \/ sleepers = {} /\ pc' = after
         \/ \E u \in sleepers : pc' = [after EXCEPT ![u] = "woken"]
      /\ req' = [req EXCEPT ![t] = None]
      /\ hnd' = [hnd EXCEPT ![t] = None]
      /\ UNCHANGED <<cacheVars, entry, used, res, faults>>

(* The uncached computation returns. *)
ChildReturnsUncached(t) ==
  /\ pc[t] = "nocache"
  /\ pc' = [pc EXCEPT ![t] = "done"]
  /\ res' = [res EXCEPT ![t] = req[t]]
  /\ UNCHANGED <<cacheVars, entry, used, req, hnd, faults>>

(* GetFrame returns to its caller. *)
Return(t) ==
  /\ pc[t] = "done"
  /\ pc' = [pc EXCEPT ![t] = "idle"]
  /\ req' = [req EXCEPT ![t] = None]
  /\ hnd' = [hnd EXCEPT ![t] = None]
  /\ res' = [res EXCEPT ![t] = None]
  /\ UNCHANGED <<cacheVars, entry, used, faults>>

-----------------------------------------------------------------------------
(* set_limits, called by SetCacheHints: resize to the requested capacity   *)
(* under the new limits, with resize's trim.                               *)
SetLimits(min, max) ==
  LET l == Resized([lim EXCEPT !.min = min, !.max = max], lim.req)
      V == Victims(pos, l.real)
  IN  /\ lim' = l
      /\ ghosts' = GhostsAfter(ghosts, pos, V)
      /\ pos' = ListAfter(pos, V)
      /\ node' = [k \in Resident \ V |-> node[k]]
      /\ entry' = EntriesAfter(V)
      /\ used' = UsedAfter(V)
      /\ UNCHANGED <<pc, req, hnd, res, faults>>

-----------------------------------------------------------------------------
(* The steps that a thread inside GetFrame takes on its own. *)
Proceed(t) == \/ TakeValue(t)
              \/ WaitAgain(t)
              \/ ChildReturns(t)
              \/ CommitValue(t)
              \/ NotifyAll(t)
              \/ RollbackRemoves(t)
              \/ RollbackHandsOver(t)
              \/ NotifyOne(t)
              \/ ChildReturnsUncached(t)
              \/ Return(t)

Next == \/ \E t \in Threads : Lookup(t) \/ SpuriousWakeup(t) \/ ChildThrows(t) \/ Proceed(t)
        \/ \E l \in Limits : SetLimits(l[1], l[2])

Spec == Init /\ [][Next]_vars

(* A thread that can run is eventually scheduled and child filters return. *)
(* Nothing obliges a caller to call, a wakeup to be spurious or the child  *)
(* to throw.                                                               *)
FairSpec == Spec /\ \A t \in Threads : WF_vars(Proceed(t))
-----------------------------------------------------------------------------
(* Properties *)

Frames == Keys \cup {None}
EntryType == [key : Frames, value : Frames, locks : Nat, state : EntryStates]

(* A list of frame numbers: keys with their positions. *)
ListOfKeys(list) == DOMAIN list \subseteq Keys /\ list \in [DOMAIN list -> Nat]

(* Every variable holds values of its type; in particular no lock count    *)
(* (a size_t) is ever taken below zero.                                    *)
TypeOK ==
  /\ ListOfKeys(pos)
  /\ DOMAIN pos = Resident
  /\ node \in [Resident -> Entries]
  /\ lim \in [min : Nat, max : Nat, req : Nat, real : Nat]
  /\ ghosts = [list |-> ghosts.list, hot |-> ghosts.hot, cap |-> ghosts.cap]
  /\ ListOfKeys(ghosts.list) /\ ghosts.cap \in Nat
  /\ ghosts.hot \subseteq DOMAIN ghosts.list
  /\ entry \in [Entries -> EntryType]
  /\ used \subseteq Entries
  /\ pc \in [Threads -> Places]
  /\ req \in [Threads -> Frames]
  /\ hnd \in [Threads -> Entries \cup {None}]
  /\ res \in [Threads -> Frames]
  /\ faults \in Nat

Holders(e) == {t \in Threads : pc[t] \in Holding /\ hnd[t] = e}

(* An entry that a thread waits on or fills is still the resident entry of *)
(* the key the thread asked for: trim, set_limits, rollback and the reuse  *)
(* of pooled entries never pull it away from under a thread that left the  *)
(* mutex with a pointer to it.                                             *)
HeldEntryStays ==
  \A t \in Threads : pc[t] \in Holding =>
    /\ req[t] \in Resident
    /\ node[req[t]] = hnd[t]
    /\ hnd[t] \in used

(* The lock count of a resident entry is the number of threads inside      *)
(* GetFrame that still need it, so that it returns to 0 (and the entry can *)
(* be evicted again) exactly when the last of them is through.             *)
LocksCountHolders ==
  \A k \in Resident : entry[node[k]].locks = Cardinality(Holders(node[k]))

(* While the cache has storage for a frame no two threads compute it: the  *)
(* second caller waits for the first.                                      *)
SingleFlight ==
  \A t, u \in Threads :
    pc[t] \in Producing /\ pc[u] \in Producing /\ req[t] = req[u] => t = u

(* An entry that lookup would serve without waiting holds its own frame.   *)
AvailableIsFilled ==
  \A k \in Resident : entry[node[k]].state = "available" => entry[node[k]].value = k

(* Even when producers fail, GetFrame never returns another key's frame:   *)
(* at worst the null frame.                                                *)
NeverAnotherFrame ==
  \A t \in Threads : pc[t] = "done" => res[t] \in {req[t], None}

(* Locked entries may overfill the cache, but by no more than one entry    *)
(* per thread.  The ghost list is trimmed before an insertion only, so     *)
(* that it holds one ghost more than its capacity at most, however the     *)
(* main list grows and shrinks.  The positions of both have no gaps.       *)
ListsBounded == /\ IsList(pos) /\ IsList(ghosts.list)
                /\ Cardinality(Resident) <= lim.real + Cardinality(Threads)
                /\ Cardinality(DOMAIN ghosts.list) <= ghosts.cap + 1

(* Entries are not shared, and those in use are the resident ones and at   *)
(* most one for each failure that has been rolled back: rollback does not  *)
(* give its entry to the pool.                                             *)
NoEntryLeaks ==
  LET resident == {node[k] : k \in Resident}
  IN  /\ resident \subseteq used
      /\ Cardinality(used \ resident) + Cardinality({t \in Threads : pc[t] = "threw"}) <= faults
      /\ \A j, k \in Resident : node[j] = node[k] => j = k

(* Together: neither the lists nor the entries grow for ever.              *)
NothingGrows == ListsBounded /\ NoEntryLeaks

(* An eviction never takes a key while it keeps a less recently used one   *)
(* that nobody holds.                                                      *)
EvictsOldestFirst ==
  [][\A k \in Resident \ Resident', j \in Resident \cap Resident' :
       Evictable(k) /\ pos[j] > pos[k] => ~Evictable(j)]_vars

(* A waiter whose producer has failed: nobody makes its frame. *)
Stranded(t) ==
  /\ faults > 0
  /\ pc[t] \in Waiting /\ entry[hnd[t]].state # "available"
  /\ \A u \in Threads : pc[u] \in Producing => hnd[u] # hnd[t]

(* Every GetFrame call returns, and no waiter is forgotten, except those   *)
(* that a failure leaves stranded.                                         *)
EveryCallReturns == \A t \in Threads : pc[t] # "idle" ~> pc[t] = "idle" \/ Stranded(t)

-----------------------------------------------------------------------------
(* The inductive invariant behind HeldEntryStays, LocksCountHolders,       *)
(* SingleFlight, AvailableIsFilled and NeverAnotherFrame: lock counts,     *)
(* entries, states and values agree with what the threads are doing.       *)

(* A resident key's entry is in use and knows its key: no two keys share   *)
(* one.                                                                    *)
NodesOwnEntries ==
  \A k \in Resident : node[k] \in used /\ entry[node[k]].key = k

ValuesMatchKeys ==
  \A k \in Resident : entry[node[k]].value \in {None, k}

(* The producer's result is set before the entry is committed.             *)
ProducersHoldResults ==
  \A t \in Threads :
    /\ pc[t] \in {"stored", "notifyall"} => res[t] = req[t]
    /\ pc[t] = "stored" => entry[hnd[t]].value = req[t]

IInv == /\ TypeOK
        /\ NodesOwnEntries
        /\ HeldEntryStays
        /\ LocksCountHolders
        /\ SingleFlight
        /\ ValuesMatchKeys
        /\ AvailableIsFilled
        /\ ProducersHoldResults
        /\ NeverAnotherFrame
-----------------------------------------------------------------------------
(* LruCache seen as the memory of frames that FrameMemo describes.         *)

MemoOf(k) == IF k \notin Resident THEN "absent"
             ELSE CASE entry[node[k]].state = "available"  -> "ready"
                    [] entry[node[k]].state = "rolledback" -> "abandoned"
                    [] OTHER                               -> "busy"

PhaseOf(t) == CASE pc[t] \in {"compute", "stored"} -> "making"
                [] pc[t] = "notifyall"             -> "made"
                [] pc[t] \in Waiting               -> "waiting"
                [] pc[t] = "nocache"               -> "alone"
                [] pc[t] = "threw"                 -> "failed"
                [] pc[t] = "notifyone"             -> "leaving"
                [] pc[t] = "done"                  -> "answered"
                [] OTHER                           -> "idle"

AnswerOf(t) == IF pc[t] = "done" THEN res[t] ELSE None

MemoNow   == [k \in Keys |-> MemoOf(k)]
PhaseNow  == [t \in Threads |-> PhaseOf(t)]
AnswerNow == [t \in Threads |-> AnswerOf(t)]

Memo == INSTANCE FrameMemo WITH
          memo <- MemoNow, phase <- PhaseNow, asked <- req, answer <- AnswerNow
=============================================================================
