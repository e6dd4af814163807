--------------------------- MODULE LruCacheProofs ---------------------------
(***************************************************************************)
(* What LruCache guarantees for any number of threads, keys and entries,   *)
(* any capacities and limits, and any number of failing producers.         *)
(***************************************************************************)
EXTENDS LruCache, FiniteSetTheorems, TLAPS

-----------------------------------------------------------------------------
(* The lists stay lists: positions are natural numbers. *)

(* The rank of a key in a list (RecencyList) counts a finite set.          *)
LEMMA RankType ==
  ASSUME NEW list, NEW S \in SUBSET Keys, NEW k
  PROVE  Rank(list, S, k) \in Nat
<1>1. IsFiniteSet({j \in S : list[j] <= list[k]})
  BY SetsAssumption, FS_Subset
<1>2. QED
  BY <1>1, FS_CardinalityType DEF Rank

(* Dropping keys from a list, as trim and rollback do, leaves a list of    *)
(* those that remain.                                                      *)
LEMMA KeepType ==
  ASSUME NEW list, NEW S \in SUBSET Keys
  PROVE  /\ Keep(list, S) \in [S -> Nat]
         /\ ListOfKeys(Keep(list, S))
BY RankType DEF Keep, ListOfKeys

(* Moving or inserting a key at the front, as SimpleLruCache::lookup       *)
(* does, leaves a list with that key added.                                *)
LEMMA ToFrontType ==
  ASSUME NEW list, NEW k \in Keys, ListOfKeys(list)
  PROVE  /\ ListOfKeys(ToFront(list, k))
         /\ DOMAIN ToFront(list, k) = DOMAIN list \cup {k}
<1>1. DOMAIN list \in SUBSET Keys
  BY DEF ListOfKeys
<1> DEFINE rest == DOMAIN list \ {k}
<1>2. \A j \in rest \cup {k} : 1 + Rank(list, rest, j) \in Nat
  BY <1>1, RankType
<1>3. ToFront(list, k) \in [rest \cup {k} -> Nat]
  BY <1>2 DEF ToFront
<1>4. rest \cup {k} \in SUBSET Keys
  BY <1>1
<1>5. QED
  BY <1>3, <1>4 DEF ListOfKeys

(* Pushing evicted keys on the front of the ghost list leaves a list of    *)
(* both.                                                                   *)
LEMMA StackType ==
  ASSUME NEW from, NEW S \in SUBSET Keys, NEW list, ListOfKeys(list)
  PROVE  /\ ListOfKeys(Stack(from, S, list))
         /\ DOMAIN Stack(from, S, list) = DOMAIN list \cup S
<1>1. DOMAIN list \in SUBSET Keys
  BY DEF ListOfKeys
<1> DEFINE rest == DOMAIN list \ S
<1>2. Cardinality(S) \in Nat
  BY SetsAssumption, FS_Subset, FS_CardinalityType
<1>3. \A k \in S \cup rest : Rank(from, S, k) \in Nat /\ Rank(list, rest, k) \in Nat
  BY <1>1, RankType
<1>4. Stack(from, S, list) \in [S \cup rest -> Nat]
  BY <1>2, <1>3 DEF Stack
<1>5. S \cup rest \in SUBSET Keys
  BY <1>1
<1>6. QED
  BY <1>4, <1>5 DEF ListOfKeys

(* Trimming a ghost list, whose nodes can all be evicted, leaves a list    *)
(* of some of its keys.                                                    *)
LEMMA PrefixType ==
  ASSUME NEW list, NEW n, ListOfKeys(list)
  PROVE  /\ ListOfKeys(Prefix(list, n))
         /\ DOMAIN Prefix(list, n) \subseteq DOMAIN list
<1>1. DOMAIN list \ Beyond(list, n) \in SUBSET Keys
  BY DEF ListOfKeys
<1>2. QED
  BY <1>1, KeepType DEF Prefix, Keep

-----------------------------------------------------------------------------
(* The parts of the larger actions keep their types. *)

(* SimpleLruCache::resize keeps the capacities natural numbers.            *)
LEMMA ResizedType ==
  ASSUME NEW l \in [min : Nat, max : Nat, req : Nat, real : Nat], NEW cap \in Nat
  PROVE  Resized(l, cap) \in [min : Nat, max : Nat, req : Nat, real : Nat]
BY DEF Resized

GhostsOK(g) == /\ g = [list |-> g.list, hot |-> g.hot, cap |-> g.cap]
               /\ ListOfKeys(g.list) /\ g.cap \in Nat
               /\ g.hot \subseteq DOMAIN g.list

(* MainEvictEvent keeps the ghosts well-formed: ghosted > 0 only for keys  *)
(* in their list.                                                          *)
LEMMA GhostsAfterType ==
  ASSUME NEW g, GhostsOK(g), NEW list, NEW V \in SUBSET Keys
  PROVE  GhostsOK(GhostsAfter(g, list, V))
<1> DEFINE all  == Stack(list, V, g.list)
           kept == IF V \subseteq DOMAIN g.list THEN all ELSE Prefix(all, g.cap + 1)
<1>1. ListOfKeys(all)
  BY StackType DEF GhostsOK
<1>2. ListOfKeys(kept)
  BY <1>1, PrefixType
<1>3. GhostsAfter(g, list, V) = [g EXCEPT !.list = kept, !.hot = (@ \cup V) \cap DOMAIN kept]
  BY DEF GhostsAfter
<1> HIDE DEF kept
<1>4. QED
  BY <1>2, <1>3 DEF GhostsOK

(* Looking a missed key up in the ghost list keeps the ghosts well-        *)
(* formed.                                                                 *)
LEMMA GhostSeenType ==
  ASSUME NEW g, GhostsOK(g), NEW k \in Keys
  PROVE  GhostsOK(GhostSeen(g, k))
<1> DEFINE kept == Prefix(g.list, g.cap)
<1>1. ListOfKeys(ToFront(g.list, k)) /\ DOMAIN ToFront(g.list, k) = DOMAIN g.list \cup {k}
  BY ToFrontType DEF GhostsOK
<1>2. ListOfKeys(kept)
  BY PrefixType DEF GhostsOK
<1>3. ListOfKeys(ToFront(kept, k)) /\ DOMAIN ToFront(kept, k) = DOMAIN kept \cup {k}
  BY <1>2, ToFrontType
<1> HIDE DEF kept
<1>4. GhostSeen(g, k) = IF k \in DOMAIN g.list THEN [g EXCEPT !.list = ToFront(@, k)]
                        ELSE [g EXCEPT !.list = ToFront(kept, k), !.hot = @ \cap DOMAIN kept]
  BY DEF GhostSeen, kept
<1>5. QED
  BY <1>1, <1>3, <1>4 DEF GhostsOK

Capacities == [min : Nat, max : Nat, req : Nat, real : Nat]

(* Growing the main list after a hit on a ghost keeps the capacities       *)
(* natural numbers.                                                        *)
LEMMA GrownLimitsType ==
  ASSUME TypeOK, NEW g, NEW k
  PROVE  GrownLimits(g, k) \in Capacities
<1>1. lim \in Capacities /\ lim.real + 1 \in Nat
  BY DEF TypeOK, Capacities
<1>2. QED
  BY <1>1, ResizedType DEF GrownLimits, Capacities

(* Growing after a hit on a ghost keeps the ghosts well-formed, and        *)
(* evicts only entries nobody holds.                                       *)
LEMMA GrownGhostsType ==
  ASSUME TypeOK, NEW g, GhostsOK(g), NEW k, NEW list
  PROVE  /\ GhostsOK(GrownGhosts(g, k, list))
         /\ GrowthVictims(g, k, list) \subseteq {j \in Resident : Evictable(j)}
<1> DEFINE W    == GrowthVictims(g, k, list)
           h    == GhostsAfter(g, list, W)
           cap  == GhostsMin + 2 * GrownLimits(g, k).real
           kept == Prefix(h.list, cap)
<1>1. W \subseteq {j \in Resident : Evictable(j)}
  BY DEF GrowthVictims, Victims
<1>2. W \in SUBSET Keys
  BY <1>1 DEF TypeOK, ListOfKeys
<1>3. GhostsOK(h)
  <2> HIDE DEF W
  <2>1. QED
    BY <1>2, GhostsAfterType
<1>4. cap \in Nat
  BY SizesAssumption, GrownLimitsType DEF Capacities
<1>5. ListOfKeys(kept)
  <2> HIDE DEF h
  <2>1. QED
    BY <1>3, PrefixType DEF GhostsOK
<1>6. GrownGhosts(g, k, list) = IF k \in g.hot
                                THEN [list |-> kept, hot |-> h.hot \cap DOMAIN kept, cap |-> cap]
                                ELSE g
  BY DEF GrownGhosts
<1> HIDE DEF kept, cap, h
<1>7. GhostsOK(GrownGhosts(g, k, list))
  BY <1>4, <1>5, <1>6 DEF GhostsOK
<1>8. QED
  BY <1>1, <1>7

(* An entry has finitely many holders, so that their number is comparable  *)
(* with a lock count.                                                      *)
LEMMA HoldersFinite ==
  ASSUME NEW e
  PROVE  IsFiniteSet(Holders(e)) /\ Cardinality(Holders(e)) \in Nat
BY SetsAssumption, FS_Subset, FS_CardinalityType DEF Holders

(* What trims give up, nobody holds; what they keep, they keep unchanged.  *)
LEMMA Eviction ==
  ASSUME IInv, NEW V, V \subseteq {k \in Resident : Evictable(k)}
  PROVE  /\ V \in SUBSET Keys /\ V \subseteq Resident
         /\ \A t \in Threads : pc[t] \in Holding => req[t] \in Resident \ V
         /\ \A k \in Resident \ V : /\ node[k] \in UsedAfter(V)
                                    /\ EntriesAfter(V)[node[k]] = entry[node[k]]
         /\ EntriesAfter(V) \in [Entries -> EntryType]
         /\ UsedAfter(V) \subseteq Entries
<1>1. V \in SUBSET Resident /\ Resident \subseteq Keys
  BY DEF IInv, TypeOK, ListOfKeys
<1>2. \A k \in V : Holders(node[k]) = {}
  <2>1. \A k \in V : entry[node[k]].locks = 0
    BY DEF Evictable
  <2>2. \A k \in V : Cardinality(Holders(node[k])) = 0
    BY <1>1, <2>1 DEF IInv, LocksCountHolders
  <2>3. QED
    BY <2>2, HoldersFinite, FS_EmptySet
<1>3. \A t \in Threads : pc[t] \in Holding => req[t] \in Resident \ V
  BY <1>2 DEF IInv, HeldEntryStays, Holders
<1>4. \A k \in Resident \ V : node[k] \notin EntriesOf(V)
  BY <1>1 DEF EntriesOf, IInv, NodesOwnEntries
<1>5. \A k \in Resident \ V : node[k] \in UsedAfter(V) /\ EntriesAfter(V)[node[k]] = entry[node[k]]
  BY <1>4 DEF UsedAfter, EntriesAfter, IInv, TypeOK, NodesOwnEntries
<1>6. FreshEntry(None) \in EntryType
  BY DEF FreshEntry, EntryType, Frames, EntryStates
<1>7. EntriesAfter(V) \in [Entries -> EntryType]
  BY <1>6 DEF EntriesAfter, IInv, TypeOK
<1>8. UsedAfter(V) \subseteq Entries
  BY DEF UsedAfter, IInv, TypeOK
<1>9. QED
  BY <1>1, <1>3, <1>5, <1>7, <1>8

(* The list that a trim leaves is a list of the keys that were not         *)
(* evicted.                                                                *)
LEMMA ListAfterType ==
  ASSUME NEW list, ListOfKeys(list), NEW V
  PROVE  ListOfKeys(ListAfter(list, V)) /\ DOMAIN ListAfter(list, V) = DOMAIN list \ V
<1>1. DOMAIN list \ V \in SUBSET Keys
  BY DEF ListOfKeys
<1>2. QED
  BY <1>1, KeepType DEF ListAfter

-----------------------------------------------------------------------------
(* One lemma per kind of step. *)


(* A spurious wakeup of ready_cond.wait keeps the invariant.               *)
LEMMA SpuriousWakeupStep ==
  ASSUME IInv, NEW t \in Threads, SpuriousWakeup(t)
  PROVE  IInv'
<1> USE DEF IInv, SpuriousWakeup, cacheVars
<1>1. \A e : Holders(e)' = Holders(e)
  BY DEF Holders, Holding, Waiting, Producing, TypeOK
<1>2. TypeOK'
  BY DEF TypeOK, Places, ListOfKeys, Resident
<1>3. NodesOwnEntries' /\ ValuesMatchKeys' /\ AvailableIsFilled'
  BY DEF NodesOwnEntries, ValuesMatchKeys, AvailableIsFilled, Resident
<1>4. HeldEntryStays'
  BY DEF HeldEntryStays, Holding, Waiting, Producing, Resident, TypeOK
<1>5. LocksCountHolders'
  BY <1>1 DEF LocksCountHolders, Resident
<1>6. SingleFlight' /\ ProducersHoldResults' /\ NeverAnotherFrame'
  BY DEF SingleFlight, ProducersHoldResults, NeverAnotherFrame, Producing, TypeOK
<1>7. QED
  BY <1>2, <1>3, <1>4, <1>5, <1>6

(* A hit that lookup serves without waiting keeps the invariant: it        *)
(* returns the value of the entry it found, whose key is the caller's.     *)
LEMMA LookupReadyStep ==
  ASSUME IInv, NEW t \in Threads, NEW k \in Keys, LookupReady(t, k)
  PROVE  IInv'
<1>0. ListOfKeys(ToFront(pos, k)) /\ DOMAIN ToFront(pos, k) = Resident
  <2>1. ListOfKeys(pos) /\ DOMAIN pos = Resident /\ k \in Resident
    BY DEF IInv, TypeOK, LookupReady
  <2>2. QED
    BY <2>1, ToFrontType
<1> USE DEF IInv, LookupReady, Call
<1>1. \A e : Holders(e)' = Holders(e)
  BY DEF Holders, Holding, Waiting, Producing, TypeOK
<1>2. TypeOK'
  <2>1. ListOfKeys(pos)' /\ DOMAIN pos' = Resident'
    BY <1>0 DEF ListOfKeys, Resident
  <2>2. entry[node[k]].value \in Frames /\ node[k] \in Entries
    BY DEF TypeOK, EntryType
  <2>3. QED
    BY <2>1, <2>2 DEF TypeOK, Places, Frames, ListOfKeys, Resident
<1>3. NodesOwnEntries' /\ ValuesMatchKeys' /\ AvailableIsFilled'
  BY DEF NodesOwnEntries, ValuesMatchKeys, AvailableIsFilled, Resident
<1>4. HeldEntryStays'
  BY DEF HeldEntryStays, Holding, Waiting, Producing, Resident, TypeOK
<1>5. LocksCountHolders'
  BY <1>1 DEF LocksCountHolders, Resident
<1>6. SingleFlight' /\ ProducersHoldResults'
  BY DEF SingleFlight, ProducersHoldResults, Producing, TypeOK
<1>7. NeverAnotherFrame'
  BY DEF NeverAnotherFrame, ValuesMatchKeys, TypeOK
<1>8. QED
  BY <1>2, <1>3, <1>4, <1>5, <1>6, <1>7

(* A lookup that reports FOUND_BUT_NOTAVAIL keeps the invariant: only the  *)
(* list's order changes.                                                   *)
LEMMA LookupNotAvailableStep ==
  ASSUME IInv, NEW t \in Threads, NEW k \in Keys, LookupNotAvailable(t, k)
  PROVE  IInv'
<1>0. ListOfKeys(ToFront(pos, k)) /\ DOMAIN ToFront(pos, k) = Resident
  <2>1. ListOfKeys(pos) /\ DOMAIN pos = Resident /\ k \in Resident
    BY DEF IInv, TypeOK, LookupNotAvailable
  <2>2. QED
    BY <2>1, ToFrontType
<1> USE DEF IInv, LookupNotAvailable
<1>1. \A e : Holders(e)' = Holders(e)
  BY DEF Holders
<1>2. TypeOK'
  <2>1. ListOfKeys(pos)' /\ DOMAIN pos' = Resident'
    BY <1>0 DEF ListOfKeys, Resident
  <2>2. QED
    BY <2>1 DEF TypeOK, ListOfKeys, Resident
<1>3. NodesOwnEntries' /\ ValuesMatchKeys' /\ AvailableIsFilled'
  BY DEF NodesOwnEntries, ValuesMatchKeys, AvailableIsFilled, Resident
<1>4. HeldEntryStays' /\ LocksCountHolders'
  BY <1>1 DEF HeldEntryStays, LocksCountHolders, Resident
<1>5. SingleFlight' /\ ProducersHoldResults' /\ NeverAnotherFrame'
  BY DEF SingleFlight, ProducersHoldResults, NeverAnotherFrame
<1>6. QED
  BY <1>2, <1>3, <1>4, <1>5

(* A caller that starts to wait on an entry keeps the invariant: it        *)
(* raises the lock count by one and becomes one more holder.               *)
LEMMA LookupWaitStep ==
  ASSUME IInv, NEW t \in Threads, NEW k \in Keys, LookupWait(t, k)
  PROVE  IInv'
<1>0. ListOfKeys(ToFront(pos, k)) /\ DOMAIN ToFront(pos, k) = Resident
  <2>1. ListOfKeys(pos) /\ DOMAIN pos = Resident /\ k \in Resident
    BY DEF IInv, TypeOK, LookupWait
  <2>2. QED
    BY <2>1, ToFrontType
<1> USE DEF IInv, LookupWait, Call
<1>1. /\ Holders(node[k])' = Holders(node[k]) \cup {t}
      /\ t \notin Holders(node[k])
      /\ \A e \in Entries : e # node[k] => Holders(e)' = Holders(e)
  BY DEF Holders, Holding, Waiting, Producing, TypeOK
<1>2. node[k] \in Entries /\ entry[node[k]] \in EntryType /\ entry[node[k]].locks \in Nat
  BY DEF TypeOK, EntryType
<1>3. TypeOK'
  <2>1. ListOfKeys(pos)' /\ DOMAIN pos' = Resident'
    BY <1>0 DEF ListOfKeys, Resident
  <2>2. entry' \in [Entries -> EntryType]
    BY <1>2 DEF TypeOK, EntryType
  <2>3. QED
    BY <1>2, <2>1, <2>2 DEF TypeOK, Places, Frames, ListOfKeys, Resident
<1>4. NodesOwnEntries' /\ ValuesMatchKeys' /\ AvailableIsFilled'
  BY <1>2 DEF NodesOwnEntries, ValuesMatchKeys, AvailableIsFilled, Resident, TypeOK
<1>5. HeldEntryStays'
  BY DEF HeldEntryStays, Holding, Waiting, Producing, Resident, TypeOK, NodesOwnEntries
<1>6. LocksCountHolders'
  <2>1. Cardinality(Holders(node[k])') = Cardinality(Holders(node[k])) + 1
    BY <1>1, HoldersFinite, FS_AddElement
  <2>2. entry'[node[k]].locks = Cardinality(Holders(node[k])')
    BY <2>1, <1>2 DEF LocksCountHolders, TypeOK
  <2>3. \A j \in Resident : node[j] # node[k] => entry'[node[j]].locks = Cardinality(Holders(node[j])')
    BY <1>1, <1>2 DEF LocksCountHolders, TypeOK
  <2>4. QED
    BY <2>2, <2>3 DEF LocksCountHolders, Resident
<1>7. SingleFlight' /\ ProducersHoldResults' /\ NeverAnotherFrame'
  BY <1>2 DEF SingleFlight, ProducersHoldResults, NeverAnotherFrame, Producing, TypeOK
<1>8. QED
  BY <1>3, <1>4, <1>5, <1>6, <1>7

(* A waiter that goes back to sleep keeps the invariant: it still holds    *)
(* the entry.                                                              *)
LEMMA WaitAgainStep ==
  ASSUME IInv, NEW t \in Threads, WaitAgain(t)
  PROVE  IInv'
<1> USE DEF IInv, WaitAgain, cacheVars
<1>1. \A e : Holders(e)' = Holders(e)
  BY DEF Holders, Holding, Waiting, Producing, TypeOK
<1>2. /\ req[t] \in Resident /\ hnd[t] = node[req[t]]
      /\ hnd[t] \in Entries /\ hnd[t] \in used
      /\ entry[hnd[t]] \in EntryType
      /\ entry[hnd[t]].key = req[t]
      /\ req[t] \in Frames
  BY DEF HeldEntryStays, NodesOwnEntries, TypeOK, Holding, Waiting, Producing
<1>3. entry' \in [Entries -> EntryType]
  BY <1>2 DEF TypeOK, EntryType, EntryStates
<1>4. TypeOK'
  BY <1>2, <1>3 DEF TypeOK, Places, Frames, ListOfKeys, Resident
<1>5. NodesOwnEntries' /\ ValuesMatchKeys' /\ AvailableIsFilled'
  BY <1>2 DEF NodesOwnEntries, ValuesMatchKeys, AvailableIsFilled, Resident, TypeOK, EntryType
<1>6. HeldEntryStays'
  BY DEF HeldEntryStays, Holding, Waiting, Producing, Resident, TypeOK
<1>7. LocksCountHolders'
  BY <1>1, <1>2 DEF LocksCountHolders, Resident, TypeOK, EntryType
<1>8. SingleFlight' /\ NeverAnotherFrame'
  BY DEF SingleFlight, NeverAnotherFrame, Producing, TypeOK
<1>9. ProducersHoldResults'
  <2>1. \A u \in Threads : pc[u] = "stored" /\ u # t => hnd[u] # hnd[t] \/ entry'[hnd[u]].value = entry[hnd[u]].value
    BY <1>2 DEF SingleFlight, HeldEntryStays, NodesOwnEntries, Holding, Producing, TypeOK, EntryType
  <2>2. QED
    BY <1>2, <2>1 DEF ProducersHoldResults, TypeOK, EntryType
<1>10. QED
  BY <1>4, <1>5, <1>6, <1>7, <1>8, <1>9

(* The producer's store of the frame outside the mutex keeps the           *)
(* invariant: the entry it writes to is still that of its key.             *)
LEMMA ChildReturnsStep ==
  ASSUME IInv, NEW t \in Threads, ChildReturns(t)
  PROVE  IInv'
<1> USE DEF IInv, ChildReturns, cacheVars
<1>1. \A e : Holders(e)' = Holders(e)
  BY DEF Holders, Holding, Waiting, Producing, TypeOK
<1>2. /\ req[t] \in Resident /\ hnd[t] = node[req[t]]
      /\ hnd[t] \in Entries /\ hnd[t] \in used
      /\ entry[hnd[t]] \in EntryType
      /\ entry[hnd[t]].key = req[t]
      /\ req[t] \in Frames
  BY DEF HeldEntryStays, NodesOwnEntries, TypeOK, Holding, Waiting, Producing
<1>3. entry' \in [Entries -> EntryType]
  BY <1>2 DEF TypeOK, EntryType, EntryStates
<1>4. TypeOK'
  BY <1>2, <1>3 DEF TypeOK, Places, Frames, ListOfKeys, Resident
<1>5. NodesOwnEntries' /\ ValuesMatchKeys' /\ AvailableIsFilled'
  BY <1>2 DEF NodesOwnEntries, ValuesMatchKeys, AvailableIsFilled, Resident, TypeOK, EntryType
<1>6. HeldEntryStays'
  BY DEF HeldEntryStays, Holding, Waiting, Producing, Resident, TypeOK
<1>7. LocksCountHolders'
  BY <1>1, <1>2 DEF LocksCountHolders, Resident, TypeOK, EntryType
<1>8. SingleFlight' /\ NeverAnotherFrame'
  BY DEF SingleFlight, NeverAnotherFrame, Producing, TypeOK
<1>9. ProducersHoldResults'
  <2>1. \A u \in Threads : pc[u] = "stored" /\ u # t => hnd[u] # hnd[t] \/ entry'[hnd[u]].value = entry[hnd[u]].value
    BY <1>2 DEF SingleFlight, HeldEntryStays, NodesOwnEntries, Holding, Producing, TypeOK, EntryType
  <2>2. QED
    BY <1>2, <2>1 DEF ProducersHoldResults, TypeOK, EntryType
<1>10. QED
  BY <1>4, <1>5, <1>6, <1>7, <1>8, <1>9

(* A waiter that takes the value keeps the invariant: it stops to be a     *)
(* holder as it lowers the lock count.                                     *)
LEMMA TakeValueStep ==
  ASSUME IInv, NEW t \in Threads, TakeValue(t)
  PROVE  IInv'
<1> USE DEF IInv, TakeValue, cacheVars
<1>1. pc[t] \in Holding
  BY DEF Holding, Waiting, Producing
<1>2. /\ req[t] \in Resident /\ hnd[t] = node[req[t]]
      /\ hnd[t] \in Entries /\ hnd[t] \in used
      /\ entry[hnd[t]] \in EntryType
      /\ entry[hnd[t]].key = req[t]
  BY <1>1 DEF HeldEntryStays, NodesOwnEntries, TypeOK
<1>3. /\ t \in Holders(hnd[t])
      /\ Holders(hnd[t])' = Holders(hnd[t]) \ {t}
      /\ \A e \in Entries : e # hnd[t] => Holders(e)' = Holders(e)
  BY <1>1, <1>2 DEF Holders, Holding, Waiting, Producing, TypeOK
<1>4. /\ Cardinality(Holders(hnd[t])') = Cardinality(Holders(hnd[t])) - 1
      /\ Cardinality(Holders(hnd[t])') \in Nat
  BY <1>3, HoldersFinite, FS_RemoveElement, FS_CardinalityType
<1>5. entry[hnd[t]].locks = Cardinality(Holders(hnd[t]))
  BY <1>2 DEF LocksCountHolders
<1>6. entry' \in [Entries -> EntryType] /\ entry'[hnd[t]].locks = Cardinality(Holders(hnd[t])')
  BY <1>2, <1>4, <1>5 DEF TypeOK, EntryType, EntryStates
<1>7. TypeOK'
  BY <1>2, <1>6 DEF TypeOK, EntryType, Places, ListOfKeys, Resident
<1>8. NodesOwnEntries' /\ ValuesMatchKeys'
  BY <1>2 DEF NodesOwnEntries, ValuesMatchKeys, Resident, TypeOK, EntryType
<1>9. AvailableIsFilled'
  BY <1>2 DEF AvailableIsFilled, ProducersHoldResults, NodesOwnEntries, Resident, TypeOK, EntryType
<1>10. HeldEntryStays'
  BY DEF HeldEntryStays, Holding, Waiting, Producing, Resident, TypeOK
<1>11. LocksCountHolders'
  <2>1. \A k \in Resident : node[k] # hnd[t] => entry'[node[k]].locks = Cardinality(Holders(node[k])')
    BY <1>2, <1>3 DEF LocksCountHolders, TypeOK
  <2>2. QED
    BY <1>6, <2>1 DEF LocksCountHolders, Resident
<1>12. SingleFlight'
  BY DEF SingleFlight, Producing, TypeOK
<1>13. ProducersHoldResults' /\ NeverAnotherFrame'
  <2>1. \A e \in Entries : entry'[e].value = entry[e].value
    BY <1>2 DEF TypeOK, EntryType
  <2>2. \A u \in Threads : pc[u] = "stored" => hnd[u] \in Entries
    BY DEF HeldEntryStays, Holding, Producing, TypeOK
  <2>3. ProducersHoldResults'
    BY <1>2, <2>1, <2>2 DEF ProducersHoldResults, TypeOK
  <2>4. NeverAnotherFrame'
    BY <1>2 DEF NeverAnotherFrame, ValuesMatchKeys, ProducersHoldResults, TypeOK
  <2>5. QED
    BY <2>3, <2>4
<1>14. QED
  BY <1>7, <1>8, <1>9, <1>10, <1>11, <1>12, <1>13

(* commit_value keeps the invariant: the entry has been filled, and the    *)
(* producer stops to be a holder.                                          *)
LEMMA CommitValueStep ==
  ASSUME IInv, NEW t \in Threads, CommitValue(t)
  PROVE  IInv'
<1> USE DEF IInv, CommitValue, cacheVars
<1>1. pc[t] \in Holding
  BY DEF Holding, Waiting, Producing
<1>2. /\ req[t] \in Resident /\ hnd[t] = node[req[t]]
      /\ hnd[t] \in Entries /\ hnd[t] \in used
      /\ entry[hnd[t]] \in EntryType
      /\ entry[hnd[t]].key = req[t]
  BY <1>1 DEF HeldEntryStays, NodesOwnEntries, TypeOK
<1>3. /\ t \in Holders(hnd[t])
      /\ Holders(hnd[t])' = Holders(hnd[t]) \ {t}
      /\ \A e \in Entries : e # hnd[t] => Holders(e)' = Holders(e)
  BY <1>1, <1>2 DEF Holders, Holding, Waiting, Producing, TypeOK
<1>4. /\ Cardinality(Holders(hnd[t])') = Cardinality(Holders(hnd[t])) - 1
      /\ Cardinality(Holders(hnd[t])') \in Nat
  BY <1>3, HoldersFinite, FS_RemoveElement, FS_CardinalityType
<1>5. entry[hnd[t]].locks = Cardinality(Holders(hnd[t]))
  BY <1>2 DEF LocksCountHolders
<1>6. entry' \in [Entries -> EntryType] /\ entry'[hnd[t]].locks = Cardinality(Holders(hnd[t])')
  BY <1>2, <1>4, <1>5 DEF TypeOK, EntryType, EntryStates
<1>7. TypeOK'
  BY <1>2, <1>6 DEF TypeOK, EntryType, Places, ListOfKeys, Resident
<1>8. NodesOwnEntries' /\ ValuesMatchKeys'
  BY <1>2 DEF NodesOwnEntries, ValuesMatchKeys, Resident, TypeOK, EntryType
<1>9. AvailableIsFilled'
  BY <1>2 DEF AvailableIsFilled, ProducersHoldResults, NodesOwnEntries, Resident, TypeOK, EntryType
<1>10. HeldEntryStays'
  BY DEF HeldEntryStays, Holding, Waiting, Producing, Resident, TypeOK
<1>11. LocksCountHolders'
  <2>1. \A k \in Resident : node[k] # hnd[t] => entry'[node[k]].locks = Cardinality(Holders(node[k])')
    BY <1>2, <1>3 DEF LocksCountHolders, TypeOK
  <2>2. QED
    BY <1>6, <2>1 DEF LocksCountHolders, Resident
<1>12. SingleFlight'
  BY DEF SingleFlight, Producing, TypeOK
<1>13. ProducersHoldResults' /\ NeverAnotherFrame'
  <2>1. \A e \in Entries : entry'[e].value = entry[e].value
    BY <1>2 DEF TypeOK, EntryType
  <2>2. \A u \in Threads : pc[u] = "stored" => hnd[u] \in Entries
    BY DEF HeldEntryStays, Holding, Producing, TypeOK
  <2>3. ProducersHoldResults'
    BY <1>2, <2>1, <2>2 DEF ProducersHoldResults, TypeOK
  <2>4. NeverAnotherFrame'
    BY <1>2 DEF NeverAnotherFrame, ValuesMatchKeys, ProducersHoldResults, TypeOK
  <2>5. QED
    BY <2>3, <2>4
<1>14. QED
  BY <1>7, <1>8, <1>9, <1>10, <1>11, <1>12, <1>13

(* A rollback while others wait keeps the invariant: the entry stays       *)
(* resident, with one holder less.                                         *)
LEMMA RollbackHandsOverStep ==
  ASSUME IInv, NEW t \in Threads, RollbackHandsOver(t)
  PROVE  IInv'
<1> USE DEF IInv, RollbackHandsOver, cacheVars
<1>1. pc[t] \in Holding
  BY DEF Holding, Waiting, Producing
<1>2. /\ req[t] \in Resident /\ hnd[t] = node[req[t]]
      /\ hnd[t] \in Entries /\ hnd[t] \in used
      /\ entry[hnd[t]] \in EntryType
      /\ entry[hnd[t]].key = req[t]
  BY <1>1 DEF HeldEntryStays, NodesOwnEntries, TypeOK
<1>3. /\ t \in Holders(hnd[t])
      /\ Holders(hnd[t])' = Holders(hnd[t]) \ {t}
      /\ \A e \in Entries : e # hnd[t] => Holders(e)' = Holders(e)
  BY <1>1, <1>2 DEF Holders, Holding, Waiting, Producing, TypeOK
<1>4. /\ Cardinality(Holders(hnd[t])') = Cardinality(Holders(hnd[t])) - 1
      /\ Cardinality(Holders(hnd[t])') \in Nat
  BY <1>3, HoldersFinite, FS_RemoveElement, FS_CardinalityType
<1>5. entry[hnd[t]].locks = Cardinality(Holders(hnd[t]))
  BY <1>2 DEF LocksCountHolders
<1>6. entry' \in [Entries -> EntryType] /\ entry'[hnd[t]].locks = Cardinality(Holders(hnd[t])')
  BY <1>2, <1>4, <1>5 DEF TypeOK, EntryType, EntryStates
<1>7. TypeOK'
  BY <1>2, <1>6 DEF TypeOK, EntryType, Places, ListOfKeys, Resident
<1>8. NodesOwnEntries' /\ ValuesMatchKeys'
  BY <1>2 DEF NodesOwnEntries, ValuesMatchKeys, Resident, TypeOK, EntryType
<1>9. AvailableIsFilled'
  BY <1>2 DEF AvailableIsFilled, ProducersHoldResults, NodesOwnEntries, Resident, TypeOK, EntryType
<1>10. HeldEntryStays'
  BY DEF HeldEntryStays, Holding, Waiting, Producing, Resident, TypeOK
<1>11. LocksCountHolders'
  <2>1. \A k \in Resident : node[k] # hnd[t] => entry'[node[k]].locks = Cardinality(Holders(node[k])')
    BY <1>2, <1>3 DEF LocksCountHolders, TypeOK
  <2>2. QED
    BY <1>6, <2>1 DEF LocksCountHolders, Resident
<1>12. SingleFlight'
  BY DEF SingleFlight, Producing, TypeOK
<1>13. ProducersHoldResults' /\ NeverAnotherFrame'
  <2>1. \A e \in Entries : entry'[e].value = entry[e].value
    BY <1>2 DEF TypeOK, EntryType
  <2>2. \A u \in Threads : pc[u] = "stored" => hnd[u] \in Entries
    BY DEF HeldEntryStays, Holding, Producing, TypeOK
  <2>3. ProducersHoldResults'
    BY <1>2, <2>1, <2>2 DEF ProducersHoldResults, TypeOK
  <2>4. NeverAnotherFrame'
    BY <1>2 DEF NeverAnotherFrame, ValuesMatchKeys, ProducersHoldResults, TypeOK
  <2>5. QED
    BY <2>3, <2>4
<1>14. QED
  BY <1>7, <1>8, <1>9, <1>10, <1>11, <1>12, <1>13

(* commit_value's notification keeps the invariant: waking up does not     *)
(* change who holds an entry.                                              *)
LEMMA NotifyAllStep ==
  ASSUME IInv, NEW t \in Threads, NotifyAll(t)
  PROVE  IInv'
<1> USE DEF IInv, NotifyAll, cacheVars
<1>1. \A e : Holders(e)' = Holders(e)
  BY DEF Holders, Holding, Waiting, Producing, TypeOK
<1>2. TypeOK'
  BY DEF TypeOK, Places, Frames, ListOfKeys, Resident
<1>3. NodesOwnEntries' /\ ValuesMatchKeys' /\ AvailableIsFilled'
  BY DEF NodesOwnEntries, ValuesMatchKeys, AvailableIsFilled, Resident
<1>4. HeldEntryStays'
  BY DEF HeldEntryStays, Holding, Waiting, Producing, Resident, TypeOK
<1>5. LocksCountHolders'
  BY <1>1 DEF LocksCountHolders, Resident
<1>6. SingleFlight' /\ ProducersHoldResults' /\ NeverAnotherFrame'
  BY DEF SingleFlight, ProducersHoldResults, NeverAnotherFrame, Producing, TypeOK
<1>7. QED
  BY <1>2, <1>3, <1>4, <1>5, <1>6

(* rollback's notification keeps the invariant, whomever it wakes up.      *)
LEMMA NotifyOneStep ==
  ASSUME IInv, NEW t \in Threads, NotifyOne(t)
  PROVE  IInv'
<1> USE DEF IInv, NotifyOne, cacheVars
<1>1. \A e : Holders(e)' = Holders(e)
  BY DEF Holders, Holding, Waiting, Producing, TypeOK
<1>2. TypeOK'
  BY DEF TypeOK, Places, Frames, ListOfKeys, Resident
<1>3. NodesOwnEntries' /\ ValuesMatchKeys' /\ AvailableIsFilled'
  BY DEF NodesOwnEntries, ValuesMatchKeys, AvailableIsFilled, Resident
<1>4. HeldEntryStays'
  BY DEF HeldEntryStays, Holding, Waiting, Producing, Resident, TypeOK
<1>5. LocksCountHolders'
  BY <1>1 DEF LocksCountHolders, Resident
<1>6. SingleFlight' /\ ProducersHoldResults' /\ NeverAnotherFrame'
  BY DEF SingleFlight, ProducersHoldResults, NeverAnotherFrame, Producing, TypeOK
<1>7. QED
  BY <1>2, <1>3, <1>4, <1>5, <1>6

(* An uncached computation's return keeps the invariant.                   *)
LEMMA ChildReturnsUncachedStep ==
  ASSUME IInv, NEW t \in Threads, ChildReturnsUncached(t)
  PROVE  IInv'
<1> USE DEF IInv, ChildReturnsUncached, cacheVars
<1>1. \A e : Holders(e)' = Holders(e)
  BY DEF Holders, Holding, Waiting, Producing, TypeOK
<1>2. TypeOK'
  BY DEF TypeOK, Places, Frames, ListOfKeys, Resident
<1>3. NodesOwnEntries' /\ ValuesMatchKeys' /\ AvailableIsFilled'
  BY DEF NodesOwnEntries, ValuesMatchKeys, AvailableIsFilled, Resident
<1>4. HeldEntryStays'
  BY DEF HeldEntryStays, Holding, Waiting, Producing, Resident, TypeOK
<1>5. LocksCountHolders'
  BY <1>1 DEF LocksCountHolders, Resident
<1>6. SingleFlight' /\ ProducersHoldResults' /\ NeverAnotherFrame'
  BY DEF SingleFlight, ProducersHoldResults, NeverAnotherFrame, Producing, TypeOK
<1>7. QED
  BY <1>2, <1>3, <1>4, <1>5, <1>6

(* A child's exception keeps the invariant: the producer of a cached       *)
(* frame still holds its entry.                                            *)
LEMMA ChildThrowsStep ==
  ASSUME IInv, NEW t \in Threads, ChildThrows(t)
  PROVE  IInv'
<1> USE DEF IInv, ChildThrows, cacheVars
<1>1. \A e : Holders(e)' = Holders(e)
  BY DEF Holders, Holding, Waiting, Producing, TypeOK
<1>2. TypeOK'
  BY DEF TypeOK, Places, Frames, ListOfKeys, Resident
<1>3. NodesOwnEntries' /\ ValuesMatchKeys' /\ AvailableIsFilled'
  BY DEF NodesOwnEntries, ValuesMatchKeys, AvailableIsFilled, Resident
<1>4. HeldEntryStays'
  BY DEF HeldEntryStays, Holding, Waiting, Producing, Resident, TypeOK
<1>5. LocksCountHolders'
  BY <1>1 DEF LocksCountHolders, Resident
<1>6. SingleFlight' /\ ProducersHoldResults' /\ NeverAnotherFrame'
  BY DEF SingleFlight, ProducersHoldResults, NeverAnotherFrame, Producing, TypeOK
<1>7. QED
  BY <1>2, <1>3, <1>4, <1>5, <1>6

(* GetFrame's return keeps the invariant: the caller held nothing any      *)
(* more.                                                                   *)
LEMMA ReturnStep ==
  ASSUME IInv, NEW t \in Threads, Return(t)
  PROVE  IInv'
<1> USE DEF IInv, Return, cacheVars
<1>1. \A e : Holders(e)' = Holders(e)
  BY DEF Holders, Holding, Waiting, Producing, TypeOK
<1>2. TypeOK'
  BY DEF TypeOK, Places, Frames, ListOfKeys, Resident
<1>3. NodesOwnEntries' /\ ValuesMatchKeys' /\ AvailableIsFilled'
  BY DEF NodesOwnEntries, ValuesMatchKeys, AvailableIsFilled, Resident
<1>4. HeldEntryStays'
  BY DEF HeldEntryStays, Holding, Waiting, Producing, Resident, TypeOK
<1>5. LocksCountHolders'
  BY <1>1 DEF LocksCountHolders, Resident
<1>6. SingleFlight' /\ ProducersHoldResults' /\ NeverAnotherFrame'
  BY DEF SingleFlight, ProducersHoldResults, NeverAnotherFrame, Producing, TypeOK
<1>7. QED
  BY <1>2, <1>3, <1>4, <1>5, <1>6

(* A rollback by the only holder keeps the invariant: nobody else has a    *)
(* pointer to the entry that leaves the list.                              *)
LEMMA RollbackRemovesStep ==
  ASSUME IInv, NEW t \in Threads, RollbackRemoves(t)
  PROVE  IInv'
<1> DEFINE k == req[t]
           rest == Resident \ {k}
<1>1. /\ k \in Resident /\ hnd[t] = node[k] /\ entry[hnd[t]].key = k
      /\ t \in Holders(node[k])
      /\ Cardinality(Holders(node[k])) = 1
  BY DEF IInv, RollbackRemoves, HeldEntryStays, NodesOwnEntries, LocksCountHolders,
         Holders, Holding, Producing
<1>2. \A u \in Threads : pc[u] \in Holding /\ u # t => req[u] \in rest /\ hnd[u] # hnd[t]
  <2>1. PICK x : Holders(node[k]) = {x}
    BY <1>1, HoldersFinite, FS_Singleton
  <2>2. Holders(node[k]) = {t}
    BY <1>1, <2>1
  <2>3. QED
    BY <1>1, <2>2 DEF IInv, HeldEntryStays, Holders
<1>3. ListOfKeys(Keep(pos, rest)) /\ DOMAIN Keep(pos, rest) = rest
  <2>1. rest \in SUBSET Keys
    BY DEF IInv, TypeOK, ListOfKeys
  <2>2. QED
    BY <2>1, KeepType
<1>4. pos' = Keep(pos, rest) /\ node' = [j \in rest |-> node[j]]
  BY <1>1 DEF RollbackRemoves
<1> HIDE DEF k
<1> USE DEF IInv, RollbackRemoves
<1>5. Resident' = rest
  BY <1>4 DEF Resident
<1>6. \A j \in rest : Holders(node[j])' = Holders(node[j])
  BY <1>1, <1>4, <1>5 DEF Holders, Holding, Waiting, Producing, TypeOK, NodesOwnEntries
<1>7. TypeOK'
  BY <1>3, <1>4, <1>5 DEF TypeOK, Places, Frames, ListOfKeys
<1>8. NodesOwnEntries' /\ ValuesMatchKeys' /\ AvailableIsFilled'
  BY <1>4, <1>5, SMTT(30) DEF NodesOwnEntries, ValuesMatchKeys, AvailableIsFilled
<1>9. HeldEntryStays'
  <2>1. ASSUME NEW u \in Threads, pc'[u] \in Holding
        PROVE  u # t /\ pc[u] = pc'[u] /\ req'[u] = req[u] /\ hnd'[u] = hnd[u]
    BY <2>1 DEF TypeOK, Holding, Waiting, Producing
  <2>2. QED
    BY <1>2, <1>4, <1>5, <2>1 DEF HeldEntryStays
<1>10. LocksCountHolders'
  BY <1>4, <1>5, <1>6 DEF LocksCountHolders
<1>11. SingleFlight' /\ ProducersHoldResults' /\ NeverAnotherFrame'
  BY DEF SingleFlight, ProducersHoldResults, NeverAnotherFrame, Producing, TypeOK
<1>12. QED
  BY <1>7, <1>8, <1>9, <1>10, <1>11

(* A miss keeps the invariant: whatever the two trims evict had no         *)
(* holder, and the new entry has one, the producer.                        *)
LEMMA LookupMissStep ==
  ASSUME IInv, NEW t \in Threads, NEW k \in Keys, LookupMiss(t, k)
  PROVE  IInv'
<1> DEFINE V0   == Victims(pos, lim.real)
           g    == GhostSeen(GhostsAfter(ghosts, pos, V0), k)
           list == ToFront(ListAfter(pos, V0), k)
           V    == V0 \cup GrowthVictims(g, k, list)
<1>1. V0 \subseteq {j \in Resident : Evictable(j)} /\ V0 \in SUBSET Keys
  BY DEF Victims, IInv, TypeOK, ListOfKeys
<1>2. GhostsOK(g)
  <2> HIDE DEF V0
  <2>1. GhostsOK(ghosts)
    BY DEF IInv, TypeOK, GhostsOK
  <2>2. GhostsOK(GhostsAfter(ghosts, pos, V0))
    BY <1>1, <2>1, GhostsAfterType
  <2>3. QED
    BY <2>2, GhostSeenType
<1>3. ListOfKeys(list) /\ DOMAIN list = (Resident \ V0) \cup {k}
  <2> HIDE DEF V0
  <2>1. ListOfKeys(pos) /\ DOMAIN pos = Resident
    BY DEF IInv, TypeOK
  <2>2. ListOfKeys(ListAfter(pos, V0)) /\ DOMAIN ListAfter(pos, V0) = Resident \ V0
    BY <2>1, ListAfterType
  <2>3. QED
    BY <2>2, ToFrontType
<1>4. GrownLimits(g, k) \in Capacities
  BY GrownLimitsType DEF IInv
<1> HIDE DEF V0, g, list
<1>5. /\ GhostsOK(GrownGhosts(g, k, list))
      /\ V \subseteq {j \in Resident : Evictable(j)}
  BY <1>1, <1>2, GrownGhostsType DEF IInv
<1> HIDE DEF V
<1>6. /\ V \in SUBSET Keys /\ V \subseteq Resident
      /\ \A u \in Threads : pc[u] \in Holding => req[u] \in Resident \ V
      /\ \A j \in Resident \ V : node[j] \in UsedAfter(V) /\ EntriesAfter(V)[node[j]] = entry[node[j]]
      /\ EntriesAfter(V) \in [Entries -> EntryType]
      /\ UsedAfter(V) \subseteq Entries
  BY <1>5, Eviction
<1>7. PICK e \in Entries \ UsedAfter(V) :
        /\ node' = [j \in (Resident \ V) \cup {k} |-> IF j = k THEN e ELSE node[j]]
        /\ entry' = [EntriesAfter(V) EXCEPT ![e] = Reserved(k)]
        /\ used' = UsedAfter(V) \cup {e}
        /\ hnd' = [hnd EXCEPT ![t] = e]
  BY DEF LookupMiss, V, V0, g, list
<1>8. /\ k \notin Resident
      /\ pc[t] = "idle" /\ pc' = [pc EXCEPT ![t] = "compute"]
      /\ req' = [req EXCEPT ![t] = k]
      /\ lim' = GrownLimits(g, k)
      /\ ghosts' = GrownGhosts(g, k, list)
      /\ pos' = ListAfter(list, V)
      /\ UNCHANGED <<res, faults>>
  BY DEF LookupMiss, Call, V, V0, g, list
<1> HIDE DEF LookupMiss
<1>9. Resident' = (Resident \ V) \cup {k}
  BY <1>7 DEF Resident
<1>10. Reserved(k) = [key |-> k, value |-> None, locks |-> 1, state |-> "empty"]
  BY DEF Reserved, FreshEntry
<1>11. /\ node'[k] = e /\ entry'[e] = Reserved(k)
       /\ \A j \in Resident \ V : node'[j] = node[j] /\ node[j] # e /\ node[j] \in Entries
                                /\ entry'[node[j]] = entry[node[j]]
  BY <1>6, <1>7, <1>8
<1>12. Holders(e)' = {t} /\ \A j \in Resident \ V : Holders(node[j])' = Holders(node[j])
  BY <1>6, <1>7, <1>8, <1>11 DEF IInv, TypeOK, Holders, Holding, Waiting, Producing, HeldEntryStays
<1> USE DEF IInv
<1>13. TypeOK'
  <2>1. entry' \in [Entries -> EntryType]
    BY <1>6, <1>7, <1>10 DEF EntryType, Frames, EntryStates
  <2>2. node' \in [Resident' -> Entries]
    BY <1>6, <1>7, <1>9, <1>11
  <2>3. ListOfKeys(pos)' /\ DOMAIN pos' = Resident'
    <3>1. ListOfKeys(pos') /\ DOMAIN pos' = DOMAIN list \ V
      BY <1>3, <1>8, ListAfterType
    <3>2. DOMAIN list \ V = (Resident \ V) \cup {k}
      BY <1>3, <1>6, <1>8 DEF V
    <3>3. QED
      BY <3>1, <3>2, <1>9 DEF ListOfKeys
  <2>4. /\ ghosts' = [list |-> ghosts.list, hot |-> ghosts.hot, cap |-> ghosts.cap]'
        /\ ListOfKeys(ghosts.list)' /\ ghosts.cap' \in Nat /\ (ghosts.hot \subseteq DOMAIN ghosts.list)'
    BY <1>5, <1>8 DEF GhostsOK, ListOfKeys
  <2>5. /\ lim' \in Capacities
        /\ used' \subseteq Entries
        /\ pc' \in [Threads -> Places]
        /\ req' \in [Threads -> Frames]
        /\ hnd' \in [Threads -> Entries \cup {None}]
        /\ res' \in [Threads -> Frames] /\ faults' \in Nat
    BY <1>6, <1>4, <1>7, <1>8 DEF TypeOK, Places, Frames
  <2>6. QED
    BY <2>1, <2>2, <2>3, <2>4, <2>5 DEF TypeOK, Capacities
<1>14. NodesOwnEntries'
  <2>1. (node[k] \in used /\ entry[node[k]].key = k)'
    <3>1. node'[k] \in used'
      BY <1>7, <1>11
    <3>2. entry'[node'[k]].key = k
      BY <1>10, <1>11
    <3>3. QED
      BY <3>1, <3>2
  <2>2. ASSUME NEW j \in Resident \ V
        PROVE  (node[j] \in used /\ entry[node[j]].key = j)'
    <3>1. node[j] \in used' /\ node'[j] = node[j] /\ entry'[node[j]] = entry[node[j]]
      BY <1>6, <1>7, <1>11
    <3>2. entry[node[j]].key = j
      BY DEF NodesOwnEntries
    <3>3. QED
      BY <3>1, <3>2
  <2>3. QED
    BY <1>9, <2>1, <2>2 DEF NodesOwnEntries
<1>15. ValuesMatchKeys' /\ AvailableIsFilled'
  BY <1>9, <1>10, <1>11 DEF ValuesMatchKeys, AvailableIsFilled
<1>16. HeldEntryStays'
  <2>1. req'[t] \in Resident' /\ node'[req'[t]] = hnd'[t] /\ hnd'[t] \in used'
    BY <1>7, <1>8, <1>9, <1>11 DEF TypeOK
  <2>2. ASSUME NEW u \in Threads, u # t, pc'[u] \in Holding
        PROVE  req'[u] \in Resident' /\ node'[req'[u]] = hnd'[u] /\ hnd'[u] \in used'
    <3>1. pc[u] \in Holding /\ req'[u] = req[u] /\ hnd'[u] = hnd[u]
      BY <1>7, <1>8, <2>2 DEF TypeOK
    <3>2. req[u] \in Resident \ V /\ node[req[u]] = hnd[u] /\ node[req[u]] \in UsedAfter(V)
      BY <1>6, <3>1 DEF HeldEntryStays
    <3>3. req[u] \in Resident' /\ node'[req[u]] = hnd[u]
      BY <1>9, <1>11, <3>2
    <3>4. hnd[u] \in used'
      BY <1>7, <3>2
    <3>5. QED
      BY <3>1, <3>3, <3>4
  <2>3. QED
    BY <2>1, <2>2 DEF HeldEntryStays
<1>17. LocksCountHolders'
  <2>1. Cardinality({t}) = 1
    BY FS_Singleton
  <2>2. (entry[node[k]].locks = Cardinality(Holders(node[k])))'
    <3>1. Holders(node[k])' = {t}
      BY <1>11, <1>12 DEF Holders
    <3>2. QED
      BY <1>10, <1>11, <2>1, <3>1
  <2>3. ASSUME NEW j \in Resident \ V
        PROVE  (entry[node[j]].locks = Cardinality(Holders(node[j])))'
    <3>1. Holders(node[j])' = Holders(node[j])
      BY <1>11, <1>12 DEF Holders
    <3>2. QED
      BY <1>11, <3>1 DEF LocksCountHolders
  <2>4. QED
    BY <1>9, <2>2, <2>3 DEF LocksCountHolders
<1>18. SingleFlight'
  <2>1. ASSUME NEW u \in Threads, u # t, pc'[u] \in Producing
        PROVE  pc[u] \in Producing /\ req'[u] = req[u] /\ req[u] # k
    BY <1>6, <1>8, <2>1 DEF TypeOK, Holding
  <2>2. QED
    BY <1>8, <2>1 DEF SingleFlight, TypeOK
<1>19. ProducersHoldResults'
  <2>1. ASSUME NEW u \in Threads, pc'[u] \in {"stored", "notifyall"}
        PROVE  /\ u # t /\ pc[u] = pc'[u] /\ req'[u] = req[u] /\ hnd'[u] = hnd[u]
    BY <1>7, <1>8, <2>1 DEF TypeOK
  <2>2. ASSUME NEW u \in Threads, pc[u] = "stored"
        PROVE  entry'[hnd[u]] = entry[hnd[u]]
    BY <1>6, <1>11, <2>2 DEF HeldEntryStays, Holding, Producing
  <2>3. QED
    BY <1>8, <2>1, <2>2 DEF ProducersHoldResults
<1>20. NeverAnotherFrame'
  BY <1>8 DEF NeverAnotherFrame, TypeOK
<1>21. QED
  BY <1>13, <1>14, <1>15, <1>16, <1>17, <1>18, <1>19, <1>20

(* A step that only evicts, and at most sends idle threads to compute for  *)
(* themselves, keeps the invariant.                                        *)
LEMMA EvictOnly ==
  ASSUME IInv, NEW V, V \subseteq {k \in Resident : Evictable(k)},
         lim' \in Capacities,
         GhostsOK(ghosts)',
         pos' = ListAfter(pos, V),
         node' = [j \in Resident \ V |-> node[j]],
         entry' = EntriesAfter(V),
         used' = UsedAfter(V),
         pc' \in [Threads -> Places],
         req' \in [Threads -> Frames],
         hnd' \in [Threads -> Entries \cup {None}],
         UNCHANGED <<res, faults>>,
         \A u \in Threads : \/ pc[u] = "idle" /\ pc'[u] = "nocache"
                            \/ pc'[u] = pc[u] /\ req'[u] = req[u] /\ hnd'[u] = hnd[u]
  PROVE  IInv'
<1>1. /\ V \subseteq Resident
      /\ \A u \in Threads : pc[u] \in Holding => req[u] \in Resident \ V
      /\ \A j \in Resident \ V : node[j] \in UsedAfter(V) /\ EntriesAfter(V)[node[j]] = entry[node[j]]
      /\ EntriesAfter(V) \in [Entries -> EntryType]
      /\ UsedAfter(V) \subseteq Entries
  BY Eviction
<1>2. ListOfKeys(ListAfter(pos, V)) /\ DOMAIN ListAfter(pos, V) = Resident \ V
  <2>1. ListOfKeys(pos) /\ DOMAIN pos = Resident
    BY DEF IInv, TypeOK
  <2>2. QED
    BY <2>1, ListAfterType
<1>3. Resident' = Resident \ V
  BY DEF Resident
<1>4. \A j \in Resident \ V : node'[j] = node[j] /\ entry'[node[j]] = entry[node[j]]
  BY <1>1
<1>5. \A u \in Threads : pc'[u] \in Holding =>
        pc'[u] = pc[u] /\ req'[u] = req[u] /\ hnd'[u] = hnd[u] /\ req[u] \in Resident \ V
  BY <1>1 DEF Holding, Waiting, Producing
<1>6. \A e : Holders(e)' = Holders(e)
  BY <1>5 DEF Holders, Holding, Waiting, Producing
<1> USE DEF IInv
<1>7. TypeOK'
  <2>1. ListOfKeys(pos)' /\ DOMAIN pos' = Resident'
    BY <1>2, <1>3 DEF ListOfKeys
  <2>2. node' \in [Resident' -> Entries]
    BY <1>1, <1>3 DEF TypeOK
  <2>3. res' \in [Threads -> Frames] /\ faults' \in Nat
    BY DEF TypeOK
  <2>4. /\ ghosts' = [list |-> ghosts.list, hot |-> ghosts.hot, cap |-> ghosts.cap]'
        /\ ListOfKeys(ghosts.list)' /\ ghosts.cap' \in Nat /\ (ghosts.hot \subseteq DOMAIN ghosts.list)'
    BY DEF GhostsOK
  <2>5. QED
    BY <1>1, <2>1, <2>2, <2>3, <2>4 DEF TypeOK, Capacities
<1>8. NodesOwnEntries' /\ ValuesMatchKeys' /\ AvailableIsFilled'
  BY <1>1, <1>3, <1>4 DEF NodesOwnEntries, ValuesMatchKeys, AvailableIsFilled
<1>9. HeldEntryStays'
  BY <1>1, <1>3, <1>4, <1>5 DEF HeldEntryStays
<1>10. LocksCountHolders'
  BY <1>3, <1>4, <1>6 DEF LocksCountHolders
<1>11. SingleFlight'
  BY <1>5 DEF SingleFlight, Holding
<1>12. ProducersHoldResults'
  <2>1. ASSUME NEW u \in Threads, pc'[u] \in {"stored", "notifyall"}
        PROVE  pc[u] = pc'[u] /\ req'[u] = req[u] /\ hnd'[u] = hnd[u]
    BY <2>1
  <2>2. ASSUME NEW u \in Threads, pc[u] = "stored"
        PROVE  entry'[hnd[u]] = entry[hnd[u]]
    BY <1>1, <1>4, <2>2 DEF HeldEntryStays, Holding, Producing
  <2>3. QED
    BY <2>1, <2>2 DEF ProducersHoldResults
<1>13. NeverAnotherFrame'
  BY DEF NeverAnotherFrame
<1>14. QED
  BY <1>7, <1>8, <1>9, <1>10, <1>11, <1>12, <1>13

(* A miss without storage keeps the invariant: it only evicts, and the     *)
(* caller computes for itself.                                             *)
LEMMA LookupNoCacheStep ==
  ASSUME IInv, NEW t \in Threads, NEW k \in Keys, LookupNoCache(t, k)
  PROVE  IInv'
<1> DEFINE V == Victims(pos, 0)
           g == GhostSeen(GhostsAfter(ghosts, pos, V), k)
           grown == GrownGhosts(g, k, ListAfter(pos, V))
<1>1. V \subseteq {j \in Resident : Evictable(j)} /\ V \in SUBSET Keys
  BY DEF Victims, IInv, TypeOK, ListOfKeys
<1>2. /\ pc[t] = "idle" /\ pc' = [pc EXCEPT ![t] = "nocache"]
      /\ req' = [req EXCEPT ![t] = k] /\ hnd' = [hnd EXCEPT ![t] = None]
      /\ UNCHANGED <<res, faults>>
      /\ pos' = ListAfter(pos, V)
      /\ node' = [j \in Resident \ V |-> node[j]]
      /\ entry' = EntriesAfter(V)
      /\ used' = UsedAfter(V)
      /\ lim' = GrownLimits(g, k)
      /\ ghosts' = [grown EXCEPT !.hot = (@ \cup {k}) \cap DOMAIN grown.list]
  BY DEF LookupNoCache, Call
<1> HIDE DEF V
<1>3. GhostsOK(g)
  <2>1. GhostsOK(ghosts)
    BY DEF IInv, TypeOK, GhostsOK
  <2>2. GhostsOK(GhostsAfter(ghosts, pos, V))
    BY <1>1, <2>1, GhostsAfterType
  <2>3. QED
    BY <2>2, GhostSeenType
<1> HIDE DEF g
<1>4. GhostsOK(grown)
  BY <1>3, GrownGhostsType DEF IInv
<1> HIDE DEF grown
<1>5. GhostsOK(ghosts)'
  BY <1>2, <1>4 DEF GhostsOK, ListOfKeys
<1>6. lim' \in Capacities
  BY <1>2, GrownLimitsType DEF IInv
<1>7. /\ pc' \in [Threads -> Places]
      /\ req' \in [Threads -> Frames]
      /\ hnd' \in [Threads -> Entries \cup {None}]
  BY <1>2 DEF IInv, TypeOK, Places, Frames
<1>8. \A u \in Threads : \/ pc[u] = "idle" /\ pc'[u] = "nocache"
                         \/ pc'[u] = pc[u] /\ req'[u] = req[u] /\ hnd'[u] = hnd[u]
  BY <1>2 DEF IInv, TypeOK
<1>9. QED
  BY <1>1, <1>2, <1>5, <1>6, <1>7, <1>8, EvictOnly

(* set_limits keeps the invariant: its trim only evicts entries nobody     *)
(* holds.                                                                  *)
LEMMA SetLimitsStep ==
  ASSUME IInv, NEW l \in Limits, SetLimits(l[1], l[2])
  PROVE  IInv'
<1> DEFINE new == Resized([lim EXCEPT !.min = l[1], !.max = l[2]], lim.req)
           V == Victims(pos, new.real)
<1>1. new \in Capacities
  <2>1. l[1] \in Nat /\ l[2] \in Nat
    BY SizesAssumption
  <2>2. /\ [lim EXCEPT !.min = l[1], !.max = l[2]] \in Capacities
        /\ lim.req \in Nat
    BY <2>1 DEF IInv, TypeOK, Capacities
  <2>3. QED
    BY <2>2, ResizedType DEF Capacities
<1>2. V \subseteq {j \in Resident : Evictable(j)} /\ V \in SUBSET Keys
  BY DEF Victims, IInv, TypeOK, ListOfKeys
<1>3. /\ UNCHANGED <<pc, req, hnd, res, faults>>
      /\ pos' = ListAfter(pos, V)
      /\ node' = [j \in Resident \ V |-> node[j]]
      /\ entry' = EntriesAfter(V)
      /\ used' = UsedAfter(V)
      /\ lim' = new
      /\ ghosts' = GhostsAfter(ghosts, pos, V)
  BY DEF SetLimits
<1> HIDE DEF V, new
<1>4. GhostsOK(ghosts)'
  <2>1. GhostsOK(ghosts)
    BY DEF IInv, TypeOK, GhostsOK
  <2>2. GhostsOK(GhostsAfter(ghosts, pos, V))
    BY <1>2, <2>1, GhostsAfterType
  <2>3. QED
    BY <1>3, <2>2 DEF GhostsOK, ListOfKeys
<1>5. /\ pc' \in [Threads -> Places]
      /\ req' \in [Threads -> Frames]
      /\ hnd' \in [Threads -> Entries \cup {None}]
  BY <1>3 DEF IInv, TypeOK
<1>6. QED
  BY <1>1, <1>2, <1>3, <1>4, <1>5, EvictOnly

-----------------------------------------------------------------------------
(* The theorems *)

(* The constructed cache satisfies the invariant.                          *)
LEMMA InitIInv == Init => IInv
<1> SUFFICES ASSUME Init PROVE IInv
  OBVIOUS
<1> USE DEF Init, EmptyList
<1>1. Resident = {}
  BY DEF Resident
<1>2. TypeOK
  BY <1>1, SizesAssumption DEF TypeOK, ListOfKeys, EntryType, FreshEntry, EntryStates, Frames, Places
<1>3. QED
  BY <1>1, <1>2 DEF IInv, NodesOwnEntries, HeldEntryStays, LocksCountHolders, SingleFlight,
     ValuesMatchKeys, AvailableIsFilled, ProducersHoldResults, NeverAnotherFrame,
     Holding, Waiting, Producing

(* Every step of the cache and of its callers keeps the invariant.         *)
LEMMA NextIInv == IInv /\ [Next]_vars => IInv'
<1> SUFFICES ASSUME IInv, [Next]_vars PROVE IInv'
  OBVIOUS
<1>1. CASE UNCHANGED vars
  BY <1>1 DEF vars, IInv, TypeOK, ListOfKeys, NodesOwnEntries, HeldEntryStays, LocksCountHolders,
     SingleFlight, ValuesMatchKeys, AvailableIsFilled, ProducersHoldResults, NeverAnotherFrame,
     Resident, Holders
<1>2. ASSUME NEW t \in Threads, Lookup(t) PROVE IInv'
  BY <1>2, LookupReadyStep, LookupWaitStep, LookupNotAvailableStep, LookupMissStep,
     LookupNoCacheStep DEF Lookup
<1>3. ASSUME NEW t \in Threads, SpuriousWakeup(t) \/ ChildThrows(t) PROVE IInv'
  BY <1>3, SpuriousWakeupStep, ChildThrowsStep
<1>4. ASSUME NEW t \in Threads, Proceed(t) PROVE IInv'
  BY <1>4, TakeValueStep, WaitAgainStep, ChildReturnsStep, CommitValueStep, NotifyAllStep,
     RollbackRemovesStep, RollbackHandsOverStep, NotifyOneStep, ChildReturnsUncachedStep,
     ReturnStep DEF Proceed
<1>5. ASSUME NEW l \in Limits, SetLimits(l[1], l[2]) PROVE IInv'
  BY <1>5, SetLimitsStep
<1>6. QED
  BY <1>1, <1>2, <1>3, <1>4, <1>5 DEF Next

(* The invariant holds in every reachable state. *)
THEOREM Invariance == Spec => []IInv
BY InitIInv, NextIInv, PTL DEF Spec

(* Every variable keeps its type: no lock count is taken below zero,       *)
(* although lookup, commit_value and rollback each lower it.               *)
THEOREM TypeCorrect == Spec => []TypeOK
<1>1. IInv => TypeOK
  BY DEF IInv
<1>2. QED
  BY <1>1, Invariance, PTL

(* No trim, resize, set_limits or rollback takes an entry away from a      *)
(* thread that waits on it or fills it outside the mutex.                  *)
THEOREM HeldEntriesStay == Spec => []HeldEntryStays
<1>1. IInv => HeldEntryStays
  BY DEF IInv
<1>2. QED
  BY <1>1, Invariance, PTL

(* Lock counts are exact. *)
THEOREM LocksExact == Spec => []LocksCountHolders
<1>1. IInv => LocksCountHolders
  BY DEF IInv
<1>2. QED
  BY <1>1, Invariance, PTL

(* The cache never lets two threads compute the same frame at once. *)
THEOREM OneProducer == Spec => []SingleFlight
<1>1. IInv => SingleFlight
  BY DEF IInv
<1>2. QED
  BY <1>1, Invariance, PTL

(* What a lookup serves without waiting is its own key's frame. *)
THEOREM AvailableFilled == Spec => []AvailableIsFilled
<1>1. IInv => AvailableIsFilled
  BY DEF IInv
<1>2. QED
  BY <1>1, Invariance, PTL

(* GetFrame never returns the frame of another number. *)
THEOREM NoWrongFrame == Spec => []NeverAnotherFrame
<1>1. IInv => NeverAnotherFrame
  BY DEF IInv
<1>2. QED
  BY <1>1, Invariance, PTL

-----------------------------------------------------------------------------
(* The lists keep their order, and their positions stay without gaps. *)

(* One element more makes a set larger by one at most. *)
LEMMA AtMostOneMore ==
  ASSUME NEW S, IsFiniteSet(S), NEW x
  PROVE  /\ IsFiniteSet(S \cup {x})
         /\ Cardinality(S \cup {x}) \in Nat
         /\ Cardinality(S \cup {x}) <= Cardinality(S) + 1
<1>1. Cardinality(S) \in Nat
  BY FS_CardinalityType
<1>2. /\ IsFiniteSet(S \cup {x})
      /\ Cardinality(S \cup {x}) = IF x \in S THEN Cardinality(S) ELSE Cardinality(S) + 1
  BY FS_AddElement
<1>3. QED
  BY <1>1, <1>2

(* Each key has a place of its own. *)
Distinct(list, S) == \A i, j \in S : list[i] = list[j] => i = j

(* Ranks are in the order of the positions they are computed from. *)
LEMMA RankOrder ==
  ASSUME NEW list, NEW S \in SUBSET Keys, \A j \in S : list[j] \in Nat,
         NEW i \in S, NEW j \in S
  PROVE  Rank(list, S, i) <= Rank(list, S, j) <=> list[i] <= list[j]
<1> DEFINE UpTo(k) == {x \in S : list[x] <= list[k]}
<1>1. \A k : IsFiniteSet(UpTo(k)) /\ Cardinality(UpTo(k)) \in Nat
  BY SetsAssumption, FS_Subset, FS_CardinalityType
<1>2. ASSUME list[i] <= list[j] PROVE Cardinality(UpTo(i)) <= Cardinality(UpTo(j))
  <2>1. UpTo(i) \in SUBSET UpTo(j)
    BY <1>2
  <2>2. QED
    BY <2>1, <1>1, FS_Subset
<1>3. ASSUME list[j] < list[i] PROVE Cardinality(UpTo(j)) < Cardinality(UpTo(i))
  <2>1. UpTo(j) \in SUBSET UpTo(i) /\ i \in UpTo(i) /\ i \notin UpTo(j)
    BY <1>3
  <2>2. QED
    BY <2>1, <1>1, FS_Subset, SMTT(30)
<1>4. list[i] <= list[j] \/ list[j] < list[i]
  OBVIOUS
<1>5. Rank(list, S, i) = Cardinality(UpTo(i)) /\ Rank(list, S, j) = Cardinality(UpTo(j))
  BY DEF Rank
<1> HIDE DEF UpTo
<1>6. QED
  BY <1>1, <1>2, <1>3, <1>4, <1>5

(* Ranks are the numbers 1, 2, ..., each once. *)
LEMMA RanksDense ==
  ASSUME NEW list, NEW S \in SUBSET Keys, \A j \in S : list[j] \in Nat, Distinct(list, S)
  PROVE  /\ {Rank(list, S, k) : k \in S} = 1 .. Cardinality(S)
         /\ \A i, j \in S : Rank(list, S, i) = Rank(list, S, j) => i = j
<1>1. IsFiniteSet(S) /\ Cardinality(S) \in Nat
  BY SetsAssumption, FS_Subset, FS_CardinalityType
<1> DEFINE n == Cardinality(S)
           rank == [k \in S |-> Rank(list, S, k)]
<1>2. ASSUME NEW k \in S PROVE Rank(list, S, k) \in 1 .. n
  <2> DEFINE below == {x \in S : list[x] <= list[k]}
  <2>1. below \in SUBSET S /\ k \in below
    OBVIOUS
  <2>2. IsFiniteSet(below) /\ Cardinality(below) <= n /\ Cardinality(below) \in Nat
    BY <1>1, <2>1, FS_Subset, FS_CardinalityType
  <2>3. Cardinality(below) # 0
    BY <2>1, <2>2, FS_EmptySet
  <2>4. QED
    BY <1>1, <2>2, <2>3 DEF Rank
<1>3. \A i, j \in S : Rank(list, S, i) = Rank(list, S, j) => i = j
  <2> TAKE i, j \in S
  <2>1. HAVE Rank(list, S, i) = Rank(list, S, j)
  <2>2. Rank(list, S, i) \in Nat
    BY RankType
  <2>3. list[i] <= list[j] /\ list[j] <= list[i]
    BY <2>1, <2>2, RankOrder
  <2>4. QED
    BY <2>3 DEF Distinct
<1>4. rank \in Injection(S, 1 .. n)
  BY <1>2, <1>3 DEF Injection, IsInjective
<1>5. IsFiniteSet(1 .. n) /\ Cardinality(1 .. n) = n
  BY <1>1, FS_Interval
<1>6. rank \in Surjection(S, 1 .. n)
  BY <1>4, <1>5, FS_Injection
<1>7. {Rank(list, S, k) : k \in S} = 1 .. n
  BY <1>2, <1>6 DEF Surjection
<1>8. QED
  BY <1>3, <1>7

(* A list without gaps has no two keys in one place. *)
LEMMA ListDistinct ==
  ASSUME NEW list, ListOfKeys(list), IsList(list)
  PROVE  Distinct(list, DOMAIN list)
<1> DEFINE S == DOMAIN list
           n == Cardinality(S)
<1>1. IsFiniteSet(S) /\ n \in Nat /\ list \in [S -> Nat]
  BY SetsAssumption, FS_Subset, FS_CardinalityType DEF ListOfKeys
<1>2. list \in Surjection(S, 1 .. n)
  BY <1>1 DEF IsList, Surjection
<1>3. Cardinality(1 .. n) = n
  BY <1>1, FS_Interval
<1>4. list \in Injection(S, 1 .. n)
  BY <1>1, <1>2, <1>3, FS_Surjection
<1>5. QED
  BY <1>4 DEF Injection, IsInjective, Distinct

(* What erasing nodes leaves of a list has no gaps. *)
LEMMA KeepIsList ==
  ASSUME NEW list, ListOfKeys(list), IsList(list), NEW S \in SUBSET DOMAIN list
  PROVE  IsList(Keep(list, S))
<1>1. S \in SUBSET Keys /\ (\A j \in S : list[j] \in Nat) /\ Distinct(list, S)
  BY ListDistinct DEF Distinct, ListOfKeys
<1>2. {Rank(list, S, k) : k \in S} = 1 .. Cardinality(S)
  BY <1>1, RanksDense
<1>3. DOMAIN Keep(list, S) = S /\ \A k \in S : Keep(list, S)[k] = Rank(list, S, k)
  BY DEF Keep
<1>4. QED
  BY <1>2, <1>3 DEF IsList

(* Nor has a list with one node moved or inserted at the front. *)
LEMMA ToFrontIsList ==
  ASSUME NEW list, ListOfKeys(list), IsList(list), NEW k \in Keys
  PROVE  IsList(ToFront(list, k))
<1> DEFINE rest == DOMAIN list \ {k}
           D == rest \cup {k}
           n == Cardinality(rest)
           new == ToFront(list, k)
<1>1. rest \in SUBSET Keys /\ (\A j \in rest : list[j] \in Nat) /\ Distinct(list, rest)
  BY ListDistinct DEF Distinct, ListOfKeys
<1>2. {Rank(list, rest, j) : j \in rest} = 1 .. n
  BY <1>1, RanksDense
<1>3. IsFiniteSet(rest) /\ n \in Nat
  BY <1>1, SetsAssumption, FS_Subset, FS_CardinalityType
<1>4. Cardinality(D) = n + 1
  BY <1>3, FS_AddElement
<1>5. /\ DOMAIN new = D /\ new[k] = 1
      /\ \A j \in rest : new[j] = 1 + Rank(list, rest, j)
  BY DEF ToFront
<1> HIDE DEF new
<1>6. ASSUME NEW i \in 1 .. n + 1 PROVE \E j \in D : new[j] = i
  <2>1. CASE i = 1
    BY <1>5, <2>1
  <2>2. CASE i # 1
    <3>1. i - 1 \in 1 .. n
      BY <1>3, <2>2
    <3>2. PICK j \in rest : Rank(list, rest, j) = i - 1
      BY <1>2, <3>1
    <3>3. QED
      BY <1>5, <3>2
  <2>3. QED
    BY <2>1, <2>2
<1>7. ASSUME NEW j \in D PROVE new[j] \in 1 .. n + 1
  <2>1. j \in rest => Rank(list, rest, j) \in 1 .. n
    BY <1>2
  <2>2. QED
    BY <1>3, <1>5, <2>1
<1>8. {new[j] : j \in D} = 1 .. n + 1
  BY <1>6, <1>7
<1>9. QED
  BY <1>4, <1>5, <1>8 DEF IsList, new

(* Nor has one with several nodes moved or inserted at the front. *)
LEMMA StackIsList ==
  ASSUME NEW list, ListOfKeys(list), IsList(list),
         NEW from, ListOfKeys(from), IsList(from), NEW S \in SUBSET DOMAIN from
  PROVE  IsList(Stack(from, S, list))
<1> DEFINE rest == DOMAIN list \ S
           D == S \cup rest
           m == Cardinality(S)
           n == Cardinality(rest)
           new == Stack(from, S, list)
<1>1. rest \in SUBSET Keys /\ (\A j \in rest : list[j] \in Nat) /\ Distinct(list, rest)
  BY ListDistinct DEF Distinct, ListOfKeys
<1>2. S \in SUBSET Keys /\ (\A j \in S : from[j] \in Nat) /\ Distinct(from, S)
  BY ListDistinct DEF Distinct, ListOfKeys
<1>3. {Rank(list, rest, j) : j \in rest} = 1 .. n
  BY <1>1, RanksDense
<1>4. {Rank(from, S, j) : j \in S} = 1 .. m
  BY <1>2, RanksDense
<1>5. IsFiniteSet(rest) /\ n \in Nat /\ IsFiniteSet(S) /\ m \in Nat
  BY <1>1, <1>2, SetsAssumption, FS_Subset, FS_CardinalityType
<1>6. Cardinality(D) = m + n
  <2>1. S \cap rest = {}
    OBVIOUS
  <2>2. Cardinality(S \cap rest) = 0
    BY <2>1, FS_EmptySet
  <2>3. Cardinality(S \cup rest) = m + n - Cardinality(S \cap rest)
    <3> HIDE DEF rest
    <3> QED
      BY <1>5, FS_Union
  <2> HIDE DEF m, n
  <2>4. QED
    BY <1>5, <2>2, <2>3
<1>7. /\ DOMAIN new = D
      /\ \A j \in S : new[j] = Rank(from, S, j)
      /\ \A j \in rest : new[j] = m + Rank(list, rest, j)
  BY DEF Stack
<1> HIDE DEF new
<1>8. ASSUME NEW i \in 1 .. m + n PROVE \E j \in D : new[j] = i
  <2>1. CASE i <= m
    <3>1. i \in 1 .. m
      BY <1>5, <2>1
    <3>2. PICK j \in S : Rank(from, S, j) = i
      BY <1>4, <3>1
    <3>3. QED
      BY <1>7, <3>2
  <2>2. CASE i > m
    <3>1. i - m \in 1 .. n
      BY <1>5, <2>2
    <3>2. PICK j \in rest : Rank(list, rest, j) = i - m
      BY <1>3, <3>1
    <3> HIDE DEF m, n
    <3>3. new[j] = i
      BY <1>5, <1>7, <3>2
    <3>4. QED
      BY <3>3
  <2>3. QED
    BY <1>5, <2>1, <2>2
<1>9. ASSUME NEW j \in D PROVE new[j] \in 1 .. m + n
  <2>1. j \in rest => Rank(list, rest, j) \in 1 .. n
    BY <1>3
  <2>2. j \in S => Rank(from, S, j) \in 1 .. m
    BY <1>4
  <2>3. QED
    BY <1>5, <1>7, <2>1, <2>2
<1>10. {new[j] : j \in D} = 1 .. m + n
  BY <1>8, <1>9
<1>11. QED
  BY <1>6, <1>7, <1>10 DEF IsList, new

(* At most n keys are not past the first n. *)
LEMMA FrontShort ==
  ASSUME NEW list, ListOfKeys(list), IsList(list), NEW n \in Nat,
         NEW S \in SUBSET (DOMAIN list \ Beyond(list, n))
  PROVE  IsFiniteSet(S) /\ Cardinality(S) <= n
<1> DEFINE place == [k \in S |-> list[k]]
<1>1. \A k \in DOMAIN list : list[k] \in Nat /\ list[k] >= 1
  <2>1. Cardinality(DOMAIN list) \in Nat
    BY SetsAssumption, FS_Subset, FS_CardinalityType DEF ListOfKeys
  <2>2. \A k \in DOMAIN list : list[k] \in 1 .. Cardinality(DOMAIN list)
    BY DEF IsList
  <2>3. QED
    BY <2>1, <2>2
<1>2. \A k \in S : list[k] \in 1 .. n
  BY <1>1 DEF Beyond
<1>3. place \in Injection(S, 1 .. n)
  BY <1>2, ListDistinct DEF Distinct, Injection, IsInjective
<1>4. IsFiniteSet(1 .. n) /\ Cardinality(1 .. n) = n
  BY FS_Interval
<1>5. QED
  BY <1>3, <1>4, FS_Injection

(* A ghost list trimmed to n has no gaps and at most n keys. *)
LEMMA PrefixIsList ==
  ASSUME NEW list, ListOfKeys(list), IsList(list), NEW n \in Nat
  PROVE  /\ IsList(Prefix(list, n))
         /\ Cardinality(DOMAIN Prefix(list, n)) <= n
<1> DEFINE S == DOMAIN list \ Beyond(list, n)
<1>1. S \in SUBSET DOMAIN list /\ S \in SUBSET (DOMAIN list \ Beyond(list, n))
  OBVIOUS
<1>2. Prefix(list, n) = Keep(list, S) /\ DOMAIN Prefix(list, n) = S
  BY DEF Prefix, Keep
<1> HIDE DEF S
<1>3. QED
  BY <1>1, <1>2, KeepIsList, FrontShort

-----------------------------------------------------------------------------
(* What the trims leave is bounded. *)

(* The ghost list is a list, at most one longer than its capacity.         *)
GhostsFew(g) == IsList(g.list) /\ Cardinality(DOMAIN g.list) <= g.cap + 1

(* MainEvictEvent trims the ghosts whenever it inserts one.                *)
LEMMA GhostsAfterFew ==
  ASSUME NEW g, GhostsOK(g), GhostsFew(g),
         NEW list, ListOfKeys(list), IsList(list), NEW V \in SUBSET DOMAIN list
  PROVE  GhostsFew(GhostsAfter(g, list, V))
<1> DEFINE all  == Stack(list, V, g.list)
           kept == IF V \subseteq DOMAIN g.list THEN all ELSE Prefix(all, g.cap + 1)
<1>1. V \in SUBSET Keys
  BY DEF ListOfKeys
<1>2. ListOfKeys(all) /\ DOMAIN all = DOMAIN g.list \cup V
  BY <1>1, StackType DEF GhostsOK
<1>3. IsList(all)
  BY StackIsList DEF GhostsOK, GhostsFew
<1>4. g.cap + 1 \in Nat
  BY DEF GhostsOK
<1> HIDE DEF all
<1>5. IsList(kept) /\ Cardinality(DOMAIN kept) <= g.cap + 1
  <2>1. CASE V \subseteq DOMAIN g.list
    <3>1. DOMAIN kept = DOMAIN g.list /\ kept = all
      BY <1>2, <2>1
    <3>2. QED
      BY <1>3, <3>1 DEF GhostsFew
  <2>2. CASE ~(V \subseteq DOMAIN g.list)
    BY <1>2, <1>3, <1>4, <2>2, PrefixIsList
  <2>3. QED
    BY <2>1, <2>2
<1>6. GhostsAfter(g, list, V).list = kept /\ GhostsAfter(g, list, V).cap = g.cap
  <2>1. GhostsAfter(g, list, V) = [g EXCEPT !.list = kept, !.hot = (@ \cup V) \cap DOMAIN kept]
    BY DEF GhostsAfter, all
  <2> HIDE DEF kept
  <2>2. QED
    BY <2>1 DEF GhostsOK
<1> HIDE DEF kept
<1>7. QED
  BY <1>5, <1>6 DEF GhostsFew

(* So does lookup when it looks for a ghost.                               *)
LEMMA GhostSeenFew ==
  ASSUME NEW g, GhostsOK(g), GhostsFew(g), NEW k \in Keys
  PROVE  GhostsFew(GhostSeen(g, k))
<1> DEFINE kept == Prefix(g.list, g.cap)
<1>1. CASE k \in DOMAIN g.list
  <2>1. GhostSeen(g, k).list = ToFront(g.list, k) /\ GhostSeen(g, k).cap = g.cap
    <3>1. GhostSeen(g, k) = [g EXCEPT !.list = ToFront(@, k)]
      BY <1>1 DEF GhostSeen
    <3>2. QED
      BY <3>1 DEF GhostsOK
  <2>2. IsList(ToFront(g.list, k)) /\ DOMAIN ToFront(g.list, k) = DOMAIN g.list
    BY <1>1, ToFrontIsList, ToFrontType DEF GhostsOK, GhostsFew
  <2>3. QED
    BY <2>1, <2>2 DEF GhostsFew
<1>2. CASE k \notin DOMAIN g.list
  <2>1. ListOfKeys(kept) /\ IsList(kept) /\ Cardinality(DOMAIN kept) <= g.cap
    BY PrefixType, PrefixIsList DEF GhostsOK, GhostsFew
  <2> HIDE DEF kept
  <2>2. /\ IsList(ToFront(kept, k))
        /\ DOMAIN ToFront(kept, k) = DOMAIN kept \cup {k}
    BY <2>1, ToFrontIsList, ToFrontType
  <2>3. IsFiniteSet(DOMAIN kept) /\ Cardinality(DOMAIN kept) \in Nat /\ g.cap \in Nat
    BY <2>1, SetsAssumption, FS_Subset, FS_CardinalityType DEF ListOfKeys, GhostsOK
  <2>4. Cardinality(DOMAIN ToFront(kept, k)) <= g.cap + 1
    <3>1. /\ Cardinality(DOMAIN kept \cup {k}) <= Cardinality(DOMAIN kept) + 1
          /\ Cardinality(DOMAIN kept \cup {k}) \in Nat
      BY <2>3, AtMostOneMore
    <3>2. QED
      BY <2>1, <2>2, <2>3, <3>1
  <2>5. GhostSeen(g, k).list = ToFront(kept, k) /\ GhostSeen(g, k).cap = g.cap
    <3>1. GhostSeen(g, k) = [g EXCEPT !.list = ToFront(kept, k), !.hot = @ \cap DOMAIN kept]
      BY <1>2 DEF GhostSeen, kept
    <3>2. QED
      BY <3>1 DEF GhostsOK
  <2>6. QED
    BY <2>2, <2>4, <2>5 DEF GhostsFew
<1>3. QED
  BY <1>1, <1>2

(* Growing the ghost list trims it to its new capacity.                    *)
LEMMA GrownGhostsFew ==
  ASSUME TypeOK, NEW g, GhostsOK(g), GhostsFew(g), NEW k,
         NEW list, ListOfKeys(list), IsList(list)
  PROVE  GhostsFew(GrownGhosts(g, k, list))
<1> DEFINE W    == GrowthVictims(g, k, list)
           h    == GhostsAfter(g, list, W)
           cap  == GhostsMin + 2 * GrownLimits(g, k).real
           kept == Prefix(h.list, cap)
<1>1. W \in SUBSET DOMAIN list
  BY DEF GrowthVictims, Victims, Beyond
<1>2. GhostsOK(h) /\ GhostsFew(h)
  <2>1. W \in SUBSET Keys
    BY <1>1 DEF ListOfKeys
  <2> HIDE DEF W
  <2>2. QED
    BY <1>1, <2>1, GhostsAfterType, GhostsAfterFew
<1>3. cap \in Nat
  BY SizesAssumption, GrownLimitsType DEF Capacities
<1>4. GrownGhosts(g, k, list) = IF k \in g.hot
                                THEN [list |-> kept, hot |-> h.hot \cap DOMAIN kept, cap |-> cap]
                                ELSE g
  BY DEF GrownGhosts
<1> HIDE DEF h, cap
<1>5. IsList(kept) /\ Cardinality(DOMAIN kept) <= cap
  BY <1>2, <1>3, PrefixIsList DEF GhostsOK, GhostsFew
<1>6. IsFiniteSet(DOMAIN kept) /\ Cardinality(DOMAIN kept) \in Nat
  <2>1. ListOfKeys(kept)
    BY <1>2, PrefixType DEF GhostsOK
  <2>2. QED
    BY <2>1, SetsAssumption, FS_Subset, FS_CardinalityType DEF ListOfKeys
<1> HIDE DEF kept
<1>7. QED
  BY <1>3, <1>4, <1>5, <1>6 DEF GhostsFew

(* The threads that keep an entry from being evicted.                      *)
Busy == {t \in Threads : pc[t] \in Holding}

(* The keys whose entries cannot be evicted are those that busy threads    *)
(* asked for.                                                              *)
LEMMA UnevictableBusy ==
  ASSUME IInv, NEW S \in SUBSET Resident, \A k \in S : ~Evictable(k)
  PROVE  IsFiniteSet(S) /\ Cardinality(S) <= Cardinality(Busy)
<1> DEFINE asked == [t \in Busy |-> req[t]]
           A == {req[t] : t \in Busy}
<1>1. IsFiniteSet(Busy)
  BY SetsAssumption, FS_Subset DEF Busy
<1>2. IsFiniteSet(A) /\ Cardinality(A) <= Cardinality(Busy)
  <2>1. asked \in Surjection(Busy, A)
    BY DEF Surjection
  <2>2. QED
    BY <1>1, <2>1, FS_Surjection
<1>3. S \in SUBSET A
  <2> SUFFICES ASSUME NEW k \in S PROVE k \in A
    OBVIOUS
  <2>1. entry[node[k]].locks # 0 /\ entry[node[k]].locks = Cardinality(Holders(node[k]))
    BY DEF Evictable, IInv, LocksCountHolders
  <2>2. Holders(node[k]) # {}
    BY <2>1, FS_EmptySet
  <2>3. PICK t \in Threads : pc[t] \in Holding /\ hnd[t] = node[k]
    BY <2>2 DEF Holders
  <2>4. req[t] \in Resident /\ node[req[t]] = node[k]
    BY <2>3 DEF IInv, HeldEntryStays
  <2>5. req[t] = k
    BY <2>4 DEF IInv, NodesOwnEntries
  <2>6. QED
    BY <2>3, <2>5 DEF Busy
<1>4. IsFiniteSet(S) /\ Cardinality(S) <= Cardinality(A)
  BY <1>2, <1>3, FS_Subset
<1>5. Cardinality(S) \in Nat /\ Cardinality(A) \in Nat /\ Cardinality(Busy) \in Nat
  BY <1>1, <1>2, <1>4, FS_CardinalityType
<1>6. QED
  BY <1>2, <1>4, <1>5

(* What a trim to a capacity leaves exceeds it by no more than the busy    *)
(* threads.                                                                *)
LEMMA TrimBound ==
  ASSUME IInv, NEW list, ListOfKeys(list), IsList(list), NEW cap \in Nat,
         NEW S \in SUBSET (DOMAIN list \cap Resident), S \cap Victims(list, cap) = {}
  PROVE  IsFiniteSet(S) /\ Cardinality(S) <= cap + Cardinality(Busy)
<1> DEFINE near == S \ Beyond(list, cap)
           far  == S \cap Beyond(list, cap)
<1>1. IsFiniteSet(near) /\ Cardinality(near) <= cap
  <2>1. near \in SUBSET (DOMAIN list \ Beyond(list, cap))
    OBVIOUS
  <2>2. QED
    BY <2>1, FrontShort
<1>2. IsFiniteSet(far) /\ Cardinality(far) <= Cardinality(Busy)
  <2>1. far \in SUBSET Resident /\ \A k \in far : ~Evictable(k)
    BY DEF Victims
  <2>2. QED
    BY <2>1, UnevictableBusy
<1>3. Cardinality(near) \in Nat /\ Cardinality(far) \in Nat /\ Cardinality(Busy) \in Nat
  <2>1. IsFiniteSet(Busy)
    BY SetsAssumption, FS_Subset DEF Busy
  <2>2. QED
    BY <1>1, <1>2, <2>1, FS_CardinalityType
<1>4. S = near \cup far /\ near \cap far = {}
  OBVIOUS
<1> HIDE DEF near, far
<1>5. IsFiniteSet(S) /\ Cardinality(S) = Cardinality(near) + Cardinality(far) - Cardinality(near \cap far)
  BY <1>1, <1>2, <1>4, FS_Union
<1>6. Cardinality(near \cap far) = 0
  BY <1>4, FS_EmptySet
<1>7. QED
  BY <1>1, <1>2, <1>3, <1>5, <1>6

-----------------------------------------------------------------------------
(* Entries that rollback has lost are counted by the failures. *)

Lost == used \ {node[k] : k \in Resident}
Threw == {t \in Threads : pc[t] = "threw"}

FaultsCounted == IsFiniteSet(Lost) /\ Cardinality(Lost) + Cardinality(Threw) <= faults

(* A step that loses no entry and makes no thread throw keeps the count.   *)
LEMMA FaultsStay ==
  ASSUME IInv, FaultsCounted, Lost' \subseteq Lost, Threw' \subseteq Threw,
         faults' \in Nat, faults' >= faults
  PROVE  FaultsCounted'
<1>1. IsFiniteSet(Threw)
  BY SetsAssumption, FS_Subset DEF Threw
<1>2. /\ IsFiniteSet(Lost') /\ Cardinality(Lost') <= Cardinality(Lost)
      /\ IsFiniteSet(Threw') /\ Cardinality(Threw') <= Cardinality(Threw)
  BY <1>1, FS_Subset DEF FaultsCounted
<1>3. /\ Cardinality(Lost) \in Nat /\ Cardinality(Lost') \in Nat
      /\ Cardinality(Threw) \in Nat /\ Cardinality(Threw') \in Nat
  BY <1>1, <1>2, FS_CardinalityType DEF FaultsCounted
<1>4. faults \in Nat /\ Cardinality(Lost) + Cardinality(Threw) <= faults
  BY DEF IInv, TypeOK, FaultsCounted
<1>5. Cardinality(Lost') + Cardinality(Threw') <= faults'
  BY <1>2, <1>3, <1>4
<1>6. QED
  BY <1>2, <1>5 DEF FaultsCounted

(* An eviction loses no entry: what it takes from the list it gives back   *)
(* to EntryPool.                                                           *)
LEMMA EvictionLosesNothing ==
  ASSUME IInv, NEW V \in SUBSET Resident, NEW E,
         Resident \ V \subseteq Resident', \A k \in Resident \ V : node'[k] = node[k],
         used' \subseteq UsedAfter(V) \cup E, E \subseteq {node'[k] : k \in Resident'}
  PROVE  Lost' \subseteq Lost
<1> SUFFICES ASSUME NEW e \in Lost' PROVE e \in Lost
  OBVIOUS
<1>1. e \in used' /\ e \notin {node'[k] : k \in Resident'}
  BY DEF Lost
<1>2. e \in used /\ e \notin EntriesOf(V)
  BY <1>1 DEF UsedAfter
<1>3. ASSUME NEW k \in Resident, e = node[k] PROVE FALSE
  <2>1. k \notin V
    BY <1>2, <1>3 DEF EntriesOf
  <2>2. QED
    BY <1>1, <1>3, <2>1
<1>4. QED
  BY <1>2, <1>3 DEF Lost

-----------------------------------------------------------------------------
(* The lists and the entries stay bounded. *)

Growth == /\ IsList(pos)
          /\ Cardinality(Resident) <= lim.real + Cardinality(Threads)
          /\ GhostsFew(ghosts)
          /\ FaultsCounted

(* With the invariant this is what NothingGrows says.                      *)
LEMMA GrowthBounds ==
  ASSUME IInv, Growth
  PROVE  NothingGrows
<1>1. ListsBounded
  BY DEF Growth, GhostsFew, ListsBounded
<1>2. NoEntryLeaks
  <2>1. \A k \in Resident : node[k] \in used /\ entry[node[k]].key = k
    BY DEF IInv, NodesOwnEntries
  <2>2. \A j, k \in Resident : node[j] = node[k] => j = k
    BY <2>1
  <2>3. Cardinality(used \ {node[k] : k \in Resident})
          + Cardinality({t \in Threads : pc[t] = "threw"}) <= faults
    BY DEF Growth, FaultsCounted, Lost, Threw
  <2>4. QED
    BY <2>1, <2>2, <2>3 DEF NoEntryLeaks
<1>3. QED
  BY <1>1, <1>2 DEF NothingGrows

(* The steps that leave the lists alone, or move a key in one.             *)
LEMMA NothingEvicted ==
  ASSUME IInv, Growth, UNCHANGED <<node, lim, ghosts, used>>,
         \/ pos' = pos
         \/ \E k \in Resident : pos' = ToFront(pos, k),
         Threw' \subseteq Threw, faults' \in Nat, faults' >= faults
  PROVE  Growth'
<1>1. IsList(pos')
  <2>1. ListOfKeys(pos) /\ IsList(pos) /\ Resident \subseteq Keys
    BY DEF IInv, TypeOK, ListOfKeys, Growth
  <2>2. QED
    BY <2>1, ToFrontIsList
<1>2. Resident' = Resident /\ Lost' = Lost
  BY DEF Resident, Lost
<1>3. FaultsCounted'
  BY <1>2, FaultsStay DEF Growth
<1>4. QED
  BY <1>1, <1>2, <1>3 DEF Growth, GhostsFew, IsList

(* lookup without a miss, and what threads do inside GetFrame afterwards.  *)
LEMMA QuietSteps ==
  ASSUME IInv, Growth, NEW t \in Threads,
         \/ SpuriousWakeup(t) \/ TakeValue(t) \/ WaitAgain(t) \/ ChildReturns(t) \/ CommitValue(t)
         \/ NotifyAll(t) \/ RollbackHandsOver(t) \/ NotifyOne(t) \/ ChildReturnsUncached(t)
         \/ Return(t) \/ \E k \in Keys : LookupReady(t, k) \/ LookupWait(t, k) \/ LookupNotAvailable(t, k)
  PROVE  Growth'
<1>1. faults' = faults /\ faults' \in Nat
  BY DEF IInv, TypeOK, SpuriousWakeup, TakeValue, WaitAgain, ChildReturns, CommitValue, NotifyAll,
     RollbackHandsOver, NotifyOne, ChildReturnsUncached, Return, LookupReady, LookupWait, LookupNotAvailable
<1>2. UNCHANGED <<node, lim, ghosts, used>>
  BY DEF cacheVars, SpuriousWakeup, TakeValue, WaitAgain, ChildReturns, CommitValue, NotifyAll,
     RollbackHandsOver, NotifyOne, ChildReturnsUncached, Return, LookupReady, LookupWait, LookupNotAvailable
<1>3. pos' = pos \/ \E k \in Resident : pos' = ToFront(pos, k)
  BY DEF cacheVars, SpuriousWakeup, TakeValue, WaitAgain, ChildReturns, CommitValue, NotifyAll,
     RollbackHandsOver, NotifyOne, ChildReturnsUncached, Return, LookupReady, LookupWait, LookupNotAvailable
<1>4. \A u \in Threads : pc'[u] = "threw" => pc[u] = "threw"
  <2>1. pc \in [Threads -> Places]
    BY DEF IInv, TypeOK
  <2>2. CASE SpuriousWakeup(t) \/ TakeValue(t) \/ WaitAgain(t) \/ ChildReturns(t) \/ CommitValue(t)
    BY <2>1, <2>2 DEF SpuriousWakeup, TakeValue, WaitAgain, ChildReturns, CommitValue
  <2>3. CASE RollbackHandsOver(t) \/ ChildReturnsUncached(t) \/ Return(t)
    BY <2>1, <2>3 DEF RollbackHandsOver, ChildReturnsUncached, Return
  <2>4. CASE NotifyAll(t) \/ NotifyOne(t)
    BY <2>1, <2>4 DEF NotifyAll, NotifyOne
  <2>5. CASE \E k \in Keys : LookupReady(t, k) \/ LookupWait(t, k) \/ LookupNotAvailable(t, k)
    BY <2>1, <2>5 DEF LookupReady, LookupWait, LookupNotAvailable, Call
  <2>6. QED
    BY <2>2, <2>3, <2>4, <2>5
<1>5. Threw' \subseteq Threw
  BY <1>4 DEF Threw
<1>6. faults' >= faults
  BY <1>1
<1>7. QED
  BY <1>1, <1>2, <1>3, <1>5, <1>6, NothingEvicted

(* A child that throws may cost an entry, and is counted.                  *)
LEMMA ChildThrowsGrowth ==
  ASSUME IInv, Growth, NEW t \in Threads, ChildThrows(t)
  PROVE  Growth'
<1>1. faults' = faults + 1 /\ UNCHANGED <<pos, node, lim, ghosts, used>>
  BY DEF ChildThrows, cacheVars
<1>2. Resident' = Resident /\ Lost' = Lost
  BY <1>1 DEF Resident, Lost
<1>3. Threw' \in SUBSET (Threw \cup {t})
  BY DEF ChildThrows, Threw, IInv, TypeOK
<1>4. IsFiniteSet(Threw)
  BY SetsAssumption, FS_Subset DEF Threw
<1>5. IsFiniteSet(Threw \cup {t}) /\ Cardinality(Threw \cup {t}) <= Cardinality(Threw) + 1
  BY <1>4, AtMostOneMore
<1>6. IsFiniteSet(Threw') /\ Cardinality(Threw') <= Cardinality(Threw \cup {t})
  BY <1>3, <1>5, FS_Subset
<1>7. /\ Cardinality(Threw') \in Nat /\ Cardinality(Threw \cup {t}) \in Nat
      /\ Cardinality(Threw) \in Nat /\ Cardinality(Lost) \in Nat
  BY <1>4, <1>5, <1>6, FS_CardinalityType DEF Growth, FaultsCounted
<1>8. Cardinality(Lost') + Cardinality(Threw') <= faults'
  <2>1. faults \in Nat /\ Cardinality(Lost) + Cardinality(Threw) <= faults
    BY DEF IInv, TypeOK, Growth, FaultsCounted
  <2>2. QED
    BY <1>1, <1>2, <1>5, <1>6, <1>7, <2>1
<1>9. FaultsCounted'
  BY <1>2, <1>8 DEF Growth, FaultsCounted
<1>10. QED
  BY <1>1, <1>2, <1>9 DEF Growth, GhostsFew, IsList

(* rollback loses the entry of the thread that threw.                      *)
LEMMA RollbackRemovesGrowth ==
  ASSUME IInv, Growth, NEW t \in Threads, RollbackRemoves(t)
  PROVE  Growth'
<1> DEFINE rest == Resident \ {entry[hnd[t]].key}
<1>1. /\ pos' = Keep(pos, rest) /\ node' = [k \in rest |-> node[k]]
      /\ UNCHANGED <<lim, ghosts, used, faults>>
      /\ pc[t] = "threw" /\ pc' = [pc EXCEPT ![t] = "idle"]
  BY DEF RollbackRemoves
<1>2. Resident' = rest /\ rest \in SUBSET Resident
  BY <1>1 DEF Resident
<1>3. entry[hnd[t]].key = req[t] /\ node[req[t]] = hnd[t] /\ req[t] \in Resident
  BY <1>1 DEF IInv, HeldEntryStays, NodesOwnEntries, Holding, Producing
<1>4. IsList(pos')
  BY <1>1, KeepIsList DEF IInv, TypeOK, Growth
<1>5. Cardinality(Resident') <= lim'.real + Cardinality(Threads)
  <2>1. IsFiniteSet(Resident)
    BY SetsAssumption, FS_Subset DEF IInv, TypeOK, ListOfKeys
  <2>2. IsFiniteSet(Resident') /\ Cardinality(Resident') <= Cardinality(Resident)
    BY <1>2, <2>1, FS_Subset
  <2>3. Cardinality(Resident) \in Nat /\ Cardinality(Resident') \in Nat /\ Cardinality(Threads) \in Nat
    BY <2>1, <2>2, SetsAssumption, FS_CardinalityType
  <2>4. lim.real \in Nat /\ lim' = lim
    BY <1>1 DEF IInv, TypeOK
  <2>5. QED
    BY <2>2, <2>3, <2>4 DEF Growth
<1>6. FaultsCounted'
  <2>1. Lost' \in SUBSET (Lost \cup {hnd[t]})
    <3> SUFFICES ASSUME NEW e \in Lost' PROVE e \in Lost \cup {hnd[t]}
      OBVIOUS
    <3>1. e \in used /\ e \notin {node'[k] : k \in rest}
      BY <1>1, <1>2 DEF Lost
    <3>2. ASSUME NEW k \in Resident, e = node[k] PROVE e = hnd[t]
      BY <1>1, <1>3, <3>1, <3>2
    <3>3. QED
      BY <3>1, <3>2 DEF Lost
  <2>2. Threw' = Threw \ {t} /\ t \in Threw
    BY <1>1 DEF Threw, IInv, TypeOK
  <2>3. IsFiniteSet(Lost) /\ IsFiniteSet(Threw)
    BY SetsAssumption, FS_Subset DEF Threw, Growth, FaultsCounted
  <2>4. IsFiniteSet(Lost \cup {hnd[t]}) /\ Cardinality(Lost \cup {hnd[t]}) <= Cardinality(Lost) + 1
    BY <2>3, AtMostOneMore
  <2>5. IsFiniteSet(Lost') /\ Cardinality(Lost') <= Cardinality(Lost \cup {hnd[t]})
    BY <2>1, <2>4, FS_Subset
  <2>6. Cardinality(Threw') = Cardinality(Threw) - 1
    BY <2>2, <2>3, FS_RemoveElement
  <2>7. /\ Cardinality(Threw) \in Nat /\ Cardinality(Lost) \in Nat
        /\ Cardinality(Lost') \in Nat /\ Cardinality(Lost \cup {hnd[t]}) \in Nat
    BY <2>3, <2>4, <2>5, FS_CardinalityType
  <2>8. Cardinality(Lost') + Cardinality(Threw') <= faults'
    <3>1. /\ faults \in Nat /\ faults' = faults
          /\ Cardinality(Lost) + Cardinality(Threw) <= faults
      BY <1>1 DEF IInv, TypeOK, Growth, FaultsCounted
    <3>2. QED
      BY <2>4, <2>5, <2>6, <2>7, <3>1
  <2>9. QED
    BY <2>5, <2>8 DEF FaultsCounted
<1>7. GhostsFew(ghosts)'
  BY <1>1 DEF Growth, GhostsFew, IsList
<1>8. QED
  BY <1>4, <1>5, <1>6, <1>7 DEF Growth

(* The bound on the resident keys after a step that trims to the new       *)
(* capacity, and perhaps inserts a key for a thread that was not busy.     *)
LEMMA ResidentBound ==
  ASSUME IInv, NEW list, ListOfKeys(list), IsList(list),
         lim'.real \in Nat,
         NEW S \in SUBSET (DOMAIN list \cap Resident), S \cap Victims(list, lim'.real) = {},
         \/ Resident' = S
         \/ \E t \in Threads : \E k : pc[t] = "idle" /\ Resident' = S \cup {k}
  PROVE  Cardinality(Resident') <= lim'.real + Cardinality(Threads)
<1>1. IsFiniteSet(S) /\ Cardinality(S) <= lim'.real + Cardinality(Busy)
  BY TrimBound
<1>2. IsFiniteSet(Busy) /\ Cardinality(Busy) <= Cardinality(Threads)
  BY SetsAssumption, FS_Subset DEF Busy
<1>3. Cardinality(S) \in Nat /\ Cardinality(Busy) \in Nat /\ Cardinality(Threads) \in Nat
  BY <1>1, <1>2, SetsAssumption, FS_CardinalityType
<1>4. CASE Resident' = S
  BY <1>1, <1>2, <1>3, <1>4
<1>5. ASSUME NEW t \in Threads, NEW k, pc[t] = "idle", Resident' = S \cup {k}
      PROVE  Cardinality(Resident') <= lim'.real + Cardinality(Threads)
  <2>1. IsFiniteSet(Threads \ {t}) /\ Cardinality(Threads \ {t}) = Cardinality(Threads) - 1
    BY SetsAssumption, FS_RemoveElement
  <2>2. Busy \in SUBSET (Threads \ {t})
    BY <1>5 DEF Busy, Holding, Waiting, Producing
  <2>3. Cardinality(Busy) <= Cardinality(Threads \ {t})
    BY <2>1, <2>2, FS_Subset
  <2>4. Cardinality(S \cup {k}) <= Cardinality(S) + 1 /\ Cardinality(S \cup {k}) \in Nat
    BY <1>1, AtMostOneMore
  <2>5. QED
    BY <1>1, <1>3, <1>5, <2>1, <2>3, <2>4
<1>6. QED
  BY <1>4, <1>5

(* set_limits trims to the new capacity.                                   *)
LEMMA SetLimitsGrowth ==
  ASSUME IInv, Growth, NEW l \in Limits, SetLimits(l[1], l[2])
  PROVE  Growth'
<1> DEFINE new == Resized([lim EXCEPT !.min = l[1], !.max = l[2]], lim.req)
           V == Victims(pos, new.real)
<1>1. new \in Capacities
  <2>1. l[1] \in Nat /\ l[2] \in Nat
    BY SizesAssumption
  <2>2. [lim EXCEPT !.min = l[1], !.max = l[2]] \in Capacities /\ lim.req \in Nat
    BY <2>1 DEF IInv, TypeOK, Capacities
  <2>3. QED
    BY <2>2, ResizedType DEF Capacities
<1>2. /\ UNCHANGED <<pc, faults>>
      /\ lim' = new
      /\ ghosts' = GhostsAfter(ghosts, pos, V)
      /\ pos' = ListAfter(pos, V)
      /\ node' = [j \in Resident \ V |-> node[j]]
      /\ used' = UsedAfter(V)
  BY DEF SetLimits
<1>3. V \in SUBSET Resident /\ V \in SUBSET DOMAIN pos
  BY DEF Victims, IInv, TypeOK
<1>4. ListOfKeys(pos) /\ DOMAIN pos = Resident /\ IsList(pos)
  BY DEF IInv, TypeOK, Growth
<1>5. (Resident \ V) \cap Victims(pos, lim'.real) = {}
  BY <1>2
<1> HIDE DEF V, new
<1>6. IsList(pos')
  BY <1>2, <1>4, KeepIsList DEF ListAfter
<1>7. Resident' = Resident \ V
  BY <1>2 DEF Resident
<1>8. Cardinality(Resident') <= lim'.real + Cardinality(Threads)
  <2>1. lim'.real \in Nat /\ Resident \ V \in SUBSET (DOMAIN pos \cap Resident)
    BY <1>1, <1>2, <1>4 DEF Capacities
  <2>2. QED
    BY <1>4, <1>5, <1>7, <2>1, ResidentBound
<1>9. GhostsFew(ghosts')
  <2>1. GhostsOK(ghosts) /\ GhostsFew(ghosts)
    BY DEF IInv, TypeOK, GhostsOK, Growth
  <2>2. QED
    BY <1>2, <1>3, <1>4, <2>1, GhostsAfterFew
<1>10. FaultsCounted'
  <2>1. Lost' \subseteq Lost
    BY <1>2, <1>3, <1>7, EvictionLosesNothing
  <2>2. Threw' = Threw /\ faults' = faults /\ faults \in Nat
    BY <1>2 DEF Threw, IInv, TypeOK
  <2>3. QED
    BY <2>1, <2>2, FaultsStay DEF Growth
<1>11. QED
  BY <1>6, <1>8, <1>9, <1>10 DEF Growth, GhostsFew, IsList

(* A miss without storage trims to nothing.                                *)
LEMMA LookupNoCacheGrowth ==
  ASSUME IInv, Growth, NEW t \in Threads, NEW k \in Keys, LookupNoCache(t, k)
  PROVE  Growth'
<1> DEFINE V     == Victims(pos, 0)
           after == ListAfter(pos, V)
           h     == GhostsAfter(ghosts, pos, V)
           g     == GhostSeen(h, k)
           grown == GrownGhosts(g, k, after)
<1>1. V \in SUBSET Resident /\ V \in SUBSET DOMAIN pos
  BY DEF Victims, IInv, TypeOK
<1>2. /\ pc' = [pc EXCEPT ![t] = "nocache"] /\ faults' = faults
      /\ lim' = GrownLimits(g, k)
      /\ ghosts' = [grown EXCEPT !.hot = (@ \cup {k}) \cap DOMAIN grown.list]
      /\ pos' = after
      /\ node' = [j \in Resident \ V |-> node[j]]
      /\ used' = UsedAfter(V)
  BY DEF LookupNoCache, Call
<1>3. (Resident \ V) \cap Victims(pos, 0) = {}
  OBVIOUS
<1> HIDE DEF V
<1>4. ListOfKeys(pos) /\ DOMAIN pos = Resident /\ IsList(pos)
  BY DEF IInv, TypeOK, Growth
<1>5. ListOfKeys(after) /\ IsList(after)
  BY <1>4, ListAfterType, KeepIsList DEF ListAfter
<1>6. Resident' = Resident \ V
  BY <1>2 DEF Resident
<1>7. Cardinality(Resident') <= lim'.real + Cardinality(Threads)
  <2>1. Resident \ V \in SUBSET (DOMAIN pos \cap Resident)
    BY <1>4
  <2>2. Cardinality(Resident') <= 0 + Cardinality(Busy)
    BY <1>3, <1>4, <1>6, <2>1, TrimBound
  <2>3. IsFiniteSet(Busy) /\ Cardinality(Busy) <= Cardinality(Threads)
    BY SetsAssumption, FS_Subset DEF Busy
  <2>4. IsFiniteSet(Resident')
    BY <1>3, <1>4, <1>6, <2>1, TrimBound
  <2>5. /\ Cardinality(Busy) \in Nat /\ Cardinality(Threads) \in Nat
        /\ Cardinality(Resident') \in Nat
    BY <2>3, <2>4, SetsAssumption, FS_CardinalityType
  <2>6. lim'.real \in Nat
    BY <1>2, GrownLimitsType DEF Capacities, IInv
  <2>7. QED
    BY <2>2, <2>3, <2>5, <2>6
<1>8. GhostsOK(grown) /\ GhostsFew(grown)
  <2>1. GhostsOK(ghosts) /\ GhostsFew(ghosts)
    BY DEF IInv, TypeOK, GhostsOK, Growth
  <2>2. GhostsOK(h) /\ GhostsFew(h)
    <3>1. V \in SUBSET Keys
      BY <1>1, <1>4 DEF ListOfKeys
    <3>2. QED
      BY <1>1, <1>4, <2>1, <3>1, GhostsAfterType, GhostsAfterFew
  <2> HIDE DEF h
  <2>3. GhostsOK(g) /\ GhostsFew(g)
    BY <2>2, GhostSeenType, GhostSeenFew
  <2> HIDE DEF g, after
  <2>4. QED
    BY <1>5, <2>3, GrownGhostsType, GrownGhostsFew DEF IInv
<1> HIDE DEF grown
<1>9. GhostsFew(ghosts')
  BY <1>2, <1>8 DEF GhostsOK, GhostsFew
<1>10. FaultsCounted'
  <2>1. Lost' \subseteq Lost
    BY <1>1, <1>2, <1>6, EvictionLosesNothing
  <2>2. Threw' \subseteq Threw /\ faults' = faults /\ faults \in Nat
    BY <1>2 DEF Threw, IInv, TypeOK
  <2>3. QED
    BY <2>1, <2>2, FaultsStay DEF Growth
<1>11. QED
  BY <1>2, <1>5, <1>7, <1>9, <1>10 DEF Growth, GhostsFew, IsList

(* A miss with storage inserts one key, for a thread that was not busy,    *)
(* after a trim; when the cache grows, a second trim to the new capacity   *)
(* follows.                                                                *)
LEMMA LookupMissGrowth ==
  ASSUME IInv, Growth, NEW t \in Threads, NEW k \in Keys, LookupMiss(t, k)
  PROVE  Growth'
<1> DEFINE V0   == Victims(pos, lim.real)
           h    == GhostsAfter(ghosts, pos, V0)
           g    == GhostSeen(h, k)
           left == ListAfter(pos, V0)
           list == ToFront(left, k)
           W    == GrowthVictims(g, k, list)
           V    == V0 \cup W
<1>1. /\ V0 \in SUBSET Resident /\ V0 \in SUBSET DOMAIN pos
      /\ W \in SUBSET Resident
  BY DEF GrowthVictims, Victims, IInv, TypeOK
<1>2. PICK e \in Entries \ UsedAfter(V) :
        /\ node' = [j \in (Resident \ V) \cup {k} |-> IF j = k THEN e ELSE node[j]]
        /\ used' = UsedAfter(V) \cup {e}
  BY DEF LookupMiss
<1>3. /\ k \notin Resident
      /\ pc[t] = "idle" /\ pc' = [pc EXCEPT ![t] = "compute"]
      /\ lim' = GrownLimits(g, k)
      /\ ghosts' = GrownGhosts(g, k, list)
      /\ pos' = ListAfter(list, V)
      /\ faults' = faults
  BY DEF LookupMiss, Call
<1>4. /\ (Resident \ V) \cap Victims(pos, lim.real) = {}
      /\ k \in g.hot => (Resident \ V) \cap Victims(list, GrownLimits(g, k).real) = {}
  BY DEF GrowthVictims
<1> HIDE DEF LookupMiss, V0, W
<1>5. ListOfKeys(pos) /\ DOMAIN pos = Resident /\ IsList(pos)
  BY DEF IInv, TypeOK, Growth
<1>6. ListOfKeys(left) /\ DOMAIN left = Resident \ V0 /\ IsList(left)
  <2>1. DOMAIN pos \ V0 \in SUBSET DOMAIN pos
    OBVIOUS
  <2>2. QED
    BY <1>5, <2>1, ListAfterType, KeepIsList DEF ListAfter
<1> HIDE DEF left
<1>7. ListOfKeys(list) /\ DOMAIN list = (Resident \ V0) \cup {k} /\ IsList(list)
  BY <1>6, ToFrontType, ToFrontIsList
<1> HIDE DEF list
<1>8. IsList(pos')
  <2>1. DOMAIN list \ V \in SUBSET DOMAIN list
    OBVIOUS
  <2>2. QED
    BY <1>3, <1>7, <2>1, KeepIsList DEF ListAfter
<1>9. Resident' = (Resident \ V) \cup {k}
  BY <1>2 DEF Resident
<1>10. Cardinality(Resident') <= lim'.real + Cardinality(Threads)
  <2>1. lim'.real \in Nat
    BY <1>3, GrownLimitsType DEF Capacities, IInv
  <2>2. CASE k \in g.hot
    <3>1. Resident \ V \in SUBSET (DOMAIN list \cap Resident)
      BY <1>7 DEF V
    <3>2. (Resident \ V) \cap Victims(list, lim'.real) = {}
      BY <1>3, <1>4, <2>2
    <3> HIDE DEF V, g
    <3>3. QED
      BY <1>3, <1>7, <1>9, <2>1, <3>1, <3>2, ResidentBound
  <2>3. CASE k \notin g.hot
    <3>1. Resident \ V \in SUBSET (DOMAIN pos \cap Resident)
      BY <1>5
    <3>2. lim' = lim
      BY <1>3, <2>3 DEF GrownLimits
    <3>3. (Resident \ V) \cap Victims(pos, lim'.real) = {}
      BY <1>4, <3>2
    <3> HIDE DEF V, g
    <3>4. QED
      BY <1>3, <1>5, <1>9, <2>1, <3>1, <3>3, ResidentBound
  <2>4. QED
    BY <2>2, <2>3
<1>11. GhostsFew(ghosts')
  <2>1. GhostsOK(ghosts) /\ GhostsFew(ghosts)
    BY DEF IInv, TypeOK, GhostsOK, Growth
  <2>2. GhostsOK(h) /\ GhostsFew(h)
    <3>1. V0 \in SUBSET Keys
      BY <1>1, <1>5 DEF ListOfKeys
    <3>2. QED
      BY <1>1, <1>5, <2>1, <3>1, GhostsAfterType, GhostsAfterFew
  <2> HIDE DEF h
  <2>3. GhostsOK(g) /\ GhostsFew(g)
    BY <2>2, GhostSeenType, GhostSeenFew
  <2> HIDE DEF g
  <2>4. GhostsFew(GrownGhosts(g, k, list))
    BY <1>7, <2>3, GrownGhostsFew DEF IInv
  <2>5. QED
    BY <1>3, <2>4
<1>12. FaultsCounted'
  <2>1. V \in SUBSET Resident
    BY <1>1
  <2> HIDE DEF V, g
  <2>2. Resident \ V \subseteq Resident' /\ \A j \in Resident \ V : node'[j] = node[j]
    BY <1>2, <1>3, <1>9
  <2>3. {e} \subseteq {node'[j] : j \in Resident'}
    BY <1>2, <1>9
  <2>4. Lost' \subseteq Lost
    BY <1>2, <2>1, <2>2, <2>3, EvictionLosesNothing
  <2>5. Threw' \subseteq Threw /\ faults' = faults /\ faults \in Nat
    BY <1>3 DEF Threw, IInv, TypeOK
  <2>6. QED
    BY <2>4, <2>5, FaultsStay DEF Growth
<1>13. QED
  BY <1>8, <1>10, <1>11, <1>12 DEF Growth, GhostsFew, IsList

(* The constructed cache is empty.                                         *)
LEMMA InitGrowth == Init => Growth
<1> SUFFICES ASSUME Init PROVE Growth
  OBVIOUS
<1>1. Resident = {} /\ Lost = {} /\ Threw = {}
  BY DEF Init, Resident, Lost, Threw
<1>2. IsList(EmptyList) /\ Cardinality(DOMAIN EmptyList) = 0
  <2>1. DOMAIN EmptyList = {} /\ Cardinality({}) = 0
    BY FS_EmptySet DEF EmptyList
  <2>2. {EmptyList[k] : k \in DOMAIN EmptyList} = 1 .. 0
    BY <2>1
  <2>3. QED
    BY <2>1, <2>2 DEF IsList
<1>3. Cardinality(Threads) \in Nat
  BY SetsAssumption, FS_CardinalityType
<1>4. QED
  BY <1>1, <1>2, <1>3, FS_EmptySet, SizesAssumption DEF Init, Growth, GhostsFew, FaultsCounted

(* Every step keeps the bounds.                                            *)
LEMMA NextGrowth == IInv /\ Growth /\ [Next]_vars => Growth'
<1> SUFFICES ASSUME IInv, Growth, [Next]_vars PROVE Growth'
  OBVIOUS
<1>1. CASE UNCHANGED vars
  BY <1>1 DEF vars, Growth, GhostsFew, FaultsCounted, Lost, Threw, Resident, IsList
<1>2. ASSUME NEW t \in Threads, Lookup(t) PROVE Growth'
  <2>1. PICK k \in Keys : \/ LookupReady(t, k) \/ LookupWait(t, k) \/ LookupNotAvailable(t, k)
                          \/ LookupMiss(t, k) \/ LookupNoCache(t, k)
    BY <1>2 DEF Lookup
  <2>2. QED
    BY <2>1, QuietSteps, LookupMissGrowth, LookupNoCacheGrowth
<1>3. ASSUME NEW t \in Threads, SpuriousWakeup(t) \/ ChildThrows(t) PROVE Growth'
  BY <1>3, QuietSteps, ChildThrowsGrowth
<1>4. ASSUME NEW t \in Threads, Proceed(t) PROVE Growth'
  BY <1>4, QuietSteps, RollbackRemovesGrowth DEF Proceed
<1>5. ASSUME NEW l \in Limits, SetLimits(l[1], l[2]) PROVE Growth'
  BY <1>5, SetLimitsGrowth
<1>6. QED
  BY <1>1, <1>2, <1>3, <1>4, <1>5 DEF Next

(* Neither the lists nor the entries of the cache grow for ever: locked    *)
(* entries overfill it by no more than one for each thread, ghosts exceed  *)
(* their capacity by one, and rollback loses one entry per failure.        *)
THEOREM NothingGrowsForever == Spec => []NothingGrows
<1>1. IInv /\ Growth => NothingGrows
  BY GrowthBounds
<1>2. QED
  BY <1>1, InitIInv, NextIInv, InitGrowth, NextGrowth, PTL DEF Spec

-----------------------------------------------------------------------------
(* Evictions take the oldest first. *)

(* A trim passes over what is held only.                                   *)
LEMMA TrimTakesOldest ==
  ASSUME NEW list, ListOfKeys(list), NEW cap \in Nat,
         NEW j \in DOMAIN list \cap Resident, NEW k \in Victims(list, cap),
         list[j] > list[k], j \notin Victims(list, cap)
  PROVE  ~Evictable(j)
<1>1. list[k] > cap /\ list[k] \in Nat /\ list[j] \in Nat
  BY DEF Victims, Beyond, ListOfKeys
<1>2. QED
  BY <1>1 DEF Victims, Beyond

(* Neither a trim nor an insertion at the front changes the order of the   *)
(* other keys.                                                             *)
LEMMA OrderStays ==
  ASSUME NEW list, ListOfKeys(list), NEW V, NEW k, k \notin DOMAIN list,
         NEW i \in DOMAIN list \ V, NEW j \in DOMAIN list \ V, list[i] < list[j]
  PROVE  ToFront(ListAfter(list, V), k)[i] < ToFront(ListAfter(list, V), k)[j]
<1> DEFINE S == DOMAIN list \ V
           kept == ListAfter(list, V)
           new == ToFront(kept, k)
<1>1. S \in SUBSET Keys /\ \A x \in S : list[x] \in Nat
  BY DEF ListOfKeys
<1>2. /\ DOMAIN kept = S /\ \A x \in S : kept[x] = Rank(list, S, x) /\ kept[x] \in Nat
  BY <1>1, RankType DEF ListAfter, Keep
<1>3. kept[i] < kept[j]
  <2>1. ~(Rank(list, S, j) <= Rank(list, S, i))
    <3>1. ~(list[j] <= list[i])
      BY <1>1
    <3> HIDE DEF S
    <3>2. QED
      BY <1>1, <3>1, RankOrder DEF S
  <2>2. QED
    BY <1>2, <2>1
<1> HIDE DEF kept
<1>4. ~(Rank(kept, S, j) <= Rank(kept, S, i))
  <2>1. ~(kept[j] <= kept[i])
    BY <1>2, <1>3
  <2> HIDE DEF S
  <2>2. QED
    BY <1>1, <1>2, <2>1, RankOrder DEF S
<1>5. Rank(kept, S, i) \in Nat /\ Rank(kept, S, j) \in Nat
  BY <1>1, RankType
<1>6. S \ {k} = S
  OBVIOUS
<1>7. new[i] = 1 + Rank(kept, S, i) /\ new[j] = 1 + Rank(kept, S, j)
  BY <1>2, <1>6 DEF ToFront
<1>8. QED
  BY <1>4, <1>5, <1>7 DEF kept

EvictsOldest == \A k \in Resident \ Resident', j \in Resident \cap Resident' :
                  Evictable(k) /\ pos[j] > pos[k] => ~Evictable(j)

(* A step that takes the victims of one trim of the list.                  *)
LEMMA OneTrim ==
  ASSUME IInv, NEW cap \in Nat, Resident' = Resident \ Victims(pos, cap)
  PROVE  EvictsOldest
<1>1. ListOfKeys(pos) /\ DOMAIN pos = Resident
  BY DEF IInv, TypeOK
<1>2. QED
  BY <1>1, TrimTakesOldest DEF EvictsOldest, Victims

(* A miss: the second trim sees the survivors of the first in their order, *)
(* the new key before them.                                                *)
LEMMA MissTakesOldest ==
  ASSUME IInv, NEW t \in Threads, NEW k \in Keys, LookupMiss(t, k)
  PROVE  EvictsOldest
<1> DEFINE V0   == Victims(pos, lim.real)
           g    == GhostSeen(GhostsAfter(ghosts, pos, V0), k)
           list == ToFront(ListAfter(pos, V0), k)
           cap  == GrownLimits(g, k).real
           W    == GrowthVictims(g, k, list)
<1>1. ListOfKeys(pos) /\ DOMAIN pos = Resident /\ lim.real \in Nat /\ cap \in Nat
  BY GrownLimitsType DEF IInv, TypeOK, Capacities
<1>2. k \notin Resident /\ Resident' = (Resident \ (V0 \cup W)) \cup {k}
  BY DEF LookupMiss, Resident
<1>3. W = {} \/ W = Victims(list, cap)
  BY DEF GrowthVictims
<1>4. ListOfKeys(list) /\ DOMAIN list = (Resident \ V0) \cup {k}
  <2>1. ListOfKeys(ListAfter(pos, V0)) /\ DOMAIN ListAfter(pos, V0) = Resident \ V0
    BY <1>1, ListAfterType
  <2>2. QED
    BY <2>1, ToFrontType
<1> SUFFICES ASSUME NEW i \in Resident \ Resident', NEW j \in Resident \cap Resident',
                    pos[j] > pos[i]
             PROVE  ~Evictable(j)
  BY DEF EvictsOldest
<1>5. j \in Resident \ V0 /\ j \notin W /\ (i \in V0 \/ i \in W)
  BY <1>2
<1>6. CASE i \in V0
  BY <1>1, <1>5, <1>6, TrimTakesOldest
<1>7. CASE i \in W /\ i \notin V0
  <2>1. i \in DOMAIN pos \ V0 /\ j \in DOMAIN pos \ V0 /\ pos[i] < pos[j]
    <3>1. i \in DOMAIN pos \ V0 /\ j \in DOMAIN pos \ V0
      BY <1>1, <1>5, <1>7
    <3>2. pos[i] \in Nat /\ pos[j] \in Nat
      BY <1>1, <3>1 DEF ListOfKeys
    <3>3. QED
      BY <3>1, <3>2
  <2> HIDE DEF V0, cap
  <2>2. list[i] < list[j]
    BY <1>1, <1>2, <2>1, OrderStays
  <2>3. list[j] > list[i]
    BY <1>1, <1>4, <2>1, <2>2 DEF ListOfKeys
  <2> HIDE DEF list, g, W
  <2>4. QED
    BY <1>1, <1>3, <1>4, <1>5, <1>7, <2>1, <2>3, TrimTakesOldest
<1>8. QED
  BY <1>5, <1>6, <1>7

(* Every step that takes keys away obeys the order.                        *)
LEMMA NextTakesOldest == IInv /\ [Next]_vars => EvictsOldest
<1> SUFFICES ASSUME IInv, [Next]_vars PROVE EvictsOldest
  OBVIOUS
<1>1. CASE Resident' = Resident
  BY <1>1 DEF EvictsOldest
<1>2. CASE UNCHANGED node
  BY <1>1, <1>2 DEF Resident
<1>3. ASSUME NEW t \in Threads, RollbackRemoves(t) PROVE EvictsOldest
  <2>1. Resident' = Resident \ {entry[hnd[t]].key} /\ pc[t] = "threw" /\ entry[hnd[t]].locks = 1
    BY <1>3 DEF RollbackRemoves, Resident
  <2>2. entry[hnd[t]].key = req[t] /\ node[req[t]] = hnd[t]
    BY <2>1 DEF IInv, HeldEntryStays, NodesOwnEntries, Holding, Producing
  <2>3. QED
    BY <2>1, <2>2 DEF EvictsOldest, Evictable
<1>4. ASSUME NEW t \in Threads, NEW k \in Keys, LookupNoCache(t, k) PROVE EvictsOldest
  <2>1. Resident' = Resident \ Victims(pos, 0)
    BY <1>4 DEF LookupNoCache, Resident
  <2>2. QED
    BY <2>1, OneTrim
<1>5. ASSUME NEW l \in Limits, SetLimits(l[1], l[2]) PROVE EvictsOldest
  <2> DEFINE new == Resized([lim EXCEPT !.min = l[1], !.max = l[2]], lim.req)
  <2>1. new.real \in Nat
    <3>1. l[1] \in Nat /\ l[2] \in Nat
      BY SizesAssumption
    <3>2. [lim EXCEPT !.min = l[1], !.max = l[2]] \in Capacities /\ lim.req \in Nat
      BY <3>1 DEF IInv, TypeOK, Capacities
    <3>3. QED
      BY <3>2, ResizedType DEF Capacities
  <2>2. Resident' = Resident \ Victims(pos, new.real)
    BY <1>5 DEF SetLimits, Resident
  <2> HIDE DEF new
  <2>3. QED
    BY <2>1, <2>2, OneTrim
<1>6. ASSUME NEW t \in Threads, Lookup(t) PROVE EvictsOldest
  <2>1. PICK k \in Keys : \/ LookupReady(t, k) \/ LookupWait(t, k) \/ LookupNotAvailable(t, k)
                          \/ LookupMiss(t, k) \/ LookupNoCache(t, k)
    BY <1>6 DEF Lookup
  <2>2. QED
    BY <1>2, <1>4, <2>1, MissTakesOldest DEF LookupReady, LookupWait, LookupNotAvailable
<1>7. ASSUME NEW t \in Threads, SpuriousWakeup(t) \/ ChildThrows(t) PROVE EvictsOldest
  BY <1>2, <1>7 DEF SpuriousWakeup, ChildThrows, cacheVars
<1>8. ASSUME NEW t \in Threads, Proceed(t) PROVE EvictsOldest
  <2>1. RollbackRemoves(t) \/ UNCHANGED node
    BY <1>8 DEF Proceed, TakeValue, WaitAgain, ChildReturns, CommitValue, NotifyAll,
       RollbackHandsOver, NotifyOne, ChildReturnsUncached, Return, cacheVars
  <2>2. QED
    BY <1>2, <1>3, <2>1
<1>9. CASE UNCHANGED vars
  BY <1>2, <1>9 DEF vars
<1>10. QED
  BY <1>5, <1>6, <1>7, <1>8, <1>9 DEF Next

(* An eviction, whichever operation trims, never takes a key while it      *)
(* keeps a less recently used one that nobody holds.                       *)
THEOREM OldestGoFirst == Spec => EvictsOldestFirst
<1>1. IInv /\ [Next]_vars => [EvictsOldest]_vars
  BY NextTakesOldest
<1>2. [EvictsOldest]_vars <=>
        [\A k \in Resident \ Resident', j \in Resident \cap Resident' :
            Evictable(k) /\ pos[j] > pos[k] => ~Evictable(j)]_vars
  BY DEF EvictsOldest
<1>3. QED
  BY <1>1, <1>2, InitIInv, NextIInv, PTL DEF Spec, EvictsOldestFirst

-----------------------------------------------------------------------------
(* LruCache implements the steps of FrameMemo. *)

(* An entry with a producer is EMPTY; one that is not AVAILABLE has        *)
(* somebody who waits for it or fills it, and no frame yet, unless its     *)
(* producer has stored it and not committed.                               *)
ProducersBusy ==
  \A t \in Threads : pc[t] \in Producing => entry[hnd[t]].state = "empty"

UnfinishedHeld ==
  \A k \in Resident : entry[node[k]].state # "available" => Holders(node[k]) # {}

UnfilledNull ==
  \A k \in Resident : entry[node[k]].state # "available" =>
    entry[node[k]].value = None \/ \E t \in Threads : pc[t] = "stored" /\ hnd[t] = node[k]

MInv == ProducersBusy /\ UnfinishedHeld /\ UnfilledNull

(* What is known of a thread that holds an entry.                          *)
LEMMA HeldFacts ==
  ASSUME IInv, NEW t \in Threads, pc[t] \in Holding
  PROVE  /\ req[t] \in Resident /\ req[t] \in Keys
         /\ hnd[t] = node[req[t]] /\ hnd[t] \in Entries
         /\ entry[hnd[t]] \in EntryType /\ entry[hnd[t]].key = req[t]
         /\ \A k \in Resident : node[k] = hnd[t] => k = req[t]
         /\ t \in Holders(hnd[t])
BY DEF IInv, HeldEntryStays, NodesOwnEntries, TypeOK, ListOfKeys, Holders

(* What is known of a resident key.                                        *)
LEMMA ResidentFacts ==
  ASSUME IInv, NEW k \in Resident
  PROVE  /\ k \in Keys /\ node[k] \in Entries /\ entry[node[k]] \in EntryType
         /\ \A j \in Resident : node[j] = node[k] => j = k
BY DEF IInv, NodesOwnEntries, TypeOK, ListOfKeys

(* Steps that change no entry and take no holder away.                     *)
LEMMA EntriesUntouched ==
  ASSUME IInv, MInv, UNCHANGED <<node, entry>>,
         \A e : Holders(e) \subseteq Holders(e)',
         \A u \in Threads : /\ pc'[u] \in Producing => pc[u] = pc'[u] /\ hnd'[u] = hnd[u]
                            /\ pc[u] = "stored" => pc'[u] = "stored" /\ hnd'[u] = hnd[u]
  PROVE  MInv'
<1>1. Resident' = Resident
  BY DEF Resident
<1>2. ProducersBusy'
  BY DEF MInv, ProducersBusy
<1>3. UnfinishedHeld'
  BY <1>1 DEF MInv, UnfinishedHeld
<1>4. UnfilledNull'
  BY <1>1 DEF MInv, UnfilledNull
<1>5. QED
  BY <1>2, <1>3, <1>4 DEF MInv

(* Finding a frame, waking up, notifying and returning leave the entries   *)
(* alone: no producer appears or goes.                                     *)
LEMMA QuietMInv ==
  ASSUME IInv, MInv, NEW t \in Threads,
         \/ SpuriousWakeup(t) \/ NotifyAll(t) \/ NotifyOne(t) \/ ChildReturnsUncached(t) \/ Return(t)
         \/ \E k \in Keys : LookupReady(t, k) \/ LookupNotAvailable(t, k)
  PROVE  MInv'
<1>1. pc \in [Threads -> Places] /\ hnd \in [Threads -> Entries \cup {None}]
  BY DEF IInv, TypeOK
<1>2. UNCHANGED <<node, entry>>
  BY DEF SpuriousWakeup, NotifyAll, NotifyOne, ChildReturnsUncached, Return, LookupReady,
     LookupNotAvailable, cacheVars
<1>3. \A u \in Threads : /\ pc[u] \in Holding => pc'[u] \in Holding /\ hnd'[u] = hnd[u]
                         /\ pc'[u] \in Producing \/ pc[u] \in Producing =>
                              pc'[u] = pc[u] /\ hnd'[u] = hnd[u]
  <2> USE <1>1 DEF Holding, Waiting, Producing
  <2>1. CASE SpuriousWakeup(t) \/ NotifyAll(t)
    BY <2>1 DEF SpuriousWakeup, NotifyAll
  <2>2. CASE NotifyOne(t)
    BY <2>2 DEF NotifyOne
  <2>3. CASE ChildReturnsUncached(t) \/ Return(t)
    BY <2>3 DEF ChildReturnsUncached, Return
  <2>4. ASSUME NEW k \in Keys, LookupReady(t, k)
        PROVE  /\ pc[t] = "idle" /\ pc' = [pc EXCEPT ![t] = "done"]
               /\ hnd' = [hnd EXCEPT ![t] = node[k]]
    BY <2>4 DEF LookupReady, Call
  <2>5. ASSUME NEW k \in Keys, LookupNotAvailable(t, k)
        PROVE  UNCHANGED <<pc, hnd>>
    BY <2>5 DEF LookupNotAvailable
  <2>6. QED
    BY <2>1, <2>2, <2>3, <2>4, <2>5
<1>4. \A e : Holders(e) \subseteq Holders(e)'
  BY <1>3 DEF Holders
<1>5. \A u \in Threads : /\ pc'[u] \in Producing => pc[u] = pc'[u] /\ hnd'[u] = hnd[u]
                         /\ pc[u] = "stored" => pc'[u] = "stored" /\ hnd'[u] = hnd[u]
  BY <1>3 DEF Producing
<1>6. QED
  BY <1>2, <1>4, <1>5, EntriesUntouched

(* One more waiter.                                                        *)
LEMMA LookupWaitMInv ==
  ASSUME IInv, MInv, NEW t \in Threads, NEW k \in Keys, LookupWait(t, k)
  PROVE  MInv'
<1>1. /\ pc \in [Threads -> Places] /\ pc[t] = "idle" /\ pc' = [pc EXCEPT ![t] = "wait"]
      /\ hnd' = [hnd EXCEPT ![t] = node[k]] /\ hnd \in [Threads -> Entries \cup {None}]
      /\ k \in Resident /\ UNCHANGED node
      /\ entry' = [entry EXCEPT ![node[k]].locks = @ + 1] /\ entry \in [Entries -> EntryType]
  BY DEF LookupWait, Call, IInv, TypeOK
<1>2. \A e \in Entries : entry'[e].state = entry[e].state /\ entry'[e].value = entry[e].value
  BY <1>1 DEF EntryType
<1>3. Resident' = Resident /\ \A j \in Resident : node'[j] = node[j] /\ node[j] \in Entries
  BY <1>1, ResidentFacts DEF Resident
<1>4. \A u \in Threads : /\ pc'[u] \in Producing => pc[u] = pc'[u] /\ hnd'[u] = hnd[u]
                         /\ pc[u] \in Holding => pc'[u] = pc[u] /\ hnd'[u] = hnd[u]
  BY <1>1 DEF Producing, Holding, Waiting
<1>5. \A u \in Threads : pc[u] \in Producing => hnd[u] \in Entries
  BY HeldFacts DEF Holding
<1>6. ProducersBusy'
  BY <1>2, <1>4, <1>5 DEF MInv, ProducersBusy
<1>7. UnfinishedHeld'
  BY <1>2, <1>3, <1>4 DEF MInv, UnfinishedHeld, Holders
<1>8. UnfilledNull'
  BY <1>2, <1>3, <1>4 DEF MInv, UnfilledNull, Holding, Producing
<1>9. QED
  BY <1>6, <1>7, <1>8 DEF MInv

(* Steps of a thread on the entry it holds.                                *)
LEMMA TakeValueMInv ==
  ASSUME IInv, MInv, NEW t \in Threads, TakeValue(t)
  PROVE  MInv'
<1>1. /\ pc \in [Threads -> Places] /\ pc[t] = "woken" /\ pc' = [pc EXCEPT ![t] = "done"]
      /\ UNCHANGED <<node, hnd>>
      /\ entry[hnd[t]].state = "available"
      /\ entry' = [entry EXCEPT ![hnd[t]].locks = @ - 1] /\ entry \in [Entries -> EntryType]
  BY DEF TakeValue, cacheVars, IInv, TypeOK
<1>2. hnd[t] \in Entries
  BY <1>1, HeldFacts DEF Holding, Waiting
<1>3. \A e \in Entries : entry'[e].state = entry[e].state /\ entry'[e].value = entry[e].value
  BY <1>1, <1>2 DEF EntryType
<1>4. Resident' = Resident /\ \A j \in Resident : node'[j] = node[j] /\ node[j] \in Entries
  BY <1>1, ResidentFacts DEF Resident
<1>5. \A u \in Threads : /\ pc'[u] \in Producing => pc[u] = pc'[u]
                         /\ pc[u] \in Holding /\ u # t => pc'[u] = pc[u]
  BY <1>1 DEF Producing, Holding, Waiting
<1>6. \A u \in Threads : pc[u] \in Producing => hnd[u] \in Entries
  BY HeldFacts DEF Holding
<1>7. ProducersBusy'
  BY <1>1, <1>3, <1>5, <1>6 DEF MInv, ProducersBusy
<1>8. UnfinishedHeld'
  BY <1>1, <1>3, <1>4, <1>5 DEF MInv, UnfinishedHeld, Holders
<1>9. UnfilledNull'
  BY <1>1, <1>3, <1>4, <1>5 DEF MInv, UnfilledNull, Holding, Producing
<1>10. QED
  BY <1>7, <1>8, <1>9 DEF MInv

(* A woken waiter that finds no frame makes the entry EMPTY again and      *)
(* stays its holder.                                                       *)
LEMMA WaitAgainMInv ==
  ASSUME IInv, MInv, NEW t \in Threads, WaitAgain(t)
  PROVE  MInv'
<1>1. /\ pc \in [Threads -> Places] /\ pc[t] = "woken" /\ pc' = [pc EXCEPT ![t] = "wait"]
      /\ UNCHANGED <<node, hnd>>
      /\ entry[hnd[t]].state # "available"
      /\ entry' = [entry EXCEPT ![hnd[t]].state = "empty"] /\ entry \in [Entries -> EntryType]
  BY DEF WaitAgain, cacheVars, IInv, TypeOK
<1>2. hnd[t] \in Entries
  BY <1>1, HeldFacts DEF Holding, Waiting
<1>3. /\ \A e \in Entries : entry'[e].value = entry[e].value
      /\ \A e \in Entries : e # hnd[t] => entry'[e].state = entry[e].state
      /\ entry'[hnd[t]].state = "empty"
  BY <1>1, <1>2 DEF EntryType
<1>4. Resident' = Resident /\ \A j \in Resident : node'[j] = node[j] /\ node[j] \in Entries
  BY <1>1, ResidentFacts DEF Resident
<1>5. \A u \in Threads : /\ pc'[u] \in Producing => pc[u] = pc'[u]
                         /\ pc[u] = "stored" => pc'[u] = "stored"
  BY <1>1 DEF Producing, Holding, Waiting
<1>6. \A e : Holders(e)' = Holders(e)
  BY <1>1 DEF Holders, Holding, Waiting, Producing
<1>7. \A u \in Threads : pc[u] \in Producing => hnd[u] \in Entries
  BY HeldFacts DEF Holding
<1>8. ProducersBusy'
  BY <1>1, <1>3, <1>5, <1>7 DEF MInv, ProducersBusy
<1>9. UnfinishedHeld'
  <2>1. \A k \in Resident : entry'[node[k]].state # "available" => entry[node[k]].state # "available"
    BY <1>1, <1>3, <1>4
  <2>2. QED
    BY <1>4, <1>6, <2>1 DEF MInv, UnfinishedHeld
<1>10. UnfilledNull'
  <2>1. \A k \in Resident : entry'[node[k]].state # "available" => entry[node[k]].state # "available"
    BY <1>1, <1>3, <1>4
  <2>2. QED
    BY <1>1, <1>3, <1>4, <1>5, <2>1 DEF MInv, UnfilledNull
<1>11. QED
  BY <1>8, <1>9, <1>10 DEF MInv

(* The producer's store of the frame changes the value of its entry and    *)
(* not its state.                                                          *)
LEMMA ChildReturnsMInv ==
  ASSUME IInv, MInv, NEW t \in Threads, ChildReturns(t)
  PROVE  MInv'
<1>1. /\ pc \in [Threads -> Places] /\ pc[t] = "compute" /\ pc' = [pc EXCEPT ![t] = "stored"]
      /\ UNCHANGED <<node, hnd>>
      /\ entry' = [entry EXCEPT ![hnd[t]].value = req[t]] /\ entry \in [Entries -> EntryType]
  BY DEF ChildReturns, cacheVars, IInv, TypeOK
<1>2. hnd[t] \in Entries
  BY <1>1, HeldFacts DEF Holding, Producing
<1>3. /\ \A e \in Entries : entry'[e].state = entry[e].state
      /\ \A e \in Entries : e # hnd[t] => entry'[e].value = entry[e].value
  BY <1>1, <1>2 DEF EntryType
<1>4. Resident' = Resident /\ \A j \in Resident : node'[j] = node[j] /\ node[j] \in Entries
  BY <1>1, ResidentFacts DEF Resident
<1>5. \A u \in Threads : /\ pc'[u] \in Producing => pc[u] \in Producing
                         /\ pc[u] = "stored" => pc'[u] = "stored"
  BY <1>1 DEF Producing
<1>6. \A e : Holders(e)' = Holders(e)
  BY <1>1 DEF Holders, Holding, Waiting, Producing
<1>7. \A u \in Threads : pc[u] \in Producing => hnd[u] \in Entries
  BY HeldFacts DEF Holding
<1>8. ProducersBusy'
  BY <1>1, <1>3, <1>5, <1>7 DEF MInv, ProducersBusy
<1>9. UnfinishedHeld'
  BY <1>3, <1>4, <1>6 DEF MInv, UnfinishedHeld
<1>10. UnfilledNull'
  BY <1>1, <1>3, <1>4, <1>5 DEF MInv, UnfilledNull
<1>11. QED
  BY <1>8, <1>9, <1>10 DEF MInv

(* commit_value, by the one producer of an entry, makes it AVAILABLE.      *)
LEMMA CommitValueMInv ==
  ASSUME IInv, MInv, NEW t \in Threads, CommitValue(t)
  PROVE  MInv'
<1>1. /\ pc \in [Threads -> Places] /\ pc[t] = "stored" /\ pc' = [pc EXCEPT ![t] = "notifyall"]
      /\ UNCHANGED <<node, hnd, req>>
      /\ entry' = [entry EXCEPT ![hnd[t]].state = "available", ![hnd[t]].locks = @ - 1]
      /\ entry \in [Entries -> EntryType]
  BY DEF CommitValue, cacheVars, IInv, TypeOK
<1>2. hnd[t] \in Entries
  BY <1>1, HeldFacts DEF Holding, Producing
<1>3. /\ entry'[hnd[t]].state = "available"
      /\ \A e \in Entries : e # hnd[t] => entry'[e] = entry[e]
  BY <1>1, <1>2 DEF EntryType
<1>4. Resident' = Resident /\ \A j \in Resident : node'[j] = node[j] /\ node[j] \in Entries
  BY <1>1, ResidentFacts DEF Resident
<1>5. \A u \in Threads : /\ pc'[u] \in Producing => pc[u] \in Producing /\ u # t
                         /\ u # t => pc'[u] = pc[u]
  BY <1>1 DEF Producing
<1>6. \A e : e # hnd[t] => Holders(e)' = Holders(e)
  BY <1>1 DEF Holders, Holding, Waiting, Producing
<1>7. \A u \in Threads : pc[u] \in Producing /\ u # t => hnd[u] \in Entries /\ hnd[u] # hnd[t]
  <2> SUFFICES ASSUME NEW u \in Threads, pc[u] \in Producing, u # t
               PROVE  hnd[u] \in Entries /\ hnd[u] # hnd[t]
    OBVIOUS
  <2>1. req[u] # req[t]
    BY <1>1 DEF IInv, SingleFlight, Producing
  <2>2. QED
    BY <1>1, <2>1, HeldFacts DEF Holding, Producing
<1>8. ProducersBusy'
  BY <1>1, <1>3, <1>5, <1>7 DEF MInv, ProducersBusy
<1>9. UnfinishedHeld'
  BY <1>3, <1>4, <1>6 DEF MInv, UnfinishedHeld
<1>10. UnfilledNull'
  BY <1>1, <1>3, <1>4, <1>5 DEF MInv, UnfilledNull
<1>11. QED
  BY <1>8, <1>9, <1>10 DEF MInv

(* A failed production stays on the books until its rollback.              *)
LEMMA ChildThrowsMInv ==
  ASSUME IInv, MInv, NEW t \in Threads, ChildThrows(t)
  PROVE  MInv'
<1>1. /\ pc \in [Threads -> Places]
      /\ UNCHANGED <<node, entry>>
  BY DEF ChildThrows, cacheVars, IInv, TypeOK
<1>2. Resident' = Resident
  BY <1>1 DEF Resident
<1>3. \A u \in Threads : /\ pc'[u] \in Holding <=> pc[u] \in Holding
                         /\ pc[u] \in Holding => hnd'[u] = hnd[u]
                         /\ pc'[u] \in Producing <=> pc[u] \in Producing
                         /\ pc[u] = "stored" => pc'[u] = "stored"
  <2> USE <1>1 DEF Holding, Waiting, Producing
  <2>1. CASE pc[t] = "compute"
    <3>1. pc' = [pc EXCEPT ![t] = "threw"] /\ hnd' = hnd
      BY <2>1 DEF ChildThrows
    <3>2. QED
      BY <2>1, <3>1
  <2>2. CASE pc[t] # "compute"
    <3>1. /\ pc[t] = "nocache" /\ pc' = [pc EXCEPT ![t] = "idle"]
          /\ hnd' = [hnd EXCEPT ![t] = None] /\ hnd \in [Threads -> Entries \cup {None}]
      BY <2>2 DEF ChildThrows, IInv, TypeOK
    <3>2. QED
      BY <2>2, <3>1
  <2>3. QED
    BY <2>1, <2>2
<1>4. \A e : Holders(e)' = Holders(e)
  BY <1>3 DEF Holders
<1>5. ProducersBusy'
  BY <1>1, <1>3 DEF MInv, ProducersBusy, Holding
<1>6. UnfinishedHeld'
  BY <1>1, <1>2, <1>4 DEF MInv, UnfinishedHeld
<1>7. UnfilledNull'
  BY <1>1, <1>2, <1>3 DEF MInv, UnfilledNull, Holding, Producing
<1>8. QED
  BY <1>5, <1>6, <1>7 DEF MInv

(* A producer that throws while others wait has stored nothing.            *)
LEMMA AnotherHolder ==
  ASSUME IInv, NEW t \in Threads, pc[t] = "threw", entry[hnd[t]].locks # 1
  PROVE  \E u \in Threads : u # t /\ pc[u] \in Waiting /\ hnd[u] = hnd[t] /\ req[u] = req[t]
<1>1. /\ req[t] \in Resident /\ hnd[t] = node[req[t]] /\ t \in Holders(hnd[t])
      /\ \A k \in Resident : node[k] = hnd[t] => k = req[t]
  BY HeldFacts DEF Holding, Producing
<1>2. entry[hnd[t]].locks = Cardinality(Holders(hnd[t]))
  BY <1>1 DEF IInv, LocksCountHolders
<1>3. Holders(hnd[t]) # {t}
  BY <1>2, FS_Singleton
<1>4. PICK u \in Holders(hnd[t]) : u # t
  BY <1>1, <1>3
<1>5. u \in Threads /\ pc[u] \in Holding /\ hnd[u] = hnd[t]
  BY <1>4 DEF Holders
<1>6. req[u] = req[t]
  BY <1>1, <1>5, HeldFacts
<1>7. pc[u] \notin Producing
  BY <1>4, <1>5, <1>6 DEF IInv, SingleFlight, Producing
<1>8. QED
  BY <1>4, <1>5, <1>6, <1>7 DEF Holding

(* A rollback that has waiters leaves them as the holders of the entry,    *)
(* which has no frame.                                                     *)
LEMMA RollbackHandsOverMInv ==
  ASSUME IInv, MInv, NEW t \in Threads, RollbackHandsOver(t)
  PROVE  MInv'
<1>1. /\ pc \in [Threads -> Places] /\ pc[t] = "threw" /\ pc' = [pc EXCEPT ![t] = "notifyone"]
      /\ UNCHANGED <<node, hnd>> /\ entry[hnd[t]].locks # 1
      /\ entry' = [entry EXCEPT ![hnd[t]].state = "rolledback", ![hnd[t]].locks = @ - 1]
      /\ entry \in [Entries -> EntryType]
  BY DEF RollbackHandsOver, cacheVars, IInv, TypeOK
<1>2. hnd[t] \in Entries
  BY <1>1, HeldFacts DEF Holding, Producing
<1>3. /\ \A e \in Entries : entry'[e].value = entry[e].value
      /\ \A e \in Entries : e # hnd[t] => entry'[e] = entry[e]
  BY <1>1, <1>2 DEF EntryType
<1>4. Resident' = Resident /\ \A j \in Resident : node'[j] = node[j] /\ node[j] \in Entries
  BY <1>1, ResidentFacts DEF Resident
<1>5. \A u \in Threads : /\ pc'[u] \in Producing => pc[u] \in Producing /\ u # t
                         /\ u # t => pc'[u] = pc[u]
                         /\ pc[u] = "stored" => pc'[u] = "stored"
  BY <1>1 DEF Producing
<1>6. \A e : Holders(e)' = Holders(e) \ {t}
  BY <1>1 DEF Holders, Holding, Waiting, Producing
<1>7. \A u \in Threads : pc[u] \in Producing /\ u # t => hnd[u] \in Entries /\ hnd[u] # hnd[t]
  <2> SUFFICES ASSUME NEW u \in Threads, pc[u] \in Producing, u # t
               PROVE  hnd[u] \in Entries /\ hnd[u] # hnd[t]
    OBVIOUS
  <2>1. req[u] # req[t]
    BY <1>1 DEF IInv, SingleFlight, Producing
  <2>2. QED
    BY <1>1, <2>1, HeldFacts DEF Holding, Producing
<1>8. ProducersBusy'
  BY <1>1, <1>3, <1>5, <1>7 DEF MInv, ProducersBusy
<1>9. UnfinishedHeld'
  <2>1. PICK u \in Threads : u # t /\ pc[u] \in Waiting /\ hnd[u] = hnd[t]
    BY <1>1, AnotherHolder
  <2>2. Holders(hnd[t])' # {}
    BY <1>1, <2>1 DEF Holders, Holding
  <2>3. \A e : e # hnd[t] => Holders(e)' = Holders(e)
    BY <1>6 DEF Holders
  <2>4. QED
    BY <1>1, <1>3, <1>4, <2>2, <2>3 DEF MInv, UnfinishedHeld
<1>10. UnfilledNull'
  <2>1. entry[hnd[t]].state = "empty"
    BY <1>1 DEF MInv, ProducersBusy, Producing
  <2>2. QED
    BY <1>1, <1>3, <1>4, <1>5, <2>1 DEF MInv, UnfilledNull
<1>11. QED
  BY <1>8, <1>9, <1>10 DEF MInv

(* Steps that keep the entries of the keys of S, and of those give only    *)
(* empty entries with a holder to others.                                  *)
LEMMA SurvivorsMInv ==
  ASSUME IInv, MInv, NEW S \in SUBSET Resident,
         \A k \in S : node'[k] = node[k] /\ entry'[node[k]] = entry[node[k]],
         \A k \in Resident' \ S : /\ entry'[node'[k]].value = None
                                  /\ Holders(node[k])' # {},
         \A u \in Threads : pc[u] \in Holding /\ req[u] \in S => pc'[u] = pc[u] /\ hnd'[u] = hnd[u],
         \A u \in Threads : pc'[u] \in Producing =>
             \/ pc'[u] = pc[u] /\ hnd'[u] = hnd[u] /\ req[u] \in S
             \/ entry'[hnd'[u]].state = "empty"
  PROVE  MInv'
<1>1. ProducersBusy'
  <2> SUFFICES ASSUME NEW u \in Threads, pc'[u] \in Producing
               PROVE  entry'[hnd'[u]].state = "empty"
    BY DEF ProducersBusy
  <2>1. CASE pc'[u] = pc[u] /\ hnd'[u] = hnd[u] /\ req[u] \in S
    <3>1. hnd[u] = node[req[u]]
      BY <2>1, HeldFacts DEF Holding
    <3>2. QED
      BY <2>1, <3>1 DEF MInv, ProducersBusy
  <2>2. QED
    BY <2>1
<1>2. ASSUME NEW k \in S, NEW u \in Threads, pc[u] \in Holding, hnd[u] = node[k]
      PROVE  pc'[u] = pc[u] /\ hnd'[u] = node'[k]
  <2>1. req[u] = k
    BY <1>2, HeldFacts
  <2>2. QED
    BY <1>2, <2>1
<1>3. UnfinishedHeld'
  <2> SUFFICES ASSUME NEW k \in Resident', k \in S, entry'[node'[k]].state # "available"
               PROVE  Holders(node[k])' # {}
    BY DEF UnfinishedHeld
  <2>1. PICK u \in Threads : pc[u] \in Holding /\ hnd[u] = node[k]
    BY DEF MInv, UnfinishedHeld, Holders
  <2>2. QED
    BY <1>2, <2>1 DEF Holders
<1>4. UnfilledNull'
  <2> SUFFICES ASSUME NEW k \in Resident', k \in S, entry'[node'[k]].state # "available",
                      entry'[node'[k]].value # None
               PROVE  \E u \in Threads : pc'[u] = "stored" /\ hnd'[u] = node'[k]
    BY DEF UnfilledNull
  <2>1. PICK u \in Threads : pc[u] = "stored" /\ hnd[u] = node[k]
    BY DEF MInv, UnfilledNull
  <2>2. QED
    BY <1>2, <2>1 DEF Holding, Producing
<1>5. QED
  BY <1>1, <1>3, <1>4 DEF MInv

(* A rollback without waiters takes the entry out of the cache.            *)
LEMMA RollbackRemovesMInv ==
  ASSUME IInv, MInv, NEW t \in Threads, RollbackRemoves(t)
  PROVE  MInv'
<1> DEFINE S == Resident \ {req[t]}
<1>1. /\ pc \in [Threads -> Places] /\ pc[t] = "threw" /\ pc' = [pc EXCEPT ![t] = "idle"]
      /\ hnd' = [hnd EXCEPT ![t] = None] /\ hnd \in [Threads -> Entries \cup {None}]
      /\ entry' = entry
      /\ node' = [k \in Resident \ {entry[hnd[t]].key} |-> node[k]]
  BY DEF RollbackRemoves, IInv, TypeOK
<1>2. entry[hnd[t]].key = req[t]
  BY <1>1, HeldFacts DEF Holding, Producing
<1>3. Resident' = S /\ S \in SUBSET Resident
  BY <1>1, <1>2 DEF Resident
<1>4. \A k \in S : node'[k] = node[k] /\ entry'[node[k]] = entry[node[k]]
  BY <1>1, <1>2
<1>5. \A u \in Threads : u # t => pc'[u] = pc[u] /\ hnd'[u] = hnd[u]
  BY <1>1
<1>6. \A u \in Threads : pc'[u] \in Producing => pc'[u] = pc[u] /\ hnd'[u] = hnd[u] /\ req[u] \in S
  <2> SUFFICES ASSUME NEW u \in Threads, pc'[u] \in Producing
               PROVE  u # t /\ req[u] \in S
    BY <1>5
  <2>1. u # t
    BY <1>1 DEF Producing
  <2>2. req[u] # req[t]
    BY <1>1, <1>5, <2>1 DEF IInv, SingleFlight, Producing
  <2>3. QED
    BY <1>5, <2>1, <2>2, HeldFacts DEF Holding
<1> HIDE DEF S
<1>7. \A u \in Threads : pc[u] \in Holding /\ req[u] \in S => pc'[u] = pc[u] /\ hnd'[u] = hnd[u]
  BY <1>5 DEF S
<1>8. QED
  BY <1>3, <1>4, <1>6, <1>7, SurvivorsMInv

(* What a step does that only evicts.                                      *)
Evicted(V) == /\ V \in SUBSET Resident
              /\ \A k \in V : Evictable(k)
              /\ Resident' = Resident \ V
              /\ \A k \in Resident \ V : node'[k] = node[k] /\ entry'[node[k]] = entry[node[k]]

(* trim removes victims nobody holds, and leaves every entry that stays as *)
(* it was.                                                                 *)
LEMMA EvictionOutcome ==
  ASSUME IInv, NEW V, V \subseteq {k \in Resident : Evictable(k)},
         node' = [j \in Resident \ V |-> node[j]], entry' = EntriesAfter(V)
  PROVE  Evicted(V)
<1>1. \A k \in Resident \ V : EntriesAfter(V)[node[k]] = entry[node[k]]
  BY Eviction
<1>2. Resident' = Resident \ V
  BY DEF Resident
<1>3. QED
  BY <1>1, <1>2 DEF Evicted

(* set_limits does no more than evict, whatever the new limits are.        *)
LEMMA SetLimitsOutcome ==
  ASSUME IInv, NEW l \in Limits, SetLimits(l[1], l[2])
  PROVE  (\E V : Evicted(V)) /\ UNCHANGED <<pc, req, hnd, res, faults>>
<1> DEFINE V == Victims(pos, Resized([lim EXCEPT !.min = l[1], !.max = l[2]], lim.req).real)
<1>1. /\ V \subseteq {k \in Resident : Evictable(k)}
      /\ node' = [j \in Resident \ V |-> node[j]] /\ entry' = EntriesAfter(V)
      /\ UNCHANGED <<pc, req, hnd, res, faults>>
  BY DEF SetLimits, Victims
<1> HIDE DEF V
<1>2. QED
  BY <1>1, EvictionOutcome

(* A lookup of a cache without capacity evicts what is left and inserts    *)
(* nothing.                                                                *)
LEMMA LookupNoCacheOutcome ==
  ASSUME IInv, NEW t \in Threads, NEW k \in Keys, LookupNoCache(t, k)
  PROVE  /\ \E V : Evicted(V)
         /\ k \notin Resident
         /\ pc[t] = "idle" /\ pc' = [pc EXCEPT ![t] = "nocache"]
         /\ req' = [req EXCEPT ![t] = k] /\ hnd' = [hnd EXCEPT ![t] = None]
         /\ UNCHANGED <<res, faults>>
<1> DEFINE V == Victims(pos, 0)
<1>1. /\ V \subseteq {j \in Resident : Evictable(j)}
      /\ node' = [j \in Resident \ V |-> node[j]] /\ entry' = EntriesAfter(V)
      /\ k \notin Resident
      /\ pc[t] = "idle" /\ pc' = [pc EXCEPT ![t] = "nocache"]
      /\ req' = [req EXCEPT ![t] = k] /\ hnd' = [hnd EXCEPT ![t] = None]
      /\ UNCHANGED <<res, faults>>
  BY DEF LookupNoCache, Call, Victims
<1> HIDE DEF V
<1>2. QED
  BY <1>1, EvictionOutcome

(* What a miss does: it evicts, and gives the key an entry that no other   *)
(* key and no other thread has.                                            *)
Inserted(k, V) == /\ V \in SUBSET Resident
                  /\ \A j \in V : Evictable(j)
                  /\ Resident' = (Resident \ V) \cup {k}
                  /\ \A j \in Resident \ V : node'[j] = node[j] /\ entry'[node[j]] = entry[node[j]]
                  /\ entry'[node'[k]] = Reserved(k)

(* A missed lookup evicts, inserts one new entry for its key and becomes   *)
(* its producer.                                                           *)
LEMMA LookupMissOutcome ==
  ASSUME IInv, NEW t \in Threads, NEW k \in Keys, LookupMiss(t, k)
  PROVE  /\ \E V : Inserted(k, V)
         /\ k \notin Resident
         /\ pc[t] = "idle" /\ pc' = [pc EXCEPT ![t] = "compute"]
         /\ req' = [req EXCEPT ![t] = k] /\ hnd' = [hnd EXCEPT ![t] = node'[k]]
         /\ UNCHANGED <<res, faults>>
<1> DEFINE V0   == Victims(pos, lim.real)
           g    == GhostSeen(GhostsAfter(ghosts, pos, V0), k)
           list == ToFront(ListAfter(pos, V0), k)
           V    == V0 \cup GrowthVictims(g, k, list)
<1>1. V \subseteq {j \in Resident : Evictable(j)}
  BY DEF Victims, GrowthVictims
<1>2. PICK e \in Entries \ UsedAfter(V) :
        /\ node' = [j \in (Resident \ V) \cup {k} |-> IF j = k THEN e ELSE node[j]]
        /\ entry' = [EntriesAfter(V) EXCEPT ![e] = Reserved(k)]
        /\ hnd' = [hnd EXCEPT ![t] = e]
  BY DEF LookupMiss
<1>3. /\ k \notin Resident
      /\ pc[t] = "idle" /\ pc' = [pc EXCEPT ![t] = "compute"]
      /\ req' = [req EXCEPT ![t] = k]
      /\ UNCHANGED <<res, faults>>
  BY DEF LookupMiss, Call
<1> HIDE DEF V
<1>4. /\ \A j \in Resident \ V : node[j] \in UsedAfter(V) /\ EntriesAfter(V)[node[j]] = entry[node[j]]
      /\ EntriesAfter(V) \in [Entries -> EntryType]
  BY <1>1, Eviction
<1>5. Resident' = (Resident \ V) \cup {k}
  BY <1>2 DEF Resident
<1>6. node'[k] = e /\ entry'[e] = Reserved(k)
  BY <1>2, <1>4
<1>7. \A j \in Resident \ V : node'[j] = node[j] /\ entry'[node[j]] = entry[node[j]]
  BY <1>2, <1>3, <1>4
<1>8. QED
  BY <1>1, <1>2, <1>3, <1>5, <1>6, <1>7 DEF Inserted

(* Nobody holds what is evicted.                                           *)
LEMMA EvictableIdle ==
  ASSUME IInv, NEW V \in SUBSET Resident, \A k \in V : Evictable(k)
  PROVE  /\ \A u \in Threads : pc[u] \in Holding => req[u] \in Resident \ V
         /\ \A k \in V : Holders(node[k]) = {}
<1>1. \A k \in V : Cardinality(Holders(node[k])) = 0
  BY DEF Evictable, IInv, LocksCountHolders
<1>2. \A k \in V : Holders(node[k]) = {}
  BY <1>1, HoldersFinite, FS_EmptySet
<1>3. QED
  BY <1>2, HeldFacts DEF Holders

(* An eviction takes only entries that are finished, so it orphans nobody. *)
LEMMA EvictedMInv ==
  ASSUME IInv, MInv, NEW V, Evicted(V),
         \A u \in Threads : \/ pc[u] = "idle" /\ pc'[u] = "nocache"
                            \/ pc'[u] = pc[u] /\ hnd'[u] = hnd[u]
  PROVE  MInv'
<1>1. /\ V \in SUBSET Resident /\ Resident' = Resident \ V
      /\ \A k \in Resident \ V : node'[k] = node[k] /\ entry'[node[k]] = entry[node[k]]
      /\ \A u \in Threads : pc[u] \in Holding => req[u] \in Resident \ V
  BY EvictableIdle DEF Evicted
<1>2. \A u \in Threads : /\ pc[u] \in Holding => pc'[u] = pc[u] /\ hnd'[u] = hnd[u]
                         /\ pc'[u] \in Producing => pc'[u] = pc[u] /\ hnd'[u] = hnd[u]
  BY DEF Holding, Waiting, Producing
<1> DEFINE S == Resident \ V
<1>3. S \in SUBSET Resident
  OBVIOUS
<1>4. \A u \in Threads : pc'[u] \in Producing => req[u] \in S
  BY <1>1, <1>2 DEF Holding
<1> HIDE DEF S
<1>5. QED
  BY <1>1, <1>2, <1>3, <1>4, SurvivorsMInv DEF S

(* The entry a missed lookup inserts is EMPTY, and the thread that         *)
(* inserted it is its producer.                                            *)
LEMMA LookupMissMInv ==
  ASSUME IInv, MInv, NEW t \in Threads, NEW k \in Keys, LookupMiss(t, k)
  PROVE  MInv'
<1>1. /\ \E V : Inserted(k, V)
      /\ k \notin Resident
      /\ pc[t] = "idle" /\ pc' = [pc EXCEPT ![t] = "compute"]
      /\ hnd' = [hnd EXCEPT ![t] = node'[k]]
      /\ pc \in [Threads -> Places] /\ hnd \in [Threads -> Entries \cup {None}]
  BY LookupMissOutcome DEF IInv, TypeOK
<1>2. PICK V : Inserted(k, V)
  BY <1>1
<1> DEFINE S == Resident \ V
<1>3. /\ V \in SUBSET Resident /\ S \in SUBSET Resident /\ Resident' = S \cup {k}
      /\ \A j \in S : node'[j] = node[j] /\ entry'[node[j]] = entry[node[j]]
      /\ entry'[node'[k]].value = None /\ entry'[node'[k]].state = "empty"
      /\ \A u \in Threads : pc[u] \in Holding => req[u] \in S
  BY <1>2, EvictableIdle DEF Inserted, Reserved, FreshEntry
<1> HIDE DEF S
<1>4. t \in Holders(node[k])'
  BY <1>1 DEF Holders, Holding, Producing
<1>5. \A u \in Threads : u # t => pc'[u] = pc[u] /\ hnd'[u] = hnd[u]
  BY <1>1
<1>6. pc[t] \notin Holding /\ hnd'[t] = node'[k]
  BY <1>1 DEF Holding, Waiting, Producing
<1>7. \A u \in Threads : pc[u] \in Holding /\ req[u] \in S => pc'[u] = pc[u] /\ hnd'[u] = hnd[u]
  BY <1>5, <1>6
<1>8. \A u \in Threads : pc'[u] \in Producing =>
        \/ pc'[u] = pc[u] /\ hnd'[u] = hnd[u] /\ req[u] \in S
        \/ entry'[hnd'[u]].state = "empty"
  BY <1>3, <1>5, <1>6 DEF Holding
<1>9. \A j \in Resident' \ S : entry'[node'[j]].value = None /\ Holders(node[j])' # {}
  <2>1. \A j \in Resident' \ S : j = k
    BY <1>3
  <2>2. QED
    BY <1>3, <1>4, <2>1
<1>10. QED
  BY <1>3, <1>7, <1>8, <1>9, SurvivorsMInv

(* An empty cache has no unfinished entry.                                 *)
LEMMA InitMInv == Init => MInv
BY DEF Init, MInv, ProducersBusy, UnfinishedHeld, UnfilledNull, Resident, Producing

(* Every step of the cache keeps its unfinished entries held and without a *)
(* frame.                                                                  *)
LEMMA NextMInv == IInv /\ MInv /\ [Next]_vars => MInv'
<1> SUFFICES ASSUME IInv, MInv, [Next]_vars PROVE MInv'
  OBVIOUS
<1>1. CASE UNCHANGED vars
  BY <1>1 DEF vars, MInv, ProducersBusy, UnfinishedHeld, UnfilledNull, Resident, Holders
<1>2. ASSUME NEW t \in Threads, Lookup(t) PROVE MInv'
  <2>1. PICK k \in Keys : \/ LookupReady(t, k) \/ LookupWait(t, k) \/ LookupNotAvailable(t, k)
                          \/ LookupMiss(t, k) \/ LookupNoCache(t, k)
    BY <1>2 DEF Lookup
  <2>2. ASSUME LookupNoCache(t, k) PROVE MInv'
    <3>1. /\ \E V : Evicted(V)
          /\ pc[t] = "idle" /\ pc' = [pc EXCEPT ![t] = "nocache"]
          /\ hnd' = [hnd EXCEPT ![t] = None]
          /\ pc \in [Threads -> Places] /\ hnd \in [Threads -> Entries \cup {None}]
      BY <2>2, LookupNoCacheOutcome DEF IInv, TypeOK
    <3>2. \A u \in Threads : \/ pc[u] = "idle" /\ pc'[u] = "nocache"
                             \/ pc'[u] = pc[u] /\ hnd'[u] = hnd[u]
      BY <3>1
    <3>3. QED
      BY <3>1, <3>2, EvictedMInv
  <2>3. QED
    BY <2>1, <2>2, QuietMInv, LookupWaitMInv, LookupMissMInv
<1>3. ASSUME NEW t \in Threads, SpuriousWakeup(t) \/ ChildThrows(t) PROVE MInv'
  BY <1>3, QuietMInv, ChildThrowsMInv
<1>4. ASSUME NEW t \in Threads, Proceed(t) PROVE MInv'
  BY <1>4, QuietMInv, TakeValueMInv, WaitAgainMInv, ChildReturnsMInv, CommitValueMInv,
     RollbackRemovesMInv, RollbackHandsOverMInv DEF Proceed
<1>5. ASSUME NEW l \in Limits, SetLimits(l[1], l[2]) PROVE MInv'
  <2>1. (\E V : Evicted(V)) /\ UNCHANGED <<pc, hnd>>
    BY <1>5, SetLimitsOutcome
  <2>2. QED
    BY <2>1, EvictedMInv
<1>6. QED
  BY <1>1, <1>2, <1>3, <1>4, <1>5 DEF Next

(* What FrameMemo sees of a frame and of a thread, case by case.           *)
LEMMA MemoCases ==
  ASSUME IInv, NEW k \in Keys
  PROVE  /\ MemoNow[k] = "absent"    <=> k \notin Resident
         /\ MemoNow[k] = "ready"     <=> k \in Resident /\ entry[node[k]].state = "available"
         /\ MemoNow[k] = "abandoned" <=> k \in Resident /\ entry[node[k]].state = "rolledback"
         /\ MemoNow[k] = "busy"      <=> k \in Resident /\ entry[node[k]].state = "empty"
<1>1. k \in Resident => entry[node[k]].state \in EntryStates
  BY ResidentFacts DEF EntryType
<1>2. MemoNow[k] = MemoOf(k)
  BY DEF MemoNow
<1>3. QED
  BY <1>1, <1>2 DEF MemoOf, EntryStates

(* Where a thread stands in Cache::GetFrame, as a phase of its question to *)
(* the memory.                                                             *)
LEMMA PhaseCases ==
  ASSUME NEW t \in Threads
  PROVE  /\ pc[t] \in {"compute", "stored"} => PhaseNow[t] = "making"
         /\ pc[t] = "notifyall" => PhaseNow[t] = "made"
         /\ pc[t] \in Waiting   => PhaseNow[t] = "waiting"
         /\ pc[t] = "nocache"   => PhaseNow[t] = "alone"
         /\ pc[t] = "threw"     => PhaseNow[t] = "failed"
         /\ pc[t] = "notifyone" => PhaseNow[t] = "leaving"
         /\ pc[t] = "done"      => PhaseNow[t] = "answered"
         /\ pc[t] = "idle"      => PhaseNow[t] = "idle"
         /\ PhaseNow[t] = "waiting" => pc[t] \in Waiting
<1>1. PhaseNow[t] = PhaseOf(t)
  BY DEF PhaseNow
<1>2. QED
  BY <1>1 DEF PhaseOf, Waiting

(* FrameMemo's waiters are LruCache's.                                     *)
LEMMA WaitersAre ==
  ASSUME NEW k
  PROVE  Memo!Waiters(k) = {t \in Threads : pc[t] \in Waiting /\ req[t] = k}
BY PhaseCases DEF Memo!Waiters

(* How what FrameMemo sees changes with the next state's entries.          *)
LEMMA MemoAfter ==
  ASSUME NEW k \in Keys
  PROVE  /\ k \notin Resident' => MemoNow'[k] = "absent"
         /\ k \in Resident' /\ entry'[node'[k]].state = "available"  => MemoNow'[k] = "ready"
         /\ k \in Resident' /\ entry'[node'[k]].state = "rolledback" => MemoNow'[k] = "abandoned"
         /\ k \in Resident' /\ entry'[node'[k]].state = "empty"      => MemoNow'[k] = "busy"
<1>1. MemoNow'[k] = MemoOf(k)'
  BY DEF MemoNow
<1>2. QED
  BY <1>1 DEF MemoOf

(* A key that stays resident, in the same state, stays what it was in the  *)
(* memory.                                                                 *)
LEMMA MemoSame ==
  ASSUME NEW k \in Keys, k \in Resident <=> k \in Resident',
         k \in Resident => entry'[node'[k]].state = entry[node[k]].state
  PROVE  MemoNow'[k] = MemoNow[k]
<1>1. MemoNow'[k] = MemoOf(k)' /\ MemoNow[k] = MemoOf(k)
  BY DEF MemoNow
<1>2. QED
  BY <1>1 DEF MemoOf

(* Steps that change no state of a resident entry.                         *)
LEMMA MemoUnchanged ==
  ASSUME Resident' = Resident, \A k \in Resident : entry'[node'[k]].state = entry[node[k]].state
  PROVE  MemoNow' = MemoNow
<1>1. \A k \in Keys : MemoNow'[k] = MemoNow[k]
  BY MemoSame
<1>2. QED
  BY <1>1 DEF MemoNow

(* Steps that change the state of one.                                     *)
LEMMA MemoChanged ==
  ASSUME NEW k \in Keys, Resident' \ {k} = Resident \ {k},
         \A j \in Resident \ {k} : entry'[node'[j]].state = entry[node[j]].state
  PROVE  MemoNow' = [MemoNow EXCEPT ![k] = MemoNow'[k]]
<1>1. \A j \in Keys \ {k} : MemoNow'[j] = MemoNow[j]
  BY MemoSame
<1>2. MemoNow = [j \in Keys |-> MemoOf(j)] /\ MemoNow' = [j \in Keys |-> MemoOf(j)']
  BY DEF MemoNow
<1>3. QED
  BY <1>1, <1>2

(* What FrameMemo sees of the threads when one of them moves.              *)
LEMMA PhaseChanged ==
  ASSUME NEW t \in Threads, \A u \in Threads : u # t => PhaseOf(u)' = PhaseOf(u)
  PROVE  PhaseNow' = [PhaseNow EXCEPT ![t] = PhaseNow'[t]]
<1>1. PhaseNow = [u \in Threads |-> PhaseOf(u)] /\ PhaseNow' = [u \in Threads |-> PhaseOf(u)']
  BY DEF PhaseNow
<1>2. QED
  BY <1>1

(* The answers of the other threads stay when one thread returns from      *)
(* GetFrame.                                                               *)
LEMMA AnswerChanged ==
  ASSUME NEW t \in Threads, \A u \in Threads : u # t => AnswerOf(u)' = AnswerOf(u)
  PROVE  AnswerNow' = [AnswerNow EXCEPT ![t] = AnswerOf(t)']
BY DEF AnswerNow

(* A thread moves from one place to another and the others stay, but for   *)
(* waking up.                                                              *)
Moves(t, place) ==
  /\ pc'[t] = place
  /\ \A u \in Threads : u # t => /\ pc'[u] = pc[u] \/ (pc[u] \in Waiting /\ pc'[u] \in Waiting)
                                 /\ res'[u] = res[u]

(* One thread's move in Cache::GetFrame is one change of phase, and of     *)
(* answer only at the return.                                              *)
LEMMA MoveSeen ==
  ASSUME NEW t \in Threads, NEW place, Moves(t, place)
  PROVE  /\ PhaseNow' = [PhaseNow EXCEPT ![t] = PhaseNow'[t]]
         /\ place \in {"compute", "stored"} => PhaseNow'[t] = "making"
         /\ place = "notifyall" => PhaseNow'[t] = "made"
         /\ place \in Waiting   => PhaseNow'[t] = "waiting"
         /\ place = "nocache"   => PhaseNow'[t] = "alone"
         /\ place = "threw"     => PhaseNow'[t] = "failed"
         /\ place = "notifyone" => PhaseNow'[t] = "leaving"
         /\ place = "done"      => PhaseNow'[t] = "answered"
         /\ place = "idle"      => PhaseNow'[t] = "idle"
         /\ AnswerNow' = [AnswerNow EXCEPT ![t] = IF place = "done" THEN res'[t] ELSE None]
         /\ pc[t] # "done" /\ place # "done" => AnswerNow' = AnswerNow
<1>1. \A u \in Threads : u # t => PhaseOf(u)' = PhaseOf(u)
  BY DEF Moves, PhaseOf, Waiting
<1>2. PhaseNow'[t] = PhaseOf(t)'
  BY DEF PhaseNow
<1>3. \A u \in Threads : u # t => AnswerOf(u)' = AnswerOf(u)
  BY DEF Moves, AnswerOf, Waiting
<1>4. AnswerOf(t)' = IF place = "done" THEN res'[t] ELSE None
  BY DEF Moves, AnswerOf
<1>5. AnswerNow' = [AnswerNow EXCEPT ![t] = IF place = "done" THEN res'[t] ELSE None]
  BY <1>3, <1>4, AnswerChanged
<1>6. pc[t] # "done" /\ place # "done" => AnswerNow' = AnswerNow
  BY <1>3, <1>4 DEF AnswerNow, AnswerOf
<1>7. PhaseNow' = [PhaseNow EXCEPT ![t] = PhaseNow'[t]]
  BY <1>1, PhaseChanged
<1>8. PhaseOf(t)' = CASE place \in {"compute", "stored"} -> "making"
                      [] place = "notifyall" -> "made"
                      [] place \in Waiting   -> "waiting"
                      [] place = "nocache"   -> "alone"
                      [] place = "threw"     -> "failed"
                      [] place = "notifyone" -> "leaving"
                      [] place = "done"      -> "answered"
                      [] OTHER               -> "idle"
  BY DEF Moves, PhaseOf, Waiting
<1>9. QED
  BY <1>2, <1>5, <1>6, <1>7, <1>8 DEF Waiting

(* Evictions forget only frames that are ready and awaited by nobody.      *)
LEMMA EvictionForgets ==
  ASSUME IInv, MInv, NEW V \in SUBSET Resident, \A k \in V : Evictable(k)
  PROVE  V \in SUBSET Memo!Forgettable
<1> SUFFICES ASSUME NEW k \in V PROVE k \in Memo!Forgettable
  OBVIOUS
<1>1. Holders(node[k]) = {}
  BY EvictableIdle
<1>2. k \in Keys /\ MemoNow[k] = "ready"
  BY <1>1, ResidentFacts, MemoCases DEF MInv, UnfinishedHeld
<1>3. ASSUME NEW u \in Threads, pc[u] \in Waiting, req[u] = k PROVE FALSE
  <2>1. u \in Holders(node[k])
    BY <1>3, HeldFacts DEF Holding
  <2>2. QED
    BY <1>1, <2>1
<1>4. Memo!Waiters(k) = {}
  BY <1>3, WaitersAre
<1>5. QED
  BY <1>2, <1>4 DEF Memo!Forgettable

(* What an eviction leaves is what FrameMemo has without those frames.     *)
LEMMA WithoutEvicted ==
  ASSUME IInv, NEW V, Evicted(V)
  PROVE  MemoNow' = Memo!MemoWithout(V)
<1>1. ASSUME NEW k \in Keys
      PROVE  MemoNow'[k] = IF k \in V THEN "absent" ELSE MemoNow[k]
  <2>1. CASE k \in V
    BY <2>1, MemoAfter DEF Evicted
  <2>2. CASE k \notin V
    <3>1. k \in Resident <=> k \in Resident'
      BY <2>2 DEF Evicted
    <3>2. k \in Resident => entry'[node'[k]].state = entry[node[k]].state
      BY <2>2 DEF Evicted
    <3>3. QED
      BY <2>2, <3>1, <3>2, MemoSame
  <2>3. QED
    BY <2>1, <2>2
<1>2. MemoNow' = [k \in Keys |-> MemoNow'[k]]
  BY DEF MemoNow
<1>3. QED
  BY <1>1, <1>2 DEF Memo!MemoWithout

-----------------------------------------------------------------------------
(* One lemma for each kind of step: what it is to FrameMemo. *)

(* A lookup that hits an entry not EMPTY answers with the frame, or with   *)
(* null after a rollback.                                                  *)
LEMMA LookupReadySeen ==
  ASSUME IInv, MInv, NEW t \in Threads, NEW k \in Keys, LookupReady(t, k)
  PROVE  Memo!AskReady(t, k) \/ Memo!AskAbandoned(t, k)
<1>1. /\ k \in Resident /\ entry[node[k]].state # "empty"
      /\ pc[t] = "idle" /\ pc' = [pc EXCEPT ![t] = "done"] /\ req' = [req EXCEPT ![t] = k]
      /\ res' = [res EXCEPT ![t] = entry[node[k]].value]
      /\ UNCHANGED <<node, entry, faults>>
      /\ pc \in [Threads -> Places] /\ res \in [Threads -> Frames]
  BY DEF LookupReady, Call, IInv, TypeOK
<1>2. MemoNow' = MemoNow
  BY <1>1, MemoUnchanged DEF Resident
<1>3. Moves(t, "done")
  BY <1>1 DEF Moves
<1>4. /\ PhaseNow[t] = "idle" /\ PhaseNow' = [PhaseNow EXCEPT ![t] = "answered"]
      /\ AnswerNow' = [AnswerNow EXCEPT ![t] = entry[node[k]].value]
  BY <1>1, <1>3, PhaseCases, MoveSeen
<1>5. CASE entry[node[k]].state = "available"
  <2>1. entry[node[k]].value = k /\ MemoNow[k] = "ready"
    BY <1>1, <1>5, MemoCases DEF IInv, AvailableIsFilled
  <2>2. QED
    BY <1>1, <1>2, <1>4, <2>1 DEF Memo!AskReady, Memo!Request
<1>6. CASE entry[node[k]].state # "available"
  <2>1. MemoNow[k] = "abandoned"
    BY <1>1, <1>6, MemoCases, ResidentFacts DEF EntryType, EntryStates
  <2>2. \A u \in Threads : pc[u] = "stored" => hnd[u] # node[k]
    BY <1>1 DEF MInv, ProducersBusy, Producing
  <2>3. entry[node[k]].value = None
    BY <1>1, <1>6, <2>2 DEF MInv, UnfilledNull
  <2>4. QED
    BY <1>1, <1>2, <1>4, <2>1, <2>3 DEF Memo!AskAbandoned, Memo!Request
<1>7. QED
  BY <1>5, <1>6

(* A lookup of an EMPTY entry is a question about a frame that another     *)
(* thread makes.                                                           *)
LEMMA LookupWaitSeen ==
  ASSUME IInv, MInv, NEW t \in Threads, NEW k \in Keys, LookupWait(t, k)
  PROVE  Memo!AskBusy(t, k)
<1>1. /\ k \in Resident /\ entry[node[k]].state = "empty"
      /\ pc[t] = "idle" /\ pc' = [pc EXCEPT ![t] = "wait"] /\ req' = [req EXCEPT ![t] = k]
      /\ entry' = [entry EXCEPT ![node[k]].locks = @ + 1]
      /\ UNCHANGED <<node, res, faults>>
      /\ pc \in [Threads -> Places] /\ entry \in [Entries -> EntryType]
  BY DEF LookupWait, Call, IInv, TypeOK
<1>2. MemoNow' = MemoNow
  <2>1. \A e \in Entries : entry'[e].state = entry[e].state
    BY <1>1 DEF EntryType
  <2>2. QED
    BY <1>1, <2>1, MemoUnchanged, ResidentFacts DEF Resident
<1>3. Moves(t, "wait")
  BY <1>1 DEF Moves
<1>4. /\ PhaseNow[t] = "idle" /\ PhaseNow' = [PhaseNow EXCEPT ![t] = "waiting"]
      /\ AnswerNow' = AnswerNow
  BY <1>1, <1>3, PhaseCases, MoveSeen DEF Waiting
<1>5. MemoNow[k] = "busy"
  BY <1>1, MemoCases
<1>6. QED
  BY <1>1, <1>2, <1>4, <1>5 DEF Memo!AskBusy, Memo!Request

(* A missed lookup is a question about an absent frame, which forgets the  *)
(* evicted ones.                                                           *)
LEMMA LookupMissSeen ==
  ASSUME IInv, MInv, NEW t \in Threads, NEW k \in Keys, LookupMiss(t, k)
  PROVE  Memo!AskAbsent(t, k)
<1>1. /\ \E V : Inserted(k, V)
      /\ k \notin Resident
      /\ pc[t] = "idle" /\ pc' = [pc EXCEPT ![t] = "compute"]
      /\ req' = [req EXCEPT ![t] = k]
      /\ UNCHANGED <<res, faults>>
      /\ pc \in [Threads -> Places]
  BY LookupMissOutcome DEF IInv, TypeOK
<1>2. PICK V : Inserted(k, V)
  BY <1>1
<1>3. Moves(t, "compute")
  BY <1>1 DEF Moves
<1>4. /\ PhaseNow[t] = "idle" /\ PhaseNow' = [PhaseNow EXCEPT ![t] = "making"]
      /\ AnswerNow' = AnswerNow
  BY <1>1, <1>3, PhaseCases, MoveSeen
<1>5. MemoNow[k] = "absent"
  BY <1>1, MemoCases
<1>6. V \in SUBSET Memo!Forgettable
  BY <1>2, EvictionForgets DEF Inserted
<1>7. ASSUME NEW j \in Keys
      PROVE  MemoNow'[j] = IF j = k THEN "busy" ELSE IF j \in V THEN "absent" ELSE MemoNow[j]
  <2>1. CASE j = k
    BY <1>2, <2>1, MemoAfter DEF Inserted, Reserved, FreshEntry
  <2>2. CASE j # k /\ j \in V
    <3>1. j \notin Resident'
      BY <1>2, <2>2 DEF Inserted
    <3>2. QED
      BY <2>2, <3>1, MemoAfter
  <2>3. CASE j # k /\ j \notin V
    <3>1. j \in Resident <=> j \in Resident'
      BY <1>2, <2>3 DEF Inserted
    <3>2. j \in Resident => entry'[node'[j]].state = entry[node[j]].state
      BY <1>2, <2>3 DEF Inserted
    <3>3. QED
      BY <2>3, <3>1, <3>2, MemoSame
  <2>4. QED
    BY <2>1, <2>2, <2>3
<1>8. MemoNow' = [Memo!MemoWithout(V) EXCEPT ![k] = "busy"]
  <2>1. MemoNow' = [j \in Keys |-> MemoNow'[j]]
    BY DEF MemoNow
  <2>2. Memo!MemoWithout(V) = [j \in Keys |-> IF j \in V THEN "absent" ELSE MemoNow[j]]
    BY DEF Memo!MemoWithout
  <2>3. QED
    BY <1>7, <2>1, <2>2
<1>9. QED
  BY <1>1, <1>4, <1>5, <1>6, <1>8 DEF Memo!AskAbsent, Memo!Request

(* A lookup of a cache without capacity makes the frame for its caller     *)
(* alone.                                                                  *)
LEMMA LookupNoCacheSeen ==
  ASSUME IInv, MInv, NEW t \in Threads, NEW k \in Keys, LookupNoCache(t, k)
  PROVE  Memo!AskAlone(t, k)
<1>1. /\ \E V : Evicted(V)
      /\ k \notin Resident
      /\ pc[t] = "idle" /\ pc' = [pc EXCEPT ![t] = "nocache"]
      /\ req' = [req EXCEPT ![t] = k]
      /\ UNCHANGED <<res, faults>>
      /\ pc \in [Threads -> Places]
  BY LookupNoCacheOutcome DEF IInv, TypeOK
<1>2. PICK V : Evicted(V)
  BY <1>1
<1>3. Moves(t, "nocache")
  BY <1>1 DEF Moves
<1>4. /\ PhaseNow[t] = "idle" /\ PhaseNow' = [PhaseNow EXCEPT ![t] = "alone"]
      /\ AnswerNow' = AnswerNow
  BY <1>1, <1>3, PhaseCases, MoveSeen
<1>5. MemoNow[k] = "absent"
  BY <1>1, MemoCases
<1>6. V \in SUBSET Memo!Forgettable /\ MemoNow' = Memo!MemoWithout(V)
  BY <1>2, EvictionForgets, WithoutEvicted DEF Evicted
<1>7. QED
  BY <1>1, <1>4, <1>5, <1>6 DEF Memo!AskAlone, Memo!Request

(* set_limits only forgets frames.                                         *)
LEMMA SetLimitsSeen ==
  ASSUME IInv, MInv, NEW l \in Limits, SetLimits(l[1], l[2])
  PROVE  Memo!Forget
<1>1. PICK V : Evicted(V)
  BY SetLimitsOutcome
<1>2. UNCHANGED <<pc, req, res, faults>>
  BY SetLimitsOutcome
<1>3. V \in SUBSET Memo!Forgettable /\ MemoNow' = Memo!MemoWithout(V)
  BY <1>1, EvictionForgets, WithoutEvicted DEF Evicted
<1>4. PhaseNow' = PhaseNow /\ AnswerNow' = AnswerNow
  BY <1>2 DEF PhaseNow, PhaseOf, AnswerNow, AnswerOf
<1>5. QED
  BY <1>2, <1>3, <1>4 DEF Memo!Forget

(* Steps that FrameMemo does not see.                                      *)
LEMMA StepsUnseen ==
  ASSUME IInv, MInv, NEW t \in Threads,
         SpuriousWakeup(t) \/ ChildReturns(t) \/ \E k \in Keys : LookupNotAvailable(t, k)
  PROVE  UNCHANGED Memo!memoVars
<1>1. /\ pc \in [Threads -> Places] /\ entry \in [Entries -> EntryType] /\ UNCHANGED <<node, req, faults>>
  BY DEF IInv, TypeOK, SpuriousWakeup, ChildReturns, LookupNotAvailable, cacheVars
<1>2. \A k \in Resident : entry'[node[k]].state = entry[node[k]].state
  <2>1. CASE ChildReturns(t)
    <3>1. entry' = [entry EXCEPT ![hnd[t]].value = req[t]]
      BY <2>1 DEF ChildReturns
    <3>2. QED
      BY <1>1, <3>1, ResidentFacts DEF EntryType
  <2>2. CASE UNCHANGED entry
    BY <2>2
  <2>3. QED
    BY <2>1, <2>2 DEF SpuriousWakeup, LookupNotAvailable
<1>3. MemoNow' = MemoNow
  BY <1>1, <1>2, MemoUnchanged DEF Resident
<1>4. \A u \in Threads : PhaseOf(u)' = PhaseOf(u) /\ AnswerOf(u)' = AnswerOf(u)
  <2>1. CASE SpuriousWakeup(t)
    <3>1. pc[t] = "wait" /\ pc' = [pc EXCEPT ![t] = "woken"] /\ res' = res
      BY <2>1 DEF SpuriousWakeup
    <3>2. QED
      BY <1>1, <3>1 DEF PhaseOf, AnswerOf, Waiting
  <2>2. CASE ChildReturns(t)
    <3>1. /\ pc[t] = "compute" /\ pc' = [pc EXCEPT ![t] = "stored"]
          /\ \A u \in Threads : u # t => res'[u] = res[u]
      BY <2>2 DEF ChildReturns, IInv, TypeOK
    <3>2. QED
      BY <1>1, <3>1 DEF PhaseOf, AnswerOf, Waiting
  <2>3. CASE UNCHANGED <<pc, res>>
    BY <2>3 DEF PhaseOf, AnswerOf
  <2>4. QED
    BY <2>1, <2>2, <2>3 DEF LookupNotAvailable
<1>5. PhaseNow' = PhaseNow /\ AnswerNow' = AnswerNow
  BY <1>4 DEF PhaseNow, AnswerNow
<1>6. QED
  BY <1>1, <1>3, <1>5 DEF Memo!memoVars

(* A waiter that finds its entry AVAILABLE takes the answer.               *)
LEMMA TakeValueSeen ==
  ASSUME IInv, MInv, NEW t \in Threads, TakeValue(t)
  PROVE  Memo!Answer(t)
<1>1. /\ pc[t] = "woken" /\ entry[hnd[t]].state = "available"
      /\ pc' = [pc EXCEPT ![t] = "done"]
      /\ res' = [res EXCEPT ![t] = entry[hnd[t]].value]
      /\ entry' = [entry EXCEPT ![hnd[t]].locks = @ - 1]
      /\ UNCHANGED <<node, req, faults>>
      /\ pc \in [Threads -> Places] /\ res \in [Threads -> Frames] /\ entry \in [Entries -> EntryType]
  BY DEF TakeValue, cacheVars, IInv, TypeOK
<1>2. req[t] \in Resident /\ req[t] \in Keys /\ hnd[t] = node[req[t]] /\ hnd[t] \in Entries
  BY <1>1, HeldFacts DEF Holding, Waiting
<1>3. MemoNow' = MemoNow
  <2>1. \A e \in Entries : entry'[e].state = entry[e].state
    BY <1>1, <1>2 DEF EntryType
  <2>2. QED
    BY <1>1, <2>1, MemoUnchanged, ResidentFacts DEF Resident
<1>4. entry[hnd[t]].value = req[t] /\ MemoNow[req[t]] = "ready"
  BY <1>1, <1>2, MemoCases DEF IInv, AvailableIsFilled
<1>5. Moves(t, "done")
  BY <1>1 DEF Moves
<1>6. /\ PhaseNow[t] = "waiting" /\ PhaseNow' = [PhaseNow EXCEPT ![t] = "answered"]
      /\ AnswerNow' = [AnswerNow EXCEPT ![t] = req[t]]
  BY <1>1, <1>4, <1>5, PhaseCases, MoveSeen DEF Waiting
<1>7. QED
  BY <1>1, <1>3, <1>4, <1>6 DEF Memo!Answer

(* A waiter that finds no frame waits on, and an abandoned frame becomes a *)
(* busy one again.                                                         *)
LEMMA WaitAgainSeen ==
  ASSUME IInv, MInv, NEW t \in Threads, WaitAgain(t)
  PROVE  Memo!WaitOn(req[t]) \/ UNCHANGED Memo!memoVars
<1>1. /\ pc[t] = "woken" /\ entry[hnd[t]].state # "available"
      /\ pc' = [pc EXCEPT ![t] = "wait"]
      /\ entry' = [entry EXCEPT ![hnd[t]].state = "empty"]
      /\ UNCHANGED <<node, req, res, faults>>
      /\ pc \in [Threads -> Places] /\ entry \in [Entries -> EntryType]
  BY DEF WaitAgain, cacheVars, IInv, TypeOK
<1>2. /\ req[t] \in Resident /\ req[t] \in Keys /\ hnd[t] = node[req[t]] /\ hnd[t] \in Entries
      /\ \A k \in Resident : node[k] = hnd[t] => k = req[t]
  BY <1>1, HeldFacts DEF Holding, Waiting
<1>3. /\ entry'[hnd[t]].state = "empty"
      /\ \A e \in Entries : e # hnd[t] => entry'[e] = entry[e]
  BY <1>1, <1>2 DEF EntryType
<1>4. Resident' = Resident /\ \A j \in Resident : node'[j] = node[j] /\ node[j] \in Entries
  BY <1>1, ResidentFacts DEF Resident
<1>5. MemoNow' = [MemoNow EXCEPT ![req[t]] = "busy"]
  <2>1. \A j \in Resident \ {req[t]} : entry'[node'[j]].state = entry[node[j]].state
    BY <1>2, <1>3, <1>4
  <2>2. MemoNow'[req[t]] = "busy"
    BY <1>2, <1>3, <1>4, MemoAfter
  <2>3. QED
    BY <1>2, <1>4, <2>1, <2>2, MemoChanged
<1>6. Moves(t, "wait")
  BY <1>1 DEF Moves
<1>7. PhaseNow' = PhaseNow /\ AnswerNow' = AnswerNow
  <2>1. PhaseNow[t] = "waiting" /\ PhaseNow' = [PhaseNow EXCEPT ![t] = "waiting"]
    BY <1>1, <1>6, PhaseCases, MoveSeen DEF Waiting
  <2>2. QED
    BY <1>1, <1>6, <2>1, MoveSeen DEF PhaseNow
<1>8. CASE MemoNow[req[t]] = "abandoned"
  <2>1. t \in Memo!Waiters(req[t])
    BY <1>1, WaitersAre DEF Waiting
  <2>2. QED
    BY <1>1, <1>5, <1>7, <1>8, <2>1 DEF Memo!WaitOn
<1>9. CASE MemoNow[req[t]] # "abandoned"
  <2>1. MemoNow[req[t]] = "busy"
    BY <1>1, <1>2, <1>9, MemoCases, ResidentFacts DEF EntryType, EntryStates
  <2>2. MemoNow' = MemoNow
    BY <1>5, <2>1 DEF MemoNow
  <2>3. QED
    BY <1>1, <1>7, <2>2 DEF Memo!memoVars
<1>10. QED
  BY <1>8, <1>9

(* commit_value makes the frame of the memory.                             *)
LEMMA CommitValueSeen ==
  ASSUME IInv, MInv, NEW t \in Threads, CommitValue(t)
  PROVE  Memo!Made(t)
<1>1. /\ pc[t] = "stored" /\ pc' = [pc EXCEPT ![t] = "notifyall"]
      /\ entry' = [entry EXCEPT ![hnd[t]].state = "available", ![hnd[t]].locks = @ - 1]
      /\ UNCHANGED <<node, req, res, faults>>
      /\ pc \in [Threads -> Places] /\ entry \in [Entries -> EntryType]
  BY DEF CommitValue, cacheVars, IInv, TypeOK
<1>2. /\ req[t] \in Resident /\ req[t] \in Keys /\ hnd[t] = node[req[t]] /\ hnd[t] \in Entries
      /\ \A k \in Resident : node[k] = hnd[t] => k = req[t]
  BY <1>1, HeldFacts DEF Holding, Producing
<1>3. /\ entry'[hnd[t]].state = "available"
      /\ \A e \in Entries : e # hnd[t] => entry'[e] = entry[e]
  BY <1>1, <1>2 DEF EntryType
<1>4. Resident' = Resident /\ \A j \in Resident : node'[j] = node[j] /\ node[j] \in Entries
  BY <1>1, ResidentFacts DEF Resident
<1>5. MemoNow' = [MemoNow EXCEPT ![req[t]] = "ready"]
  <2>1. \A j \in Resident \ {req[t]} : entry'[node'[j]].state = entry[node[j]].state
    BY <1>2, <1>3, <1>4
  <2>2. MemoNow'[req[t]] = "ready"
    BY <1>2, <1>3, <1>4, MemoAfter
  <2>3. QED
    BY <1>2, <1>4, <2>1, <2>2, MemoChanged
<1>6. Moves(t, "notifyall")
  BY <1>1 DEF Moves
<1>7. /\ PhaseNow[t] = "making" /\ PhaseNow' = [PhaseNow EXCEPT ![t] = "made"]
      /\ AnswerNow' = AnswerNow
  BY <1>1, <1>6, PhaseCases, MoveSeen
<1>8. QED
  BY <1>1, <1>5, <1>7 DEF Memo!Made

(* The producer after notify_all, and the thread without a cache, return   *)
(* their frame.                                                            *)
LEMMA AnswersSeen ==
  ASSUME IInv, MInv, NEW t \in Threads, NotifyAll(t) \/ ChildReturnsUncached(t)
  PROVE  Memo!Answer(t)
<1>1. /\ UNCHANGED <<node, entry, req, faults>>
      /\ pc \in [Threads -> Places] /\ res \in [Threads -> Frames]
  BY DEF NotifyAll, ChildReturnsUncached, cacheVars, IInv, TypeOK
<1>2. Moves(t, "done") /\ res'[t] = req[t] /\ pc[t] \in {"notifyall", "nocache"}
  <2>1. CASE NotifyAll(t)
    <3>1. /\ pc[t] = "notifyall" /\ res' = res
          /\ pc' = [u \in Threads |->
                      IF u = t THEN "done"
                      ELSE IF pc[u] = "wait" /\ hnd[u] = hnd[t] THEN "woken" ELSE pc[u]]
      BY <2>1 DEF NotifyAll
    <3>2. res[t] = req[t]
      BY <3>1 DEF IInv, ProducersHoldResults
    <3>3. QED
      BY <3>1, <3>2 DEF Moves, Waiting
  <2>2. CASE ChildReturnsUncached(t)
    BY <1>1, <2>2 DEF ChildReturnsUncached, Moves
  <2>3. QED
    BY <2>1, <2>2
<1>3. MemoNow' = MemoNow
  BY <1>1, MemoUnchanged DEF Resident
<1>4. /\ PhaseNow[t] \in {"made", "alone"} /\ PhaseNow' = [PhaseNow EXCEPT ![t] = "answered"]
      /\ AnswerNow' = [AnswerNow EXCEPT ![t] = req[t]]
  BY <1>2, PhaseCases, MoveSeen
<1>5. QED
  BY <1>1, <1>3, <1>4 DEF Memo!Answer

(* A returned or failed thread may ask again.                              *)
LEMMA LeavesSeen ==
  ASSUME IInv, MInv, NEW t \in Threads, NotifyOne(t) \/ Return(t)
  PROVE  Memo!Leave(t)
<1>1. /\ UNCHANGED <<node, entry, faults>> /\ req' = [req EXCEPT ![t] = None]
      /\ pc \in [Threads -> Places] /\ res \in [Threads -> Frames]
  BY DEF NotifyOne, Return, cacheVars, IInv, TypeOK
<1>2. Moves(t, "idle") /\ pc[t] \in {"notifyone", "done"}
  <2>1. CASE NotifyOne(t)
    <3> DEFINE after == [pc EXCEPT ![t] = "idle"]
    <3>1. /\ pc[t] = "notifyone" /\ res' = res
          /\ \/ pc' = after
             \/ \E u \in Threads : pc[u] = "wait" /\ pc' = [after EXCEPT ![u] = "woken"]
      BY <2>1 DEF NotifyOne
    <3>2. QED
      BY <1>1, <3>1 DEF Moves, Waiting
  <2>2. CASE Return(t)
    BY <1>1, <2>2 DEF Return, Moves
  <2>3. QED
    BY <2>1, <2>2
<1>3. MemoNow' = MemoNow
  BY <1>1, MemoUnchanged DEF Resident
<1>4. /\ PhaseNow[t] \in {"leaving", "answered"} /\ PhaseNow' = [PhaseNow EXCEPT ![t] = "idle"]
      /\ AnswerNow' = [AnswerNow EXCEPT ![t] = None]
  BY <1>2, PhaseCases, MoveSeen
<1>5. QED
  BY <1>1, <1>3, <1>4 DEF Memo!Leave

(* An exception of the child filter fails the production.                  *)
LEMMA ChildThrowsSeen ==
  ASSUME IInv, MInv, NEW t \in Threads, ChildThrows(t)
  PROVE  Memo!Fail(t)
<1>1. /\ UNCHANGED <<node, entry, res>> /\ faults < MaxFaults /\ faults' = faults + 1
      /\ pc \in [Threads -> Places] /\ req \in [Threads -> Frames]
  BY DEF ChildThrows, cacheVars, IInv, TypeOK
<1>2. MemoNow' = MemoNow
  BY <1>1, MemoUnchanged DEF Resident
<1>3. CASE pc[t] = "compute"
  <2>1. pc' = [pc EXCEPT ![t] = "threw"] /\ req' = req
    BY <1>3 DEF ChildThrows
  <2>2. Moves(t, "threw")
    BY <1>1, <2>1 DEF Moves
  <2>3. /\ PhaseNow[t] = "making" /\ PhaseNow' = [PhaseNow EXCEPT ![t] = "failed"]
        /\ AnswerNow' = AnswerNow
    BY <1>3, <2>2, PhaseCases, MoveSeen
  <2>4. req' = [req EXCEPT ![t] = req[t]]
    BY <1>1, <2>1
  <2>5. QED
    BY <1>1, <1>2, <2>3, <2>4 DEF Memo!Fail
<1>4. CASE pc[t] # "compute"
  <2>1. pc[t] = "nocache" /\ pc' = [pc EXCEPT ![t] = "idle"] /\ req' = [req EXCEPT ![t] = None]
    BY <1>4 DEF ChildThrows
  <2>2. Moves(t, "idle")
    BY <1>1, <2>1 DEF Moves
  <2>3. /\ PhaseNow[t] = "alone" /\ PhaseNow' = [PhaseNow EXCEPT ![t] = "idle"]
        /\ AnswerNow' = AnswerNow
    BY <2>1, <2>2, PhaseCases, MoveSeen
  <2>4. QED
    BY <1>1, <1>2, <2>1, <2>3 DEF Memo!Fail
<1>5. QED
  BY <1>3, <1>4

(* rollback without waiters gives the frame up: it is absent again.        *)
LEMMA RollbackRemovesSeen ==
  ASSUME IInv, MInv, NEW t \in Threads, RollbackRemoves(t)
  PROVE  Memo!GiveUp(t)
<1>1. /\ pc[t] = "threw" /\ pc' = [pc EXCEPT ![t] = "idle"]
      /\ entry[hnd[t]].locks = 1
      /\ req' = [req EXCEPT ![t] = None]
      /\ node' = [k \in Resident \ {entry[hnd[t]].key} |-> node[k]]
      /\ UNCHANGED <<entry, res, faults>>
      /\ pc \in [Threads -> Places]
  BY DEF RollbackRemoves, IInv, TypeOK
<1>2. /\ req[t] \in Resident /\ req[t] \in Keys /\ hnd[t] = node[req[t]]
      /\ entry[hnd[t]].key = req[t] /\ t \in Holders(hnd[t])
  BY <1>1, HeldFacts DEF Holding, Producing
<1>3. Resident' = Resident \ {req[t]}
  BY <1>1, <1>2 DEF Resident
<1>4. Memo!Waiters(req[t]) = {}
  <2>1. Cardinality(Holders(hnd[t])) = 1
    BY <1>1, <1>2 DEF IInv, LocksCountHolders
  <2>2. PICK x : Holders(hnd[t]) = {x}
    BY <2>1, HoldersFinite, FS_Singleton
  <2>3. ASSUME NEW u \in Threads, pc[u] \in Waiting, req[u] = req[t] PROVE FALSE
    <3>1. u \in Holders(hnd[t])
      BY <1>2, <2>3, HeldFacts DEF Holding
    <3>2. QED
      BY <1>1, <1>2, <2>2, <2>3, <3>1 DEF Waiting
  <2>4. QED
    BY <2>3, WaitersAre
<1>5. MemoNow' = [MemoNow EXCEPT ![req[t]] = "absent"]
  <2>1. \A j \in Resident \ {req[t]} : entry'[node'[j]].state = entry[node[j]].state
    BY <1>1, <1>2
  <2>2. MemoNow'[req[t]] = "absent"
    BY <1>2, <1>3, MemoAfter
  <2>3. QED
    BY <1>2, <1>3, <2>1, <2>2, MemoChanged
<1>6. Moves(t, "idle")
  BY <1>1 DEF Moves
<1>7. /\ PhaseNow[t] = "failed" /\ PhaseNow' = [PhaseNow EXCEPT ![t] = "idle"]
      /\ AnswerNow' = AnswerNow
  BY <1>1, <1>6, PhaseCases, MoveSeen
<1>8. QED
  BY <1>1, <1>4, <1>5, <1>7 DEF Memo!GiveUp

(* rollback with waiters gives the frame up: it is abandoned to them.      *)
LEMMA RollbackHandsOverSeen ==
  ASSUME IInv, MInv, NEW t \in Threads, RollbackHandsOver(t)
  PROVE  Memo!GiveUp(t)
<1>1. /\ pc[t] = "threw" /\ pc' = [pc EXCEPT ![t] = "notifyone"]
      /\ entry[hnd[t]].locks # 1
      /\ entry' = [entry EXCEPT ![hnd[t]].state = "rolledback", ![hnd[t]].locks = @ - 1]
      /\ UNCHANGED <<node, req, res, faults>>
      /\ pc \in [Threads -> Places] /\ entry \in [Entries -> EntryType]
  BY DEF RollbackHandsOver, cacheVars, IInv, TypeOK
<1>2. /\ req[t] \in Resident /\ req[t] \in Keys /\ hnd[t] = node[req[t]] /\ hnd[t] \in Entries
      /\ \A k \in Resident : node[k] = hnd[t] => k = req[t]
  BY <1>1, HeldFacts DEF Holding, Producing
<1>3. /\ entry'[hnd[t]].state = "rolledback"
      /\ \A e \in Entries : e # hnd[t] => entry'[e] = entry[e]
  BY <1>1, <1>2 DEF EntryType
<1>4. Resident' = Resident /\ \A j \in Resident : node'[j] = node[j] /\ node[j] \in Entries
  BY <1>1, ResidentFacts DEF Resident
<1>5. Memo!Waiters(req[t]) # {}
  <2>1. PICK u \in Threads : pc[u] \in Waiting /\ req[u] = req[t]
    BY <1>1, AnotherHolder
  <2>2. u \in Memo!Waiters(req[t])
    BY <2>1, WaitersAre
  <2>3. QED
    BY <2>2
<1>6. MemoNow' = [MemoNow EXCEPT ![req[t]] = "abandoned"]
  <2>1. \A j \in Resident \ {req[t]} : entry'[node'[j]].state = entry[node[j]].state
    BY <1>2, <1>3, <1>4
  <2>2. MemoNow'[req[t]] = "abandoned"
    BY <1>2, <1>3, <1>4, MemoAfter
  <2>3. QED
    BY <1>2, <1>4, <2>1, <2>2, MemoChanged
<1>7. Moves(t, "notifyone")
  BY <1>1 DEF Moves
<1>8. /\ PhaseNow[t] = "failed" /\ PhaseNow' = [PhaseNow EXCEPT ![t] = "leaving"]
      /\ AnswerNow' = AnswerNow
  BY <1>1, <1>7, PhaseCases, MoveSeen
<1>9. QED
  BY <1>1, <1>5, <1>6, <1>8 DEF Memo!GiveUp

(* An empty cache is an empty memory.                                      *)
LEMMA InitSeen == Init => Memo!MemoInit
<1> SUFFICES ASSUME Init PROVE Memo!MemoInit
  OBVIOUS
<1>1. MemoNow = [k \in Keys |-> "absent"]
  BY DEF Init, MemoNow, MemoOf, Resident
<1>2. PhaseNow = [t \in Threads |-> "idle"] /\ AnswerNow = [t \in Threads |-> None]
  BY DEF Init, PhaseNow, PhaseOf, AnswerNow, AnswerOf, Waiting
<1>3. QED
  BY <1>1, <1>2 DEF Init, Memo!MemoInit

(* Every step of the cache is a step of the memory, or none.               *)
LEMMA NextSeen == IInv /\ MInv /\ [Next]_vars => [Memo!MemoNext]_Memo!memoVars
<1> SUFFICES ASSUME IInv, MInv, [Next]_vars PROVE Memo!MemoNext \/ UNCHANGED Memo!memoVars
  OBVIOUS
<1>1. CASE UNCHANGED vars
  BY <1>1 DEF vars, Memo!memoVars, MemoNow, MemoOf, PhaseNow, PhaseOf, AnswerNow, AnswerOf, Resident
<1>2. ASSUME NEW t \in Threads, Lookup(t) PROVE Memo!MemoNext \/ UNCHANGED Memo!memoVars
  <2>1. PICK k \in Keys : \/ LookupReady(t, k) \/ LookupWait(t, k) \/ LookupNotAvailable(t, k)
                          \/ LookupMiss(t, k) \/ LookupNoCache(t, k)
    BY <1>2 DEF Lookup
  <2>2. QED
    BY <2>1, LookupReadySeen, LookupWaitSeen, LookupMissSeen, LookupNoCacheSeen, StepsUnseen
    DEF Memo!MemoNext
<1>3. ASSUME NEW t \in Threads, SpuriousWakeup(t) \/ ChildThrows(t)
      PROVE  Memo!MemoNext \/ UNCHANGED Memo!memoVars
  BY <1>3, StepsUnseen, ChildThrowsSeen DEF Memo!MemoNext
<1>4. ASSUME NEW t \in Threads, Proceed(t) PROVE Memo!MemoNext \/ UNCHANGED Memo!memoVars
  <2>1. CASE WaitAgain(t)
    <3>1. req[t] \in Keys
      BY <2>1, HeldFacts DEF WaitAgain, Holding, Waiting
    <3>2. QED
      BY <2>1, <3>1, WaitAgainSeen DEF Memo!MemoNext
  <2>2. CASE ~WaitAgain(t)
    BY <1>4, <2>2, TakeValueSeen, StepsUnseen, CommitValueSeen, AnswersSeen, LeavesSeen,
       RollbackRemovesSeen, RollbackHandsOverSeen DEF Proceed, Memo!MemoNext, Memo!Serve
  <2>3. QED
    BY <2>1, <2>2
<1>5. ASSUME NEW l \in Limits, SetLimits(l[1], l[2])
      PROVE  Memo!MemoNext \/ UNCHANGED Memo!memoVars
  BY <1>5, SetLimitsSeen DEF Memo!MemoNext
<1>6. QED
  BY <1>1, <1>2, <1>3, <1>4, <1>5 DEF Next

(* Whatever the threads, keys, capacities and failures, Cache::GetFrame    *)
(* over LruCache does nothing that the memory of frames does not do.       *)
THEOREM StepsAsFrameMemo == Spec => Memo!MemoInit /\ [][Memo!MemoNext]_Memo!memoVars
BY InitIInv, NextIInv, InitMInv, NextMInv, InitSeen, NextSeen, PTL DEF Spec
=============================================================================
