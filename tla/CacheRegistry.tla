---------------------------- MODULE CacheRegistry ----------------------------
(***************************************************************************)
(* The environment's list of caches and how it moves their limits:         *)
(* ManageCache, which every Cache::GetFrame calls, and EnsureMemoryLimit,  *)
(* which the allocation of a frame calls, both under memory_mutex.  The    *)
(* caches' own locks are others: their sizes change while either of the    *)
(* two goes through the list.                                              *)
(*                                                                         *)
(* A cache is known by the number of its entries, of those that threads    *)
(* hold, and by its capacities; which frames they are is LruCache's matter.*)
(* How much memory is used is left open: at every check there may be       *)
(* enough or too little of it.                                             *)
(***************************************************************************)
EXTENDS Integers, Sequences, SequencesExt, FiniteSets

CONSTANTS
  Threads,     \* those that call GetFrame
  Caches,
  Asked,       \* bound: the caches that they call GetFrame of
  MaxCapacity, \* bound: capacity up to which each cache grows by itself
  NoLimit,     \* numeric_limits<size_t>::max()
  None

ASSUME RegistryAssumption ==
  /\ MaxCapacity \in [Caches -> Nat] /\ NoLimit \in Nat
  /\ \A c \in Caches : NoLimit > MaxCapacity[c] + Cardinality(Threads)
  /\ IsFiniteSet(Threads) /\ None \notin Caches

VARIABLES
  FrontCache,    \* the cache created last
  CacheRegistry, \* the others, least recently used first
  cache,         \* each cache's min, max and requested capacity, and its size
  pc, on, saved, \* each thread's place, its cache, the capacity it has read
  holds,         \* the threads with an entry of their cache
  cursor, osize, \* how far a loop over the registry is, and the size it has read
  basis          \* history: the size that a loop has set each cache's limit by

loop == <<cursor, osize, basis>>
envVars == <<FrontCache, CacheRegistry, loop>>
threadVars == <<pc, on, saved, holds>>
vars == <<envVars, cache, threadVars>>

Clamp(n, low, high) == LET m == IF n > high THEN high ELSE n
                       IN  IF m < low THEN low ELSE m

Capacity(r) == Clamp(r.req, r.min, r.max)

Alive == {c \in Caches : cache[c].alive}

Holders(c) == {t \in holds : on[t] = c}

(* No loop has come to a cache, or one has and found it empty (0).         *)
NotYet == [c \in Caches |-> -1]

Dead == [alive |-> FALSE, min |-> 0, max |-> NoLimit, req |-> 0, size |-> 0]

Init == /\ FrontCache = None
        /\ CacheRegistry = <<>>
        /\ cache = [c \in Caches |-> Dead]
        /\ pc = [t \in Threads |-> "idle"]
        /\ on = [t \in Threads |-> None]
        /\ saved = [t \in Threads |-> 0]
        /\ holds = {}
        /\ cursor = 0 /\ osize = 0 /\ basis = NotYet

InMutex == {"expanding", "take", "taking", "grow", "shrink", "set"}

(* memory_mutex is taken while a thread is inside ManageCache or           *)
(* EnsureMemoryLimit.                                                      *)
MutexFree == \A t \in Threads : pc[t] \notin InMutex

-----------------------------------------------------------------------------
(* Limits *)

(* What trim may leave of a cache: it looks at the last entries only and   *)
(* passes over those that are held.                                        *)
SizesAfterTrim(r, held) ==
  LET excess == IF r.size > Capacity(r) THEN r.size - Capacity(r) ELSE 0
      free == r.size - held
  IN  {r.size - n : n \in {m \in 0 .. r.size :
                             m <= excess /\ m <= free /\ m >= excess - held}}

Trimmed(c, r) == {[r EXCEPT !.size = n] : n \in SizesAfterTrim(r, Cardinality(Holders(c)))}

(* set_limits with the old minimum, as SetCacheHints does. *)
SetMaxCapacity(c, max) ==
  \E r \in Trimmed(c, [cache[c] EXCEPT !.max = max]) : cache' = [cache EXCEPT ![c] = r]

-----------------------------------------------------------------------------
(* Caches come and go *)

(* mapped_list finds its element by a map, and asserts that it is there.   *)
Removed(c) == RemoveAt(CacheRegistry,
                       CHOOSE i \in DOMAIN CacheRegistry : CacheRegistry[i] = c)

Create(c) ==
  /\ MutexFree /\ c \notin Alive
  /\ cache' = [cache EXCEPT ![c] = [Dead EXCEPT !.alive = TRUE]]
  /\ FrontCache' = c
  /\ CacheRegistry' = IF FrontCache # None THEN Append(CacheRegistry, FrontCache)
                      ELSE CacheRegistry
  /\ UNCHANGED <<loop, threadVars>>

\* Mutant: the front cache is still pointed to when it is gone.
Unregister_KeepsFront(c) ==
  /\ CacheRegistry' = SelectSeq(CacheRegistry, LAMBDA d : d # c)
  /\ UNCHANGED FrontCache

Unregister(c) ==
  IF FrontCache = c
  THEN FrontCache' = None /\ UNCHANGED CacheRegistry
  ELSE CacheRegistry' = Removed(c) /\ UNCHANGED FrontCache

Delete(c) ==
  /\ MutexFree /\ c \in Alive /\ \A t \in Threads : on[t] # c
  /\ Unregister(c)
  /\ cache' = [cache EXCEPT ![c] = Dead]
  /\ UNCHANGED <<loop, threadVars>>

-----------------------------------------------------------------------------
(* Cache::GetFrame *)

Goes(t, from, to) == pc[t] = from /\ pc' = [pc EXCEPT ![t] = to]

(* A lookup that resizes the cache writes the request before the capacity, *)
(* and both are read without a lock: the request may be one that the       *)
(* capacity does not yet follow.                                           *)
MayAsk(c) == Capacity(cache[c]) < MaxCapacity[c]
Requests(c) ==
  {cache[c].req} \cup {n \in {Capacity(cache[c]) + 1} :
                       MayAsk(c) /\ \E t \in Threads : on[t] = c /\ pc[t] = "lookup"}

CallGetFrame(t, c) ==
  /\ c \in Asked \cap Alive
  /\ Goes(t, "idle", "called")
  /\ on' = [on EXCEPT ![t] = c]
  /\ \E req \in Requests(c) : saved' = [saved EXCEPT ![t] = req]
  /\ UNCHANGED <<envVars, cache, holds>>

(* The capacity is read after it. *)
ReadCapacity(t) ==
  /\ Goes(t, "called", IF saved[t] > Capacity(cache[on[t]]) THEN "expand" ELSE "nod")
  /\ saved' = [saved EXCEPT ![t] = 0]
  /\ UNCHANGED <<envVars, cache, on, holds>>

(* The registry after a nod of c. *)
MovedToBack(c) == IF c = FrontCache THEN CacheRegistry
                  ELSE Append(Removed(c), c)

\* Mutant: a nod does not wait for memory_mutex.
NodCache_Unlocked(t) ==
  /\ Goes(t, "nod", "lookup")
  /\ CacheRegistry' = MovedToBack(on[t])
  /\ UNCHANGED <<FrontCache, loop, cache, on, saved, holds>>

NodCache(t) ==
  /\ MutexFree
  /\ Goes(t, "nod", "lookup")
  /\ CacheRegistry' = MovedToBack(on[t])
  /\ UNCHANGED <<FrontCache, loop, cache, on, saved, holds>>

(* The mutex keeps limits from moving, but not the lookups of others from  *)
(* asking for more: the capacity is read first, the request after it.      *)
NodAndExpandCache(t) ==
  /\ MutexFree
  /\ Goes(t, "expand", "expanding")
  /\ CacheRegistry' = MovedToBack(on[t])
  /\ saved' = [saved EXCEPT ![t] = Capacity(cache[on[t]])]
  /\ UNCHANGED <<FrontCache, loop, cache, on, holds>>

ReadRequest(t) ==
  /\ pc[t] = "expanding"
  /\ IF cache[on[t]].req <= saved[t]
     THEN /\ Goes(t, "expanding", "lookup")
          /\ saved' = [saved EXCEPT ![t] = 0]
          /\ UNCHANGED cursor
     ELSE /\ \/ Goes(t, "expanding", "take") /\ cursor' = 1
             \/ Goes(t, "expanding", "grow") /\ UNCHANGED cursor \* there is memory enough
          /\ UNCHANGED saved
  /\ UNCHANGED <<FrontCache, CacheRegistry, osize, basis, cache, on, holds>>

(* The loop over the registry looks for a cache to take a slot from, but   *)
(* the size it reads is that of the cache that wants to grow.              *)
SeekSlot(t) ==
  /\ pc[t] = "take"
  /\ IF cursor > Len(CacheRegistry)
     THEN Goes(t, "take", "grow") /\ UNCHANGED loop
     ELSE IF cache[on[t]].size = 0
     THEN cursor' = cursor + 1 /\ UNCHANGED <<pc, osize, basis>>
     ELSE /\ Goes(t, "take", "taking")
          /\ osize' = cache[on[t]].size
          /\ UNCHANGED <<cursor, basis>>
  /\ UNCHANGED <<FrontCache, CacheRegistry, cache, on, saved, holds>>

TakeSlot(t) ==
  /\ Goes(t, "taking", "grow")
  /\ SetMaxCapacity(CacheRegistry[cursor], osize - 1)
  /\ basis' = [basis EXCEPT ![CacheRegistry[cursor]] = osize]
  /\ osize' = 0
  /\ UNCHANGED <<FrontCache, CacheRegistry, cursor, on, saved, holds>>

\* Mutant: the limit is set to what it is already.
Expand_SameCapacity(t) ==
  /\ Goes(t, "grow", "lookup")
  /\ SetMaxCapacity(on[t], saved[t])
  /\ cursor' = 0 /\ basis' = NotYet
  /\ saved' = [saved EXCEPT ![t] = 0]
  /\ UNCHANGED <<FrontCache, CacheRegistry, osize, on, holds>>

Expand(t) ==
  /\ Goes(t, "grow", "lookup")
  /\ SetMaxCapacity(on[t], saved[t] + 1)
  /\ cursor' = 0 /\ basis' = NotYet
  /\ saved' = [saved EXCEPT ![t] = 0]
  /\ UNCHANGED <<FrontCache, CacheRegistry, osize, on, holds>>

(* LruCache::lookup finds the frame, or has no room, or reserves an entry; *)
(* a ghost of the frame asks for one entry more.                           *)
Hit(t) ==
  /\ Goes(t, "lookup", "idle")
  /\ cache[on[t]].size > 0
  /\ on' = [on EXCEPT ![t] = None]
  /\ UNCHANGED <<envVars, cache, saved, holds>>

Inserted(r) == IF Capacity(r) = 0 THEN r ELSE [r EXCEPT !.size = @ + 1]

(* The entry is this thread's as soon as it is inserted. *)
Miss(t, ghost) ==
  LET c == on[t]
      old == cache[c]
      held == Cardinality(Holders(c)) + (IF Capacity(old) = 0 THEN 0 ELSE 1)
  IN  /\ pc[t] = "lookup"
      /\ \E r \in Trimmed(c, old) :
           LET new == Inserted(r)
               grown == [new EXCEPT !.req = Capacity(r) + 1]
           IN  IF ghost
               THEN /\ MayAsk(c)
                    /\ \E n \in SizesAfterTrim(grown, held) :
                         cache' = [cache EXCEPT ![c] = [grown EXCEPT !.size = n]]
               ELSE cache' = [cache EXCEPT ![c] = new]
      /\ holds' = IF Capacity(old) = 0 THEN holds ELSE holds \cup {t}
      /\ Goes(t, "lookup", "making")
      /\ UNCHANGED <<envVars, on, saved>>

Made(t) ==
  /\ Goes(t, "making", "idle")
  /\ on' = [on EXCEPT ![t] = None]
  /\ holds' = holds \ {t}
  /\ UNCHANGED <<envVars, cache, saved>>

(* The frame could not be made: rollback removes the entry. *)
Failed(t) ==
  /\ t \in holds
  /\ Goes(t, "making", "idle")
  /\ cache' = [cache EXCEPT ![on[t]].size = @ - 1]
  /\ on' = [on EXCEPT ![t] = None]
  /\ holds' = holds \ {t}
  /\ UNCHANGED <<envVars, saved>>

-----------------------------------------------------------------------------
(* EnsureMemoryLimit, when a frame is allocated and memory_need, computed  *)
(* once, is more than memory_max: every cache of the registry has its turn.*)

EnsureMemoryLimit(t) ==
  /\ MutexFree
  /\ Goes(t, "making", "shrink")
  /\ cursor' = 1
  /\ UNCHANGED <<FrontCache, CacheRegistry, osize, basis, cache, on, saved, holds>>

ReadSize(t) ==
  /\ pc[t] = "shrink"
  /\ cursor <= Len(CacheRegistry)
  /\ pc' = [pc EXCEPT ![t] = "set"]
  /\ osize' = cache[CacheRegistry[cursor]].size
  /\ UNCHANGED <<FrontCache, CacheRegistry, cursor, basis, cache, on, saved, holds>>

Shrink(t) ==
  /\ Goes(t, "set", "shrink")
  /\ IF osize # 0 THEN SetMaxCapacity(CacheRegistry[cursor], osize - 1) ELSE UNCHANGED cache
  /\ basis' = [basis EXCEPT ![CacheRegistry[cursor]] = osize]
  /\ cursor' = cursor + 1
  /\ osize' = 0
  /\ UNCHANGED <<FrontCache, CacheRegistry, on, saved, holds>>

ShrinkEnds(t) ==
  /\ cursor > Len(CacheRegistry)
  /\ Goes(t, "shrink", "making")
  /\ cursor' = 0 /\ basis' = NotYet
  /\ UNCHANGED <<FrontCache, CacheRegistry, osize, cache, on, saved, holds>>

Next == \/ \E c \in Caches : Create(c) \/ Delete(c)
        \/ \E t \in Threads :
             \/ \E c \in Caches : CallGetFrame(t, c)
             \/ ReadCapacity(t) \/ NodCache(t) \/ NodAndExpandCache(t) \/ ReadRequest(t)
             \/ SeekSlot(t) \/ TakeSlot(t) \/ Expand(t)
             \/ Hit(t) \/ \E ghost \in BOOLEAN : Miss(t, ghost)
             \/ Made(t) \/ Failed(t)
             \/ EnsureMemoryLimit(t) \/ ReadSize(t) \/ Shrink(t) \/ ShrinkEnds(t)

Spec == Init /\ [][Next]_vars
-----------------------------------------------------------------------------
(* Properties *)

TypeOK == /\ FrontCache \in Caches \cup {None}
          /\ CacheRegistry \in Seq(Caches)
          /\ \A c \in Caches : /\ cache[c].min \in Nat /\ cache[c].max \in Nat
                             /\ cache[c].req \in Nat /\ cache[c].size \in Nat
          /\ \A t \in Threads : on[t] # None => cache[on[t]].alive

(* The caches that exist, the one in front included, are the ones that can *)
(* be found, each of them once, whatever the order in which they come, go, *)
(* and nod: no limit is ever set through a stale pointer.                  *)
RegisteredOnce ==
  /\ IsInjective(CacheRegistry)
  /\ FrontCache \notin ToSet(CacheRegistry)
  /\ Alive = (ToSet(CacheRegistry) \cup {FrontCache}) \ {None}

(* However the limits move, a cache keeps the entries that threads hold.   *)
HeldEntriesCounted == \A c \in Caches : cache[c].size >= Cardinality(Holders(c))

(* Nor does it keep much more than it may: whatever limit is set while     *)
(* entries are held, at most one entry per thread is beyond it.            *)
NotOverfull ==
  \A c \in Caches : cache[c].size <= Capacity(cache[c]) + Cardinality(Threads)

(* Together: who can be found exists, and what it is said to hold is so.   *)
RegistrySound == TypeOK /\ RegisteredOnce /\ HeldEntriesCounted /\ NotOverfull

(* When memory is short, the loops do reduce caching, however the caches   *)
(* are looked up, filled, emptied and asked for more between two of their  *)
(* steps.  EnsureMemoryLimit comes to every cache of the registry; and     *)
(* when it, or a ManageCache that takes a slot away, is done, each cache   *)
(* whose limit it has set may hold less than the size it was set by, and   *)
(* holds no more than that and an entry per thread.  (The size is a stale  *)
(* one, and in ManageCache not even that cache's but the asker's: it may   *)
(* exceed the limit there was before.)  The asker is let grow: AskerGrows. *)
Reduced(c) == /\ Capacity(cache'[c]) < basis[c]
              /\ cache'[c].size < basis[c] + Cardinality(Threads)
CachingReduced ==
  [][\A t \in Threads :
       /\ pc[t] = "shrink" /\ pc'[t] = "making" =>
            /\ \A c \in Alive \ {FrontCache} : basis[c] >= 0
            /\ \A c \in Alive : basis[c] > 0 => Reduced(c)
       /\ pc[t] = "grow" /\ pc'[t] = "lookup" =>
            \A c \in Alive \ {on[t]} : basis[c] > 0 => Reduced(c)]_vars

(* A cache that asks for more room has more than before when ManageCache   *)
(* returns, whatever other threads do to it meanwhile, unless it was       *)
(* itself the one that a slot was taken from.                              *)
TakenFrom == IF cursor \in DOMAIN CacheRegistry THEN CacheRegistry[cursor] ELSE None
AskerGrows ==
  [][\A t \in Threads : pc[t] = "grow" /\ pc'[t] = "lookup" /\ TakenFrom # on[t] =>
       Capacity(cache'[on[t]]) > saved[t]]_vars
=============================================================================
