------------------------ MODULE CacheRegistryProofs -------------------------
(* That every cache can be found once and keeps what threads hold, whatever *)
(* order caches come, go and are used in while limits move, and who loses   *)
(* or gains room when memory is short: for any threads and caches.          *)
EXTENDS CacheRegistry, SequenceTheorems, FiniteSetTheorems, TLAPS

Places == {"idle", "called", "nod", "expand", "lookup", "making"} \cup InMutex

CacheType == [alive: BOOLEAN, min: {0}, max: Nat, req: Nat, size: Nat]

Typed == /\ FrontCache \in Caches \cup {None}
         /\ CacheRegistry \in Seq(Caches)
         /\ cache \in [Caches -> CacheType]
         /\ pc \in [Threads -> Places]
         /\ on \in [Threads -> Caches \cup {None}]
         /\ saved \in [Threads -> Nat]
         /\ holds \in SUBSET Threads
         /\ cursor \in Nat /\ osize \in Nat
         /\ basis \in [Caches -> Int]

(* A thread is in a cache that exists, or idle; entries are held while a   *)
(* frame is made.                                                          *)
InCaches ==
  \A t \in Threads : /\ pc[t] = "idle" <=> on[t] = None
                     /\ on[t] # None => cache[on[t]].alive
                     /\ t \in holds => pc[t] \in {"making", "shrink", "set"}

(* One thread at a time goes through the registry, and is within it. *)
InLoop ==
  /\ \A t, u \in Threads : pc[t] \in InMutex /\ pc[u] \in InMutex => t = u
  /\ \A t \in Threads : /\ pc[t] \in {"take", "shrink"} => cursor >= 1
                        /\ pc[t] \in {"taking", "set"} => cursor \in 1 .. Len(CacheRegistry)
                        /\ pc[t] = "taking" => osize # 0

(* A cache that asks for more than it has goes on asking for more. *)
AskSound ==
  \A t \in Threads :
    /\ pc[t] = "expanding" => cache[on[t]].req >= saved[t] /\ cache[on[t]].max >= saved[t]
    /\ \/ pc[t] \in {"take", "taking"}
       \/ pc[t] = "grow" /\ TakenFrom # on[t]
       => cache[on[t]].req > saved[t] /\ cache[on[t]].max >= saved[t]

(* The limits set by the loop under way stay, and those behind it are set. *)
Shrinking == {"shrink", "set"}
BasisSound ==
  /\ \A c \in Caches : basis[c] > 0 => cache[c].max < basis[c]
  /\ \A t \in Threads : pc[t] \in Shrinking =>
       \A i \in DOMAIN CacheRegistry : i < cursor => basis[CacheRegistry[i]] >= 0
  /\ (\A t \in Threads : pc[t] \notin InMutex \/ pc[t] = "expanding") => basis = NotYet

IInv == /\ Typed /\ InCaches /\ InLoop /\ AskSound /\ BasisSound
        /\ RegisteredOnce /\ HeldEntriesCounted /\ NotOverfull

-----------------------------------------------------------------------------
(* Sequences of different caches. *)

(* A sequence without repetitions loses just the element removed. *)
LEMMA RemovedAt ==
  ASSUME NEW s \in Seq(Caches), IsInjective(s), NEW i \in 1 .. Len(s)
  PROVE  /\ RemoveAt(s, i) \in Seq(Caches) /\ IsInjective(RemoveAt(s, i))
         /\ ToSet(RemoveAt(s, i)) = ToSet(s) \ {s[i]}
<1> DEFINE a == SubSeq(s, 1, i - 1)
           b == SubSeq(s, i + 1, Len(s))
           r == RemoveAt(s, i)
<1>1. a \in Seq(Caches) /\ Len(a) = i - 1 /\ \A j \in 1 .. i - 1 : a[j] = s[j]
  BY SubSeqProperties
<1>2. b \in Seq(Caches) /\ Len(b) = Len(s) - i /\ \A j \in 1 .. Len(s) - i : b[j] = s[i + j]
  BY SubSeqProperties
<1>3. r = a \o b
  BY DEF RemoveAt
<1> HIDE DEF a, b, r
<1>4. /\ r \in Seq(Caches) /\ Len(r) = Len(s) - 1
      /\ \A j \in 1 .. Len(r) : r[j] = IF j < i THEN s[j] ELSE s[j + 1]
  <2>1. /\ r \in Seq(Caches) /\ Len(r) = Len(s) - 1
        /\ \A j \in 1 .. Len(r) : r[j] = IF j <= i - 1 THEN a[j] ELSE b[j - (i - 1)]
    <3>1. Len(a) + Len(b) = Len(s) - 1
      BY <1>1, <1>2
    <3>2. /\ a \o b \in Seq(Caches) /\ Len(a \o b) = Len(a) + Len(b)
          /\ \A j \in 1 .. Len(a) + Len(b) :
               (a \o b)[j] = IF j <= Len(a) THEN a[j] ELSE b[j - Len(a)]
      BY <1>1, <1>2, ConcatProperties
    <3> QED
      BY <1>1, <1>3, <3>1, <3>2
  <2>2. ASSUME NEW j \in 1 .. Len(r) PROVE r[j] = IF j < i THEN s[j] ELSE s[j + 1]
    <3>1. CASE j < i
      BY <1>1, <2>1, <3>1
    <3>2. CASE j >= i
      <4>1. j - (i - 1) \in 1 .. Len(s) - i
        BY <2>1, <3>2
      <4>2. b[j - (i - 1)] = s[i + (j - (i - 1))] /\ i + (j - (i - 1)) = j + 1
        BY <1>2, <4>1
      <4> QED
        BY <2>1, <3>2, <4>2
    <3> QED
      BY <3>1, <3>2
  <2> QED
    BY <2>1, <2>2
<1>5. IsInjective(r)
  <2> DEFINE at(j) == IF j < i THEN j ELSE j + 1
  <2>1. \A j \in 1 .. Len(r) : at(j) \in 1 .. Len(s) /\ r[j] = s[at(j)]
    BY <1>4
  <2>2. \A j, k \in 1 .. Len(r) : at(j) = at(k) => j = k
    OBVIOUS
  <2> HIDE DEF at
  <2>3. DOMAIN r = 1 .. Len(r) /\ DOMAIN s = 1 .. Len(s)
    BY <1>4
  <2> QED
    BY <2>1, <2>2, <2>3 DEF IsInjective
<1>6. ToSet(r) = ToSet(s) \ {s[i]}
  <2>1. ASSUME NEW j \in 1 .. Len(r) PROVE r[j] \in ToSet(s) \ {s[i]}
    <3>1. PICK k \in 1 .. Len(s) : r[j] = s[k] /\ k # i
      <4>1. CASE j < i
        BY <1>4, <4>1
      <4>2. CASE j >= i
        <5>1. j + 1 \in 1 .. Len(s) /\ r[j] = s[j + 1]
          BY <1>4, <4>2
        <5> QED
          BY <4>2, <5>1
      <4> QED
        BY <4>1, <4>2
    <3>2. s[k] # s[i]
      BY <3>1 DEF IsInjective
    <3> QED
      BY <3>1, <3>2 DEF ToSet
  <2>2. ASSUME NEW k \in 1 .. Len(s), s[k] # s[i] PROVE \E j \in 1 .. Len(r) : r[j] = s[k]
    <3>1. CASE k < i
      BY <1>4, <3>1
    <3>2. CASE k > i
      <4>1. k - 1 \in 1 .. Len(r) /\ r[k - 1] = s[k]
        BY <1>4, <3>2
      <4> QED
        BY <4>1
    <3> QED
      BY <2>2, <3>1, <3>2
  <2>3. DOMAIN r = 1 .. Len(r) /\ DOMAIN s = 1 .. Len(s)
    BY <1>4
  <2> HIDE DEF r
  <2>4. ToSet(r) \subseteq ToSet(s) \ {s[i]}
    BY <2>1, <2>3 DEF ToSet
  <2>5. ToSet(s) \ {s[i]} \subseteq ToSet(r)
    BY <2>2, <2>3 DEF ToSet
  <2> QED
    BY <2>4, <2>5
<1> QED
  BY <1>4, <1>5, <1>6 DEF r

(* The registry without one of its caches. *)
LEMMA WithoutOne ==
  ASSUME Typed, RegisteredOnce, NEW c \in ToSet(CacheRegistry)
  PROVE  /\ Removed(c) \in Seq(Caches) /\ IsInjective(Removed(c))
         /\ ToSet(Removed(c)) = ToSet(CacheRegistry) \ {c}
<1> DEFINE i == CHOOSE i \in DOMAIN CacheRegistry : CacheRegistry[i] = c
<1>1. i \in 1 .. Len(CacheRegistry) /\ CacheRegistry[i] = c
  BY DEF ToSet, Typed
<1> QED
  BY <1>1, RemovedAt DEF Removed, Typed, RegisteredOnce

(* A sequence without repetitions gains just the element appended. *)
LEMMA WithOneMore ==
  ASSUME NEW s \in Seq(Caches), IsInjective(s), NEW c \in Caches \ ToSet(s)
  PROVE  /\ Append(s, c) \in Seq(Caches) /\ IsInjective(Append(s, c))
         /\ ToSet(Append(s, c)) = ToSet(s) \cup {c}
<1>1. /\ Append(s, c) \in Seq(Caches) /\ Len(Append(s, c)) = Len(s) + 1
      /\ \A j \in 1 .. Len(s) + 1 : Append(s, c)[j] = IF j <= Len(s) THEN s[j] ELSE c
  BY AppendProperties
<1>2. \A j \in 1 .. Len(s) : s[j] # c
  BY DEF ToSet
<1> QED
  BY <1>1, <1>2 DEF ToSet, IsInjective

(* A nod leaves the same caches in the registry. *)
LEMMA Nodded ==
  ASSUME IInv, NEW c \in Alive
  PROVE  /\ MovedToBack(c) \in Seq(Caches) /\ IsInjective(MovedToBack(c))
         /\ ToSet(MovedToBack(c)) = ToSet(CacheRegistry)
<1>1. CASE c = FrontCache
  BY <1>1 DEF MovedToBack, IInv, Typed, RegisteredOnce
<1>2. CASE c # FrontCache
  <2>1. c \in ToSet(CacheRegistry) /\ c \in Caches
    BY <1>2 DEF IInv, RegisteredOnce, Alive
  <2> QED
    <3>1. /\ Removed(c) \in Seq(Caches) /\ IsInjective(Removed(c))
          /\ ToSet(Removed(c)) = ToSet(CacheRegistry) \ {c}
      BY <2>1, WithoutOne DEF IInv
    <3>2. MovedToBack(c) = Append(Removed(c), c)
      BY <1>2 DEF MovedToBack
    <3>3. c \in Caches \ ToSet(Removed(c))
      BY <2>1, <3>1
    <3>4. /\ Append(Removed(c), c) \in Seq(Caches) /\ IsInjective(Append(Removed(c), c))
          /\ ToSet(Append(Removed(c), c)) = ToSet(Removed(c)) \cup {c}
      BY <3>1, <3>3, WithOneMore
    <3>5. ToSet(Removed(c)) \cup {c} = ToSet(CacheRegistry)
      BY <2>1, <3>1
    <3> QED
      BY <3>2, <3>4, <3>5
<1> QED
  BY <1>1, <1>2

-----------------------------------------------------------------------------
(* Capacities and sizes. *)

(* A cache has room for what was requested, up to its maximum. *)
LEMMA CapacityOf ==
  ASSUME NEW r \in CacheType
  PROVE  Capacity(r) = IF r.req > r.max THEN r.max ELSE r.req
BY DEF CacheType, Capacity, Clamp

(* How many threads hold an entry of a cache is a number. *)
LEMMA HoldersCounted ==
  ASSUME Typed, NEW c
  PROVE  IsFiniteSet(Holders(c)) /\ Cardinality(Holders(c)) \in Nat
<1>1. Holders(c) \subseteq Threads
  BY DEF Holders, Typed
<1> QED
  BY <1>1, FS_Subset, FS_CardinalityType, RegistryAssumption

(* No more threads hold entries than there are. *)
LEMMA HeldByThreads ==
  ASSUME Typed, NEW c
  PROVE  /\ Cardinality(Threads) \in Nat
         /\ Cardinality(Holders(c)) <= Cardinality(Threads)
         /\ \A t \in Threads : t \notin holds => Cardinality(Holders(c)) < Cardinality(Threads)
<1>1. Holders(c) \subseteq Threads /\ IsFiniteSet(Threads)
  BY RegistryAssumption DEF Holders, Typed
<1>2. ASSUME NEW t \in Threads, t \notin holds
      PROVE  Cardinality(Holders(c)) < Cardinality(Threads)
  <2>1. Holders(c) \subseteq Threads \ {t}
    BY <1>1, <1>2 DEF Holders
  <2>2. /\ IsFiniteSet(Threads \ {t}) /\ Cardinality(Threads \ {t}) = Cardinality(Threads) - 1
        /\ Cardinality(Threads) \in Nat
    BY <1>1, FS_RemoveElement, FS_CardinalityType
  <2>3. Cardinality(Holders(c)) <= Cardinality(Threads \ {t}) /\ Cardinality(Holders(c)) \in Nat
    BY <2>1, <2>2, FS_Subset, FS_CardinalityType
  <2> QED
    BY <2>2, <2>3
<1> QED
  BY <1>1, <1>2, FS_Subset, FS_CardinalityType

(* A cache nobody uses has no entries held. *)
LEMMA NoneHeld == Cardinality({}) = 0
BY FS_EmptySet

(* Trimming leaves what is held, and the capacity beyond it at most. *)
LEMMA SizeAfterTrim ==
  ASSUME NEW r \in CacheType, NEW held \in Nat, r.size >= held,
         NEW n \in SizesAfterTrim(r, held)
  PROVE  n \in Nat /\ n >= held /\ n <= Capacity(r) + held
<1>1. Capacity(r) \in Nat /\ r.size \in Nat
  BY CapacityOf DEF CacheType
<1> QED
  BY <1>1 DEF SizesAfterTrim

(* What set_limits does to a cache: it keeps what threads hold, and what   *)
(* may be kept.                                                            *)
LEMMA LimitSet ==
  ASSUME IInv, NEW c \in Caches, NEW max \in Nat, SetMaxCapacity(c, max)
  PROVE  \E n \in Nat : /\ n >= Cardinality(Holders(c))
                        /\ n <= Capacity([cache[c] EXCEPT !.max = max]) + Cardinality(Holders(c))
                        /\ cache' = [cache EXCEPT ![c] = [@ EXCEPT !.max = max, !.size = n]]
<1> DEFINE r == [cache[c] EXCEPT !.max = max]
<1>1. r \in CacheType /\ r.size = cache[c].size /\ r.size >= Cardinality(Holders(c))
  BY DEF IInv, Typed, CacheType, HeldEntriesCounted
<1>2. PICK n \in SizesAfterTrim(r, Cardinality(Holders(c))) :
        cache' = [cache EXCEPT ![c] = [r EXCEPT !.size = n]]
  BY DEF SetMaxCapacity, Trimmed
<1>3. n \in Nat /\ n >= Cardinality(Holders(c)) /\ n <= Capacity(r) + Cardinality(Holders(c))
  BY <1>1, HoldersCounted, SizeAfterTrim DEF IInv
<1>4. [r EXCEPT !.size = n] = [cache[c] EXCEPT !.max = max, !.size = n]
  BY DEF IInv, Typed, CacheType
<1> QED
  BY <1>2, <1>3, <1>4

(* The registry is as it was when caches only change their numbers.        *)
LEMMA SameCaches ==
  ASSUME IInv, UNCHANGED <<FrontCache, CacheRegistry>>,
         \A c \in Caches : cache'[c].alive = cache[c].alive
  PROVE  RegisteredOnce'
BY DEF IInv, RegisteredOnce, Alive, IsInjective, ToSet

(* Nothing has changed that bounds what caches hold.                       *)
LEMMA SameSizes ==
  ASSUME IInv, UNCHANGED cache
  PROVE  NotOverfull'
BY DEF IInv, NotOverfull

(* No loop is under way: no limit has been set by one.                     *)
LEMMA BasisNone ==
  ASSUME basis' = NotYet, \A t \in Threads : pc'[t] \notin Shrinking
  PROVE  BasisSound'
BY DEF BasisSound, NotYet

(* The loop under way, if any, is where it was, and limits are.            *)
LEMMA SameBasis ==
  ASSUME IInv, UNCHANGED <<CacheRegistry, basis>>,
         \A c \in Caches : cache'[c].max = cache[c].max,
         \A t \in Threads : pc'[t] \in Shrinking => pc[t] \in Shrinking /\ cursor' = cursor,
         \A t \in Threads : pc'[t] = "expanding" => pc[t] = "expanding",
         \A t \in Threads : pc'[t] \notin InMutex => pc[t] \notin InMutex
  PROVE  BasisSound'
BY DEF IInv, BasisSound, NotYet

(* At first there are no caches. *)
LEMMA Initially == Init => IInv
<1> SUFFICES ASSUME Init PROVE IInv
  OBVIOUS
<1> USE DEF Init
<1>1. Typed
  BY RegistryAssumption DEF Typed, CacheType, Dead, Places, NotYet
<1>2. InCaches /\ InLoop /\ AskSound /\ BasisSound
  BY DEF InCaches, InLoop, AskSound, BasisSound, NotYet, Shrinking, InMutex
<1>3. RegisteredOnce
  BY RegistryAssumption DEF RegisteredOnce, Alive, Dead, ToSet, IsInjective
<1>4. HeldEntriesCounted
  <2>1. \A c : Holders(c) = {}
    BY DEF Holders
  <2>2. \A c \in Caches : cache[c].size = 0
    BY DEF Dead
  <2>3. \A c \in Caches : Cardinality(Holders(c)) = 0
    BY <2>1, NoneHeld
  <2> HIDE DEF Init
  <2> QED
    BY <2>2, <2>3 DEF HeldEntriesCounted
<1>5. NotOverfull
  <2>1. Cardinality(Threads) \in Nat
    BY RegistryAssumption, FS_CardinalityType
  <2>2. \A c \in Caches : cache[c] = Dead /\ Capacity(Dead) = 0 /\ Dead.size = 0
    BY RegistryAssumption DEF Capacity, Clamp, Dead
  <2> QED
    BY <2>1, <2>2 DEF NotOverfull
<1> QED
  BY <1>1, <1>2, <1>3, <1>4, <1>5 DEF IInv

-----------------------------------------------------------------------------
(* Steps *)

(* What caches hold is the same if neither entries nor sizes change.       *)
LEMMA SameHolders ==
  ASSUME IInv, UNCHANGED holds, \A t \in holds : on'[t] = on[t],
         \A c \in Caches : cache'[c].size = cache[c].size
  PROVE  HeldEntriesCounted'
<1>1. \A c \in Caches : Holders(c)' = Holders(c)
  BY DEF Holders, IInv, Typed
<1> QED
  BY <1>1 DEF HeldEntriesCounted, IInv

(* An empty cache is none too full. *)
LEMMA OneDead ==
  ASSUME IInv, NEW c \in Caches,
         \/ cache' = [cache EXCEPT ![c] = Dead]
         \/ cache' = [cache EXCEPT ![c] = [Dead EXCEPT !.alive = TRUE]]
  PROVE  NotOverfull'
<1>1. /\ cache'[c].size = 0 /\ cache'[c].req = 0 /\ cache'[c].min = 0 /\ cache'[c].max \in Nat
      /\ \A d \in Caches : d # c => cache'[d] = cache[d]
  BY RegistryAssumption DEF Dead, IInv, Typed
<1>2. Capacity(cache'[c]) = 0
  BY <1>1 DEF Capacity, Clamp
<1>3. Cardinality(Threads) \in Nat
  BY RegistryAssumption, FS_CardinalityType
<1> QED
  BY <1>1, <1>2, <1>3 DEF NotOverfull, IInv

(* A new cache is at the front and empty. *)
LEMMA CreateStep == ASSUME IInv, NEW c \in Caches, Create(c) PROVE IInv'
<1> USE DEF IInv, Create, MutexFree
<1>1. /\ c \notin ToSet(CacheRegistry) /\ c # FrontCache
      /\ FrontCache # None => FrontCache \in Caches \ ToSet(CacheRegistry)
  BY RegistryAssumption DEF RegisteredOnce, Typed
<1>2. /\ CacheRegistry' \in Seq(Caches) /\ IsInjective(CacheRegistry')
      /\ ToSet(CacheRegistry') = (ToSet(CacheRegistry) \cup {FrontCache}) \ {None}
  <2>1. CASE FrontCache # None
    <3>1. /\ Append(CacheRegistry, FrontCache) \in Seq(Caches)
          /\ IsInjective(Append(CacheRegistry, FrontCache))
          /\ ToSet(Append(CacheRegistry, FrontCache)) = ToSet(CacheRegistry) \cup {FrontCache}
      BY <1>1, <2>1, WithOneMore DEF Typed, RegisteredOnce
    <3>2. None \notin ToSet(CacheRegistry)
      BY RegistryAssumption DEF RegisteredOnce, Alive, ToSet, Typed
    <3> QED
      BY <2>1, <3>1, <3>2
  <2>2. CASE FrontCache = None
    <3>1. None \notin ToSet(CacheRegistry)
      BY RegistryAssumption DEF RegisteredOnce, Alive, ToSet, Typed
    <3> QED
      BY <2>2, <3>1 DEF Typed, RegisteredOnce
  <2> QED
    BY <2>1, <2>2
<1>3. cache' \in [Caches -> CacheType] /\ Alive' = Alive \cup {c}
  BY RegistryAssumption, ZenonT(30) DEF Typed, CacheType, Dead, Alive
<1>4. Typed'
  BY <1>2, <1>3 DEF Typed, threadVars, loop
<1>5. InCaches'
  BY DEF Typed, InCaches, Dead, threadVars
<1>6. InLoop' /\ AskSound' /\ BasisSound'
  <2>1. basis' = NotYet /\ \A t \in Threads : pc'[t] \notin Shrinking
    BY DEF BasisSound, Shrinking, InMutex, threadVars, loop
  <2> QED
    BY <2>1, BasisNone DEF InLoop, AskSound, InMutex, threadVars, loop
<1>7. RegisteredOnce'
  BY <1>1, <1>2, <1>3, RegistryAssumption DEF RegisteredOnce
<1>8. HeldEntriesCounted'
  <2>1. \A d \in Caches : Holders(d)' = Holders(d)
    BY DEF Holders, threadVars
  <2>2. Holders(c) = {}
    BY RegistryAssumption DEF Holders, InCaches, Alive, Typed
  <2>3. cache'[c].size = 0 /\ \A d \in Caches \ {c} : cache'[d].size = cache[d].size
    BY DEF Dead, Typed
  <2>4. Cardinality(Holders(c)') = 0
    BY <2>1, <2>2, NoneHeld
  <2>5. ASSUME NEW d \in Caches PROVE cache'[d].size >= Cardinality(Holders(d)')
    BY <2>1, <2>3, <2>4 DEF HeldEntriesCounted
  <2> QED
    BY <2>5 DEF HeldEntriesCounted
<1>9. NotOverfull'
  BY OneDead DEF Typed
<1> QED
  BY <1>4, <1>5, <1>6, <1>7, <1>8, <1>9

(* A cache is deleted when nobody is in it, and leaves the registry. *)
LEMMA DeleteStep == ASSUME IInv, NEW c \in Caches, Delete(c) PROVE IInv'
<1> USE DEF IInv, Delete, MutexFree
<1>1. None \notin ToSet(CacheRegistry)
  BY RegistryAssumption DEF RegisteredOnce, Alive, ToSet, Typed
<1>2. cache' \in [Caches -> CacheType] /\ Alive' = Alive \ {c}
  BY RegistryAssumption DEF Typed, CacheType, Dead, Alive
<1>3. /\ CacheRegistry' \in Seq(Caches) /\ FrontCache' \in Caches \cup {None}
      /\ RegisteredOnce'
  <2>1. CASE FrontCache = c
    <3>1. FrontCache' = None /\ CacheRegistry' = CacheRegistry
      BY <2>1 DEF Unregister
    <3> QED
      BY <1>1, <1>2, <2>1, <3>1, RegistryAssumption DEF RegisteredOnce, Typed
  <2>2. CASE FrontCache # c
    <3>1. FrontCache' = FrontCache /\ CacheRegistry' = Removed(c)
      BY <2>2 DEF Unregister
    <3>2. c \in ToSet(CacheRegistry)
      BY <2>2 DEF RegisteredOnce
    <3>3. /\ Removed(c) \in Seq(Caches) /\ IsInjective(Removed(c))
          /\ ToSet(Removed(c)) = ToSet(CacheRegistry) \ {c}
      BY <3>2, WithoutOne
    <3> QED
      BY <1>1, <1>2, <2>2, <3>1, <3>3, RegistryAssumption DEF RegisteredOnce, Typed
  <2> QED
    BY <2>1, <2>2
<1>4. Typed'
  BY <1>2, <1>3 DEF Typed, threadVars, loop
<1>5. InCaches'
  BY DEF Typed, InCaches, threadVars
<1>6. InLoop' /\ AskSound' /\ BasisSound'
  <2>1. basis' = NotYet /\ \A t \in Threads : pc'[t] \notin Shrinking
    BY DEF BasisSound, Shrinking, InMutex, threadVars, loop
  <2> QED
    BY <2>1, BasisNone DEF InLoop, AskSound, InMutex, threadVars, loop
<1>7. HeldEntriesCounted'
  <2>1. \A d \in Caches : Holders(d)' = Holders(d)
    BY DEF Holders, threadVars
  <2>2. Holders(c) = {}
    BY DEF Holders, Typed
  <2>3. cache'[c].size = 0 /\ \A d \in Caches \ {c} : cache'[d].size = cache[d].size
    BY DEF Dead, Typed
  <2>4. Cardinality(Holders(c)') = 0
    BY <2>1, <2>2, NoneHeld
  <2>5. ASSUME NEW d \in Caches PROVE cache'[d].size >= Cardinality(Holders(d)')
    BY <2>1, <2>3, <2>4 DEF HeldEntriesCounted
  <2> QED
    BY <2>5 DEF HeldEntriesCounted
<1>8. NotOverfull'
  BY OneDead DEF Typed
<1> QED
  BY <1>3, <1>4, <1>5, <1>6, <1>7, <1>8

(* A request that is read, early or late, is a number. *)
LEMMA RequestsRead ==
  ASSUME IInv, NEW c \in Caches
  PROVE  Requests(c) \subseteq Nat
<1>1. cache[c].req \in Nat /\ Capacity(cache[c]) \in Nat
  BY CapacityOf DEF IInv, Typed, CacheType
<1> QED
  BY <1>1 DEF Requests

(* Calling a cache and reading its capacity changes none. *)
LEMMA CallStep ==
  ASSUME IInv, NEW t \in Threads,
         (\E c \in Caches : CallGetFrame(t, c)) \/ ReadCapacity(t)
  PROVE  IInv'
<1> USE DEF IInv, CallGetFrame, ReadCapacity, Goes, envVars, loop
<1>0. /\ saved' \in [Threads -> Nat]
      /\ pc[t] \notin InMutex /\ \E p \in {"called", "nod", "expand"} : pc' = [pc EXCEPT ![t] = p]
      /\ UNCHANGED <<envVars, cache, holds>>
      /\ \A u \in Threads : u # t => saved'[u] = saved[u] /\ on'[u] = on[u]
  <2>1. CASE \E c \in Caches : CallGetFrame(t, c)
    <3>1. PICK c \in Caches : CallGetFrame(t, c)
      BY <2>1
    <3>2. PICK req \in Requests(c) : saved' = [saved EXCEPT ![t] = req]
      BY <3>1
    <3>3. saved' \in [Threads -> Nat]
      BY <3>2, RequestsRead DEF Typed
    <3> QED
      BY <3>1, <3>2, <3>3 DEF Typed, InMutex
  <2>2. CASE ReadCapacity(t)
    BY <2>2 DEF Typed, InMutex
  <2> QED
    BY <2>1, <2>2
<1>1. Typed'
  <2>1. pc' \in [Threads -> Places]
    BY <1>0 DEF Typed, Places
  <2>2. on' \in [Threads -> Caches \cup {None}]
    BY DEF Typed
  <2> QED
    BY <1>0, <2>1, <2>2 DEF Typed
<1>2. InCaches'
  BY RegistryAssumption, ZenonT(30) DEF Typed, InCaches, Alive
<1>a. \A u \in Threads : pc'[u] \in InMutex => u # t /\ pc[u] = pc'[u]
  BY <1>0 DEF Typed, InMutex
<1>b. TakenFrom' = TakenFrom
  BY <1>0 DEF TakenFrom
<1> HIDE DEF CallGetFrame, ReadCapacity
<1>3. InLoop' /\ AskSound'
  BY <1>0, <1>a, <1>b DEF Typed, InLoop, AskSound, InMutex
<1>4. RegisteredOnce' /\ NotOverfull'
  BY <1>0, SameCaches, SameSizes
<1>5. HeldEntriesCounted'
  <2>1. \A u \in holds : on'[u] = on[u]
    BY <1>0 DEF Typed, InCaches, CallGetFrame, ReadCapacity
  <2> QED
    BY <1>0, <2>1, SameHolders
<1>6. BasisSound'
  <2>1. \A u \in Threads : pc'[u] \notin InMutex => pc[u] \notin InMutex
    BY <1>0 DEF Typed
  <2> QED
    BY <1>0, <1>a, <2>1, SameBasis DEF Shrinking, InMutex
<1> QED
  BY <1>1, <1>2, <1>3, <1>4, <1>5, <1>6

(* A nod of an existing cache keeps the registry's caches.                 *)
LEMMA NodKeeps ==
  ASSUME IInv, NEW t \in Threads, on[t] # None, CacheRegistry' = MovedToBack(on[t]),
         UNCHANGED <<FrontCache, cache>>
  PROVE  RegisteredOnce' /\ CacheRegistry' \in Seq(Caches)
<1>1. on[t] \in Alive
  BY DEF IInv, Typed, InCaches, Alive
<1>2. /\ MovedToBack(on[t]) \in Seq(Caches) /\ IsInjective(MovedToBack(on[t]))
      /\ ToSet(MovedToBack(on[t])) = ToSet(CacheRegistry)
  BY <1>1, Nodded
<1> QED
  BY <1>2 DEF IInv, RegisteredOnce, Alive

(* A nod only moves the cache in the registry. *)
LEMMA NodStep == ASSUME IInv, NEW t \in Threads, NodCache(t) PROVE IInv'
<1> USE DEF IInv, NodCache, MutexFree, Goes, loop
<1>1. RegisteredOnce' /\ CacheRegistry' \in Seq(Caches)
  BY NodKeeps DEF Typed, InCaches
<1>2. Typed'
  BY <1>1 DEF Typed, Places
<1>3. InCaches'
  BY DEF Typed, InCaches
<1>4. InLoop' /\ AskSound' /\ BasisSound'
  <2>1. basis' = NotYet /\ \A u \in Threads : pc'[u] \notin Shrinking
    BY DEF BasisSound, Typed, Shrinking, InMutex
  <2> QED
    BY <2>1, BasisNone DEF Typed, InLoop, AskSound, InMutex
<1>5. HeldEntriesCounted' /\ NotOverfull'
  BY SameHolders, SameSizes
<1> QED
  BY <1>1, <1>2, <1>3, <1>4, <1>5

(* Looking for the cache to take from begins with its capacity. *)
LEMMA NodAndExpandStep == ASSUME IInv, NEW t \in Threads, NodAndExpandCache(t) PROVE IInv'
<1> USE DEF IInv, NodAndExpandCache, MutexFree, Goes, loop
<1>1. RegisteredOnce' /\ CacheRegistry' \in Seq(Caches)
  BY NodKeeps DEF Typed, InCaches
<1>2. /\ cache[on[t]] \in CacheType /\ Capacity(cache[on[t]]) \in Nat
      /\ cache[on[t]].req >= Capacity(cache[on[t]]) /\ cache[on[t]].max >= Capacity(cache[on[t]])
  <2>1. cache[on[t]] \in CacheType
    BY DEF Typed, InCaches
  <2> QED
    BY <2>1, CapacityOf DEF CacheType
<1>3. Typed'
  BY <1>1, <1>2 DEF Typed, Places, InMutex
<1>4. InCaches'
  BY DEF Typed, InCaches
<1>5. \A u \in Threads : u # t => pc'[u] \notin InMutex
  BY DEF Typed
<1>6. pc'[t] = "expanding" /\ saved'[t] = Capacity(cache[on[t]])
  BY DEF Typed
<1>7. InLoop'
  BY <1>5, <1>6 DEF InLoop, InMutex
<1>8. AskSound'
  BY <1>2, <1>5, <1>6 DEF AskSound, InMutex
<1>9. BasisSound'
  BY <1>5, <1>6, BasisNone DEF BasisSound, Shrinking, InMutex
<1>10. HeldEntriesCounted' /\ NotOverfull'
  BY SameHolders, SameSizes
<1> QED
  BY <1>1, <1>3, <1>4, <1>7, <1>8, <1>9, <1>10

(* Then comes the request, from which the loop starts at the end. *)
LEMMA ReadRequestStep == ASSUME IInv, NEW t \in Threads, ReadRequest(t) PROVE IInv'
<1> USE DEF IInv, ReadRequest, Goes
<1>1. /\ cache[on[t]] \in CacheType /\ saved[t] \in Nat
      /\ cache[on[t]].req \in Nat /\ cache[on[t]].max >= saved[t]
  BY DEF Typed, InCaches, AskSound, CacheType
<1>2. /\ UNCHANGED <<FrontCache, CacheRegistry, osize, basis, cache, on, holds>>
      /\ pc[t] = "expanding"
      /\ \/ /\ pc' = [pc EXCEPT ![t] = "lookup"]
            /\ saved' = [saved EXCEPT ![t] = 0] /\ UNCHANGED cursor
         \/ /\ UNCHANGED saved /\ cache[on[t]].req > saved[t]
            /\ \/ pc' = [pc EXCEPT ![t] = "take"] /\ cursor' = 1
               \/ pc' = [pc EXCEPT ![t] = "grow"] /\ UNCHANGED cursor
  BY <1>1
<1> HIDE DEF ReadRequest
<1>3. Typed'
  <2>1. pc' \in [Threads -> Places]
    BY <1>2 DEF Typed, Places, InMutex
  <2>2. saved' \in [Threads -> Nat] /\ cursor' \in Nat
    BY <1>2 DEF Typed
  <2> QED
    BY <1>2, <2>1, <2>2 DEF Typed
<1>4. InCaches'
  BY <1>2 DEF Typed, InCaches
<1>5. \A u \in Threads : u # t => pc'[u] = pc[u] /\ pc'[u] \notin InMutex
  BY <1>2 DEF Typed, InLoop, InMutex
<1>6. /\ pc'[t] \in {"lookup", "take", "grow"} /\ (pc'[t] = "take" => cursor' = 1)
      /\ pc'[t] # "lookup" => saved'[t] = saved[t] /\ cache[on[t]].req > saved[t]
  BY <1>2 DEF Typed
<1>7. InLoop'
  BY <1>5, <1>6 DEF InLoop, InMutex
<1>8. AskSound'
  BY <1>1, <1>2, <1>5, <1>6 DEF AskSound, InMutex
<1>9. BasisSound'
  <2>1. \A u \in Threads : pc'[u] \notin Shrinking
    BY <1>5, <1>6 DEF Shrinking, InMutex
  <2>2. \A u \in Threads : pc[u] \notin InMutex \/ pc[u] = "expanding"
    BY <1>2 DEF InLoop, InMutex
  <2>3. basis = NotYet
    BY <2>2 DEF BasisSound
  <2> QED
    BY <1>2, <2>1, <2>3, BasisNone
<1>10. RegisteredOnce' /\ HeldEntriesCounted' /\ NotOverfull'
  BY <1>2, SameCaches, SameHolders, SameSizes
<1> QED
  BY <1>3, <1>4, <1>7, <1>8, <1>9, <1>10

(* Looking for a cache to take a slot from changes none. *)
LEMMA SeekStep == ASSUME IInv, NEW t \in Threads, SeekSlot(t) PROVE IInv'
<1> USE DEF IInv, SeekSlot, Goes, loop
<1>1. Typed'
  <2>1. pc' \in [Threads -> Places]
    BY DEF Typed, Places, InMutex
  <2>2. cache[on[t]].size \in Nat
    BY DEF Typed, InCaches, CacheType
  <2>3. cursor' \in Nat /\ osize' \in Nat
    BY <2>2 DEF Typed
  <2> QED
    BY <2>1, <2>3 DEF Typed
<1>2. InCaches'
  BY DEF Typed, InCaches
<1>3. InLoop'
  <2>1. \A u \in Threads : u # t => pc'[u] = pc[u] /\ pc[u] \notin InMutex
    BY DEF Typed, InLoop, InMutex
  <2>2. pc'[t] = "take" => cursor' >= 1
    BY DEF Typed, InLoop
  <2>3. pc'[t] = "taking" => cursor' \in 1 .. Len(CacheRegistry) /\ osize' # 0
    BY DEF Typed, InLoop
  <2>4. pc'[t] \in {"take", "taking", "grow"}
    BY DEF Typed
  <2> QED
    BY <2>1, <2>2, <2>3, <2>4 DEF InLoop, InMutex
<1>4. AskSound'
  <2>1. \A u \in Threads : u # t => pc'[u] \notin InMutex
    BY DEF Typed, InLoop, InMutex
  <2>2. cache[on[t]].req > saved[t] /\ cache[on[t]].max >= saved[t]
    BY DEF AskSound
  <2>3. pc'[t] # "expanding"
    BY DEF Typed
  <2> QED
    BY <2>1, <2>2, <2>3 DEF AskSound, InMutex
<1>5. RegisteredOnce' /\ HeldEntriesCounted' /\ NotOverfull'
  BY SameCaches, SameHolders, SameSizes
<1>6. BasisSound'
  <2>1. \A u \in Threads : u # t => pc'[u] = pc[u] /\ pc[u] \notin InMutex
    BY DEF Typed, InLoop, InMutex
  <2>2. pc'[t] \in {"take", "taking", "grow"} /\ UNCHANGED <<CacheRegistry, cache, basis>>
    BY DEF Typed
  <2> QED
    BY <2>1, <2>2, SameBasis DEF Shrinking, InMutex
<1> QED
  BY <1>1, <1>2, <1>3, <1>4, <1>5, <1>6

(* Setting a limit moves one cache's maximum and size.                     *)
LEMMA LimitStep ==
  ASSUME IInv, NEW c \in Caches, NEW max \in Nat, SetMaxCapacity(c, max),
         UNCHANGED <<FrontCache, CacheRegistry, on, holds>>
  PROVE  /\ cache' \in [Caches -> CacheType]
         /\ \A d \in Caches : /\ cache'[d].alive = cache[d].alive
                              /\ cache'[d].req = cache[d].req
                              /\ d # c => cache'[d] = cache[d]
         /\ cache'[c].max = max
         /\ RegisteredOnce' /\ HeldEntriesCounted' /\ NotOverfull'
<1>1. PICK n \in Nat : /\ n >= Cardinality(Holders(c))
                       /\ n <= Capacity([cache[c] EXCEPT !.max = max]) + Cardinality(Holders(c))
                       /\ cache' = [cache EXCEPT ![c] = [@ EXCEPT !.max = max, !.size = n]]
  BY LimitSet
<1>2. cache \in [Caches -> CacheType]
  BY DEF IInv, Typed
<1>3. /\ cache' \in [Caches -> CacheType]
      /\ \A d \in Caches : /\ cache'[d].alive = cache[d].alive
                           /\ cache'[d].req = cache[d].req
                           /\ d # c => cache'[d] = cache[d]
      /\ cache'[c].max = max /\ cache'[c].size = n
  BY <1>1, <1>2 DEF CacheType
<1>4. \A d \in Caches : Holders(d)' = Holders(d)
  BY DEF Holders
<1>5. HeldEntriesCounted'
  BY <1>1, <1>3, <1>4 DEF HeldEntriesCounted, IInv
<1>6. NotOverfull'
  <2>1. Capacity(cache'[c]) = Capacity([cache[c] EXCEPT !.max = max])
        /\ Capacity(cache'[c]) \in Nat
    <3>1. cache[c] \in CacheType /\ cache'[c] = [cache[c] EXCEPT !.max = max, !.size = n]
      BY <1>1, <1>2
    <3>2. /\ [cache[c] EXCEPT !.max = max] \in CacheType
          /\ [cache[c] EXCEPT !.max = max].req = cache'[c].req
          /\ [cache[c] EXCEPT !.max = max].max = cache'[c].max
      BY <3>1 DEF CacheType
    <3> QED
      BY <1>3, <3>2, CapacityOf DEF CacheType
  <2>2. /\ Cardinality(Holders(c)) <= Cardinality(Threads)
        /\ Cardinality(Holders(c)) \in Nat /\ Cardinality(Threads) \in Nat
    BY HeldByThreads, HoldersCounted DEF IInv
  <2>3. cache'[c].size <= Capacity(cache'[c]) + Cardinality(Threads)
    BY <1>1, <1>3, <2>1, <2>2
  <2> QED
    BY <1>3, <2>3 DEF NotOverfull, IInv
<1> QED
  BY <1>3, <1>5, <1>6, SameCaches

(* Taking a slot sets another cache's limit by the size that was read. *)
LEMMA TakeStep == ASSUME IInv, NEW t \in Threads, TakeSlot(t) PROVE IInv'
<1> USE DEF IInv, TakeSlot, Goes
<1> DEFINE c == CacheRegistry[cursor]
<1>1. cursor \in 1 .. Len(CacheRegistry) /\ c \in Caches /\ osize - 1 \in Nat
  BY DEF Typed, InLoop
<1>2. /\ cache' \in [Caches -> CacheType]
      /\ \A d \in Caches : /\ cache'[d].alive = cache[d].alive
                           /\ cache'[d].req = cache[d].req
                           /\ d # c => cache'[d] = cache[d]
      /\ cache'[c].max = osize - 1
      /\ RegisteredOnce' /\ HeldEntriesCounted' /\ NotOverfull'
  <2>1. SetMaxCapacity(c, osize - 1) /\ UNCHANGED <<FrontCache, CacheRegistry, on, holds>>
    OBVIOUS
  <2> HIDE DEF c, TakeSlot
  <2> QED
    BY <1>1, <2>1, LimitStep
<1>3. Typed'
  <2>1. pc' \in [Threads -> Places]
    BY DEF Typed, Places, InMutex
  <2>2. basis' \in [Caches -> Int]
    <3>1. basis \in [Caches -> Int] /\ osize \in Int
      BY DEF Typed
    <3>2. basis' = [basis EXCEPT ![CacheRegistry[cursor]] = osize]
      OBVIOUS
    <3> HIDE DEF IInv
    <3> QED
      BY <3>1, <3>2
  <2>3. cursor' \in Nat /\ osize' \in Nat
    BY DEF Typed
  <2> QED
    BY <1>2, <2>1, <2>2, <2>3 DEF Typed
<1>4. InCaches'
  <2>1. UNCHANGED <<on, holds>> /\ pc[t] = "taking" /\ pc' = [pc EXCEPT ![t] = "grow"]
    OBVIOUS
  <2> HIDE DEF TakeSlot
  <2>2. \A u \in Threads : /\ on'[u] = on[u] /\ (u # t => pc'[u] = pc[u])
                           /\ on[u] # None => cache'[on[u]].alive = cache[on[u]].alive
    BY <1>2, <2>1 DEF Typed
  <2>3. pc'[t] = "grow" /\ t \notin holds
    BY <2>1 DEF Typed, InCaches
  <2> QED
    BY <2>1, <2>2, <2>3 DEF InCaches
<1>5. InLoop'
  BY DEF Typed, InLoop, InMutex
<1>6. AskSound'
  <2>1. \A u \in Threads : u # t => pc'[u] \notin InMutex
    BY DEF Typed, InLoop, InMutex
  <2>2. TakenFrom' = c
    BY <1>1 DEF TakenFrom, Typed
  <2>3. c # on[t] => cache'[on[t]].req > saved[t] /\ cache'[on[t]].max >= saved[t]
    BY <1>2 DEF AskSound, Typed, InCaches
  <2>4. pc'[t] = "grow"
    BY DEF Typed
  <2> QED
    BY <2>1, <2>2, <2>3, <2>4 DEF AskSound, InMutex
<1>7. BasisSound'
  <2>1. \A u \in Threads : pc'[u] \notin Shrinking
    BY DEF Typed, InLoop, InMutex, Shrinking
  <2>2. pc'[t] = "grow" /\ "grow" \in InMutex /\ "grow" # "expanding"
    BY DEF Typed, InMutex
  <2>3. ASSUME NEW d \in Caches, basis'[d] > 0 PROVE cache'[d].max < basis'[d]
    BY <1>1, <1>2, <2>3 DEF Typed, BasisSound
  <2> QED
    BY <2>1, <2>2, <2>3 DEF BasisSound
<1> QED
  BY <1>2, <1>3, <1>4, <1>5, <1>6, <1>7

(* Other threads are not in the mutex while one is, nor after it has left. *)
LEMMA ExpandStep == ASSUME IInv, NEW t \in Threads, Expand(t) PROVE IInv'
<1> USE DEF IInv, Expand, Goes
<1>1. on[t] \in Caches /\ saved[t] + 1 \in Nat
  BY DEF Typed, InCaches
<1>2. /\ cache' \in [Caches -> CacheType]
      /\ \A d \in Caches : cache'[d].alive = cache[d].alive
      /\ RegisteredOnce' /\ HeldEntriesCounted' /\ NotOverfull'
  BY <1>1, LimitStep
<1>3. Typed'
  BY <1>2 DEF Typed, Places, NotYet
<1>4. InCaches'
  BY <1>2 DEF Typed, InCaches
<1>5. InLoop' /\ AskSound' /\ BasisSound'
  <2>1. \A u \in Threads : pc'[u] \notin InMutex
    BY DEF Typed, InLoop, InMutex
  <2> QED
    BY <2>1, BasisNone DEF InLoop, AskSound, InMutex, Shrinking
<1> QED
  BY <1>2, <1>3, <1>4, <1>5

(* Reading the size that decides a limit changes no cache. *)
LEMMA ReadStep == ASSUME IInv, NEW t \in Threads, ReadSize(t) PROVE IInv'
<1> USE DEF IInv, ReadSize
<1>1. cursor \in 1 .. Len(CacheRegistry) /\ CacheRegistry[cursor] \in Caches
  BY DEF Typed, InLoop
<1>2. Typed'
  BY <1>1 DEF Typed, Places, InMutex, CacheType
<1>3. InCaches'
  BY DEF Typed, InCaches
<1>4. InLoop' /\ AskSound'
  BY <1>1 DEF Typed, InLoop, InMutex, AskSound, TakenFrom
<1>5. RegisteredOnce' /\ HeldEntriesCounted' /\ NotOverfull'
  BY SameCaches, SameHolders, SameSizes
<1>6. BasisSound'
  BY SameBasis DEF Typed, Shrinking, InMutex
<1> QED
  BY <1>2, <1>3, <1>4, <1>5, <1>6

(* Shrinking sets a limit below the size read. *)
LEMMA ShrinkStep == ASSUME IInv, NEW t \in Threads, Shrink(t) PROVE IInv'
<1> USE DEF IInv, Shrink, Goes
<1>1. cursor \in 1 .. Len(CacheRegistry) /\ CacheRegistry[cursor] \in Caches
  BY DEF Typed, InLoop
<1>2. /\ cache' \in [Caches -> CacheType]
      /\ \A d \in Caches : /\ cache'[d].alive = cache[d].alive
                           /\ d # CacheRegistry[cursor] => cache'[d] = cache[d]
      /\ osize > 0 => cache'[CacheRegistry[cursor]].max < osize
      /\ RegisteredOnce' /\ HeldEntriesCounted' /\ NotOverfull'
  <2>1. CASE osize = 0
    BY <2>1, SameCaches, SameHolders, SameSizes DEF Typed
  <2>2. CASE osize # 0
    <3>1. osize - 1 \in Nat
      BY <2>2 DEF Typed
    <3>2. /\ SetMaxCapacity(CacheRegistry[cursor], osize - 1)
          /\ UNCHANGED <<FrontCache, CacheRegistry, on, holds>>
      BY <2>2
    <3>3. osize - 1 < osize
      BY DEF Typed
    <3> QED
      BY <1>1, <3>1, <3>2, <3>3, LimitStep
  <2> QED
    BY <2>1, <2>2
<1>3. Typed'
  <2>1. pc' \in [Threads -> Places]
    BY DEF Typed, Places, InMutex
  <2>2. basis' \in [Caches -> Int]
    <3>1. basis \in [Caches -> Int] /\ osize \in Int
      BY DEF Typed
    <3>2. basis' = [basis EXCEPT ![CacheRegistry[cursor]] = osize]
      OBVIOUS
    <3> HIDE DEF IInv
    <3> QED
      BY <3>1, <3>2
  <2>3. cursor' \in Nat /\ osize' \in Nat
    BY DEF Typed
  <2> QED
    BY <1>2, <2>1, <2>2, <2>3 DEF Typed
<1>4. InCaches'
  BY <1>2 DEF Typed, InCaches
<1>5. InLoop' /\ AskSound'
  <2>1. \A u \in Threads : u # t => pc'[u] \notin InMutex
    BY DEF Typed, InLoop, InMutex
  <2>2. pc'[t] = "shrink" /\ cursor' >= 1
    BY <1>1 DEF Typed
  <2> QED
    BY <2>1, <2>2 DEF InLoop, AskSound, InMutex
<1>6. BasisSound'
  <2>1. pc'[t] = "shrink" /\ "shrink" \in InMutex /\ pc[t] = "set"
    BY DEF Typed, InMutex
  <2>2. ASSUME NEW d \in Caches, basis'[d] > 0 PROVE cache'[d].max < basis'[d]
    BY <1>1, <1>2, <2>2 DEF Typed, BasisSound
  <2>3. ASSUME NEW i \in DOMAIN CacheRegistry, i < cursor + 1
        PROVE  basis'[CacheRegistry[i]] >= 0
    <3>1. i \in 1 .. Len(CacheRegistry) /\ CacheRegistry[i] \in Caches
      BY DEF Typed
    <3>2. CASE i = cursor
      BY <1>1, <3>2 DEF Typed
    <3>3. CASE i < cursor
      <4>1. basis[CacheRegistry[i]] >= 0
        BY <2>1, <3>3 DEF BasisSound, Shrinking
      <4> QED
        BY <1>1, <3>1, <4>1 DEF Typed
    <3> QED
      BY <1>1, <2>3, <3>1, <3>2, <3>3
  <2> QED
    BY <2>1, <2>2, <2>3 DEF BasisSound
<1> QED
  BY <1>2, <1>3, <1>4, <1>5, <1>6

(* The loops begin and end with nothing read. *)
LEMMA LoopEnds ==
  ASSUME IInv, NEW t \in Threads, EnsureMemoryLimit(t) \/ ShrinkEnds(t)
  PROVE  IInv'
<1> USE DEF IInv, EnsureMemoryLimit, ShrinkEnds, MutexFree, Goes
<1>1. Typed'
  <2>1. \/ pc' = [pc EXCEPT ![t] = "shrink"] /\ cursor' = 1
        \/ pc' = [pc EXCEPT ![t] = "making"] /\ cursor' = 0
    OBVIOUS
  <2>3. basis' \in [Caches -> Int]
    BY DEF Typed, NotYet
  <2>2. pc' \in [Threads -> Places] /\ cursor' \in Nat
    <3>1. pc \in [Threads -> Places] /\ {"shrink", "making"} \subseteq Places
      BY DEF Typed, Places, InMutex
    <3> HIDE DEF IInv, EnsureMemoryLimit, ShrinkEnds, MutexFree
    <3> QED
      BY <2>1, <3>1
  <2> QED
    BY <2>2, <2>3 DEF Typed
<1>2. InCaches'
  BY DEF Typed, InCaches
<1>3. InLoop' /\ AskSound'
  <2>1. \A u \in Threads : u # t => pc'[u] \notin InMutex
    BY DEF Typed, InLoop, InMutex
  <2>2. (pc'[t] = "shrink" /\ cursor' = 1) \/ pc'[t] = "making"
    BY DEF Typed
  <2> QED
    BY <2>1, <2>2 DEF InLoop, AskSound, InMutex
<1>4. RegisteredOnce' /\ HeldEntriesCounted' /\ NotOverfull'
  BY SameCaches, SameHolders, SameSizes
<1>5. BasisSound'
  <2>1. CASE EnsureMemoryLimit(t)
    <3>1. cursor' = 1 /\ pc'[t] = "shrink" /\ basis' = NotYet /\ CacheRegistry' = CacheRegistry
      BY <2>1 DEF Typed, BasisSound
    <3>2. "shrink" \in InMutex /\ \A i \in DOMAIN CacheRegistry : ~ i < 1
      BY DEF InMutex, Typed
    <3>3. \A c \in Caches : ~ basis'[c] > 0
      BY <3>1 DEF NotYet
    <3> QED
      BY <3>1, <3>2, <3>3 DEF BasisSound
  <2>2. CASE ShrinkEnds(t)
    <3>1. basis' = NotYet /\ \A u \in Threads : pc'[u] \notin Shrinking
      BY <2>2 DEF Typed, InLoop, InMutex, Shrinking
    <3> QED
      BY <3>1, BasisNone
  <2> QED
    BY <2>1, <2>2
<1> QED
  BY <1>1, <1>2, <1>3, <1>4, <1>5

-----------------------------------------------------------------------------
(* Entries *)

(* A hit leaves the caches as they are. *)
LEMMA HitStep == ASSUME IInv, NEW t \in Threads, Hit(t) PROVE IInv'
<1> USE DEF IInv, Hit, Goes, envVars, loop
<1>1. Typed'
  BY DEF Typed, Places
<1>2. InCaches'
  BY RegistryAssumption DEF Typed, InCaches
<1>3. InLoop' /\ AskSound'
  BY DEF Typed, InLoop, AskSound, InMutex, TakenFrom
<1>4. RegisteredOnce' /\ NotOverfull'
  BY SameCaches, SameSizes
<1>6. BasisSound'
  BY SameBasis DEF Typed, Shrinking, InMutex
<1>5. HeldEntriesCounted'
  BY SameHolders DEF Typed, InCaches
<1> QED
  BY <1>1, <1>2, <1>3, <1>4, <1>5, <1>6

(* One cache's size and wish have changed, and who holds its entries.      *)
LEMMA EntriesStep ==
  ASSUME IInv, NEW c \in Caches, NEW n \in Nat, NEW q \in Nat,
         cache' = [cache EXCEPT ![c] = [@ EXCEPT !.req = q, !.size = n]],
         UNCHANGED <<FrontCache, CacheRegistry>>,
         Cardinality(Holders(c)') <= n,
         n <= Capacity([cache[c] EXCEPT !.req = q]) + Cardinality(Threads),
         \A d \in Caches : d # c => Holders(d)' = Holders(d)
  PROVE  /\ cache' \in [Caches -> CacheType]
         /\ \A d \in Caches : /\ cache'[d].alive = cache[d].alive
                              /\ cache'[d].max = cache[d].max
                              /\ d # c => cache'[d].req = cache[d].req
         /\ cache'[c].req = q
         /\ RegisteredOnce' /\ HeldEntriesCounted' /\ NotOverfull'
<1>1. cache \in [Caches -> CacheType]
  BY DEF IInv, Typed
<1>2. /\ cache' \in [Caches -> CacheType]
      /\ \A d \in Caches : /\ cache'[d].alive = cache[d].alive
                           /\ cache'[d].max = cache[d].max
                           /\ d # c => cache'[d] = cache[d]
      /\ cache'[c].req = q /\ cache'[c].size = n
  BY <1>1 DEF CacheType
<1>3. HeldEntriesCounted'
  <2>1. ASSUME NEW d \in Caches, d # c PROVE cache'[d].size >= Cardinality(Holders(d)')
    BY <1>2, <2>1 DEF HeldEntriesCounted, IInv
  <2>2. Cardinality(Holders(c)') \in Nat => cache'[c].size >= Cardinality(Holders(c)')
    BY <1>2
  <2>3. Cardinality(Holders(c)') <= n => cache'[c].size >= Cardinality(Holders(c)')
    BY <1>2
  <2> QED
    BY <2>1, <2>3 DEF HeldEntriesCounted
<1>4. NotOverfull'
  <2>1. Capacity(cache'[c]) = Capacity([cache[c] EXCEPT !.req = q])
    <3>1. cache[c] \in CacheType /\ [cache[c] EXCEPT !.req = q] \in CacheType
          /\ [cache[c] EXCEPT !.req = q].req = q
          /\ [cache[c] EXCEPT !.req = q].max = cache[c].max
      BY <1>1 DEF CacheType
    <3>2. cache'[c] \in CacheType /\ cache'[c].req = q /\ cache'[c].max = cache[c].max
      BY <1>2
    <3> DEFINE asked == [cache[c] EXCEPT !.req = q]
    <3>3. asked \in CacheType /\ asked.req = q /\ asked.max = cache[c].max
      BY <3>1
    <3> HIDE DEF asked
    <3>4. Capacity(cache'[c]) = Capacity(asked)
      BY <3>2, <3>3, CapacityOf
    <3> QED
      BY <3>4 DEF asked
  <2> QED
    BY <1>2, <2>1 DEF NotOverfull, IInv
<1> QED
  BY <1>2, <1>3, <1>4, SameCaches

(* What a miss makes of the cache. *)
LEMMA MissEffect ==
  ASSUME IInv, NEW t \in Threads, NEW ghost \in BOOLEAN, Miss(t, ghost)
  PROVE  LET c == on[t]
         IN  /\ c \in Caches /\ Capacity(cache[c]) \in Nat
             /\ \E n \in Nat, q \in Nat :
                  /\ cache' = [cache EXCEPT ![c] = [@ EXCEPT !.req = q, !.size = n]]
                  /\ q = cache[c].req \/ q = Capacity(cache[c]) + 1
                  /\ n >= Cardinality(Holders(c)) +
                            (IF Capacity(cache[c]) = 0 THEN 0 ELSE 1)
                  /\ n <= Capacity([cache[c] EXCEPT !.req = q]) + Cardinality(Holders(c)) +
                            (IF Capacity(cache[c]) = 0 THEN 0 ELSE 1)
<1> DEFINE c == on[t]
           old == cache[c]
           more == IF Capacity(old) = 0 THEN 0 ELSE 1
           held == Cardinality(Holders(c)) + more
<1>1. c \in Caches /\ old \in CacheType
  BY DEF IInv, Typed, InCaches, Miss
<1>2. Capacity(old) \in Nat /\ old.size >= Cardinality(Holders(c))
      /\ Cardinality(Holders(c)) \in Nat
  BY <1>1, CapacityOf, HoldersCounted DEF IInv, HeldEntriesCounted, CacheType
<1>3. PICK m \in SizesAfterTrim(old, Cardinality(Holders(c))) :
        LET r == [old EXCEPT !.size = m]
            new == Inserted(r)
            grown == [new EXCEPT !.req = Capacity(r) + 1]
        IN  IF ghost
            THEN \E n \in SizesAfterTrim(grown, held) :
                   cache' = [cache EXCEPT ![c] = [grown EXCEPT !.size = n]]
            ELSE cache' = [cache EXCEPT ![c] = new]
  BY DEF Miss, Trimmed
<1> DEFINE r == [old EXCEPT !.size = m]
           new == Inserted(r)
           grown == [new EXCEPT !.req = Capacity(r) + 1]
<1>4. m \in Nat /\ m >= Cardinality(Holders(c)) /\ m <= Capacity(old) + Cardinality(Holders(c))
  BY <1>1, <1>2, <1>3, SizeAfterTrim
<1>5. r \in CacheType /\ Capacity(r) = Capacity(old) /\ r.size = m
  <2>1. r \in CacheType /\ r.size = m /\ r.req = old.req /\ r.max = old.max
    BY <1>1, <1>4 DEF CacheType
  <2> QED
    BY <1>1, <2>1, CapacityOf
<1>6. new = [old EXCEPT !.size = m + more] /\ new \in CacheType
  <2>0. more \in Nat /\ m + more \in Nat
    BY <1>4
  <2>1. CASE Capacity(old) = 0
    BY <1>1, <1>4, <1>5, <2>1 DEF Inserted, CacheType
  <2>2. CASE Capacity(old) # 0
    <3>1. new = [r EXCEPT !.size = m + 1]
      BY <1>5, <2>2 DEF Inserted
    <3>2. m + more = m + 1
      BY <2>2
    <3> HIDE DEF new, more
    <3> QED
      BY <1>1, <1>4, <2>0, <3>1, <3>2 DEF CacheType
  <2> QED
    BY <2>1, <2>2
<1>7. CASE ~ghost
  <2>1. cache' = [cache EXCEPT ![c] = new]
    BY <1>3, <1>7
  <2>2. new = [old EXCEPT !.req = old.req, !.size = m + more]
    BY <1>1, <1>4, <1>6 DEF CacheType
  <2>3. m + more \in Nat /\ old.req \in Nat /\ m + more >= held
    BY <1>1, <1>2, <1>4 DEF CacheType
  <2>4. [old EXCEPT !.req = old.req] = old
    BY <1>1 DEF CacheType
  <2>5. m + more <= Capacity([old EXCEPT !.req = old.req]) + Cardinality(Holders(c)) + more
    BY <1>2, <1>4, <2>4
  <2> QED
    BY <1>1, <1>2, <2>1, <2>2, <2>3, <2>5
<1>8. CASE ghost
  <2>1. PICK n \in SizesAfterTrim(grown, held) :
          cache' = [cache EXCEPT ![c] = [grown EXCEPT !.size = n]]
    BY <1>3, <1>8
  <2>2. grown \in CacheType /\ grown.size = m + more
    BY <1>1, <1>2, <1>4, <1>5, <1>6 DEF CacheType
  <2>3. n \in Nat /\ n >= held /\ n <= Capacity(grown) + held
    <3>1. held \in Nat /\ m + more >= held
      BY <1>2, <1>4
    <3> QED
      BY <2>1, <2>2, <3>1, SizeAfterTrim
  <2>4. [grown EXCEPT !.size = n] = [old EXCEPT !.req = Capacity(old) + 1, !.size = n]
    BY <1>1, <1>4, <1>5, <1>6 DEF CacheType
  <2>5. Capacity(old) + 1 \in Nat
    BY <1>2
  <2>6. Capacity(grown) = Capacity([old EXCEPT !.req = Capacity(old) + 1])
    <3>1. /\ [old EXCEPT !.req = Capacity(old) + 1] \in CacheType
          /\ [old EXCEPT !.req = Capacity(old) + 1].req = Capacity(old) + 1
          /\ [old EXCEPT !.req = Capacity(old) + 1].max = old.max
      BY <1>1, <2>5 DEF CacheType
    <3>2. grown.req = Capacity(old) + 1 /\ grown.max = old.max
      BY <1>1, <1>5, <1>6 DEF CacheType
    <3> HIDE DEF grown
    <3> QED
      BY <2>2, <3>1, <3>2, CapacityOf
  <2>7. n <= Capacity([old EXCEPT !.req = Capacity(old) + 1]) + Cardinality(Holders(c)) + more
    <3> HIDE DEF grown
    <3>1. Capacity(grown) \in Nat /\ more \in {0, 1}
      BY <2>2, CapacityOf DEF CacheType
    <3> QED
      BY <1>2, <2>3, <2>6, <3>1
  <2> QED
    BY <1>1, <1>2, <2>1, <2>3, <2>4, <2>5, <2>7
<1> QED
  BY <1>7, <1>8

(* A miss takes an entry, and trims what is not held. *)
LEMMA MissStep == ASSUME IInv, NEW t \in Threads, NEW ghost \in BOOLEAN, Miss(t, ghost) PROVE IInv'
<1> DEFINE c == on[t]
           more == IF Capacity(cache[c]) = 0 THEN 0 ELSE 1
<1>0. /\ pc[t] = "lookup" /\ pc' = [pc EXCEPT ![t] = "making"]
      /\ UNCHANGED <<envVars, on, saved>>
      /\ holds' = IF Capacity(cache[c]) = 0 THEN holds ELSE holds \cup {t}
  BY DEF Miss, Goes
<1>1. c \in Caches /\ Capacity(cache[c]) \in Nat
  BY MissEffect
<1>2. PICK n \in Nat, q \in Nat :
        /\ cache' = [cache EXCEPT ![c] = [@ EXCEPT !.req = q, !.size = n]]
        /\ q = cache[c].req \/ q = Capacity(cache[c]) + 1
        /\ n >= Cardinality(Holders(c)) + more
        /\ n <= Capacity([cache[c] EXCEPT !.req = q]) + Cardinality(Holders(c)) + more
  BY MissEffect
<1> USE DEF IInv, envVars, loop
<1>3. Cardinality(Holders(c)') <= n
  <2>1. IsFiniteSet(Holders(c)) /\ Cardinality(Holders(c)) \in Nat /\ t \notin Holders(c)
    BY <1>0, HoldersCounted DEF Holders, InCaches
  <2>2. CASE Capacity(cache[c]) = 0
    <3>1. Holders(c)' = Holders(c)
      BY <1>0, <2>2 DEF Holders
    <3> QED
      BY <1>2, <2>1, <2>2, <3>1
  <2>3. CASE Capacity(cache[c]) # 0
    <3>1. Holders(c)' = Holders(c) \cup {t}
      BY <1>0, <2>3 DEF Holders
    <3>2. Cardinality(Holders(c) \cup {t}) = Cardinality(Holders(c)) + 1
      BY <2>1, FS_AddElement
    <3> QED
      BY <1>2, <2>1, <2>3, <3>1, <3>2
  <2> QED
    BY <2>2, <2>3
<1>b. n <= Capacity([cache[c] EXCEPT !.req = q]) + Cardinality(Threads)
  <2>1. t \notin holds
    BY <1>0 DEF InCaches
  <2>2. /\ Cardinality(Holders(c)) < Cardinality(Threads)
        /\ Cardinality(Holders(c)) \in Nat /\ Cardinality(Threads) \in Nat
    BY <2>1, HeldByThreads, HoldersCounted
  <2>3. Capacity([cache[c] EXCEPT !.req = q]) \in Nat
    <3>1. [cache[c] EXCEPT !.req = q] \in CacheType
      BY <1>1, ZenonT(30) DEF Typed, CacheType
    <3> QED
      BY <3>1, CapacityOf DEF CacheType
  <2>4. more \in {0, 1}
    OBVIOUS
  <2> HIDE DEF more
  <2> QED
    BY <1>2, <2>2, <2>3, <2>4
<1>4. \A d \in Caches : d # c => Holders(d)' = Holders(d)
  BY <1>0 DEF Holders
<1> HIDE DEF IInv
<1>5. /\ cache' \in [Caches -> CacheType]
      /\ \A d \in Caches : /\ cache'[d].alive = cache[d].alive
                           /\ cache'[d].max = cache[d].max
                           /\ d # c => cache'[d].req = cache[d].req
      /\ cache'[c].req = q
      /\ RegisteredOnce' /\ HeldEntriesCounted' /\ NotOverfull'
  BY <1>0, <1>1, <1>2, <1>3, <1>b, <1>4, EntriesStep
<1> USE DEF IInv
<1>6. Typed'
  <2>1. pc' \in [Threads -> Places] /\ holds' \in SUBSET Threads
    BY <1>0 DEF Typed, Places
  <2>2. /\ UNCHANGED <<FrontCache, CacheRegistry, cursor, osize, basis, on, saved>>
        /\ cache' \in [Caches -> CacheType]
    BY <1>0, <1>5
  <2> QED
    BY <2>1, <2>2 DEF Typed
<1>7. InCaches'
  <2>1. \A u \in Threads : /\ on'[u] = on[u] /\ (u # t => pc'[u] = pc[u])
                           /\ on[u] # None => cache'[on[u]].alive = cache[on[u]].alive
                           /\ u # t => (u \in holds' <=> u \in holds)
    BY <1>0, <1>5 DEF Typed
  <2>2. pc'[t] = "making" /\ pc[t] = "lookup"
    BY <1>0 DEF Typed
  <2> QED
    BY <2>1, <2>2 DEF InCaches
<1>8. InLoop'
  BY <1>0 DEF Typed, InLoop, InMutex
<1>9. AskSound'
  <2>1. ASSUME NEW u \in Threads, cache[on[u]].req > saved[u], cache[on[u]].max >= saved[u],
               on[u] \in Caches
        PROVE  cache'[on[u]].req > saved[u] /\ cache'[on[u]].max >= saved[u]
    <3>1. CASE on[u] # c
      BY <1>5, <2>1, <3>1
    <3>2. CASE on[u] = c
      <4>1. cache[c] \in CacheType /\ saved[u] \in Nat
        BY <1>1 DEF Typed
      <4>2. Capacity(cache[c]) >= saved[u]
        BY <2>1, <3>2, <4>1, CapacityOf DEF CacheType
      <4>3. q > saved[u]
        BY <1>1, <1>2, <2>1, <3>2, <4>1, <4>2
      <4> QED
        BY <1>1, <1>5, <2>1, <3>2, <4>3
    <3> QED
      BY <3>1, <3>2
  <2>4. ASSUME NEW u \in Threads, cache[on[u]].req >= saved[u], cache[on[u]].max >= saved[u],
               on[u] \in Caches
        PROVE  cache'[on[u]].req >= saved[u] /\ cache'[on[u]].max >= saved[u]
    <3>1. CASE on[u] # c
      BY <1>5, <2>4, <3>1
    <3>2. CASE on[u] = c
      <4>1. cache[c] \in CacheType /\ saved[u] \in Nat
        BY <1>1 DEF Typed
      <4>2. Capacity(cache[c]) >= saved[u]
        BY <2>4, <3>2, <4>1, CapacityOf DEF CacheType
      <4>3. q >= saved[u]
        BY <1>1, <1>2, <2>4, <3>2, <4>1, <4>2
      <4> QED
        BY <1>1, <1>5, <2>4, <3>2, <4>3
    <3> QED
      BY <3>1, <3>2
  <2>2. \A u \in Threads : pc'[u] \in InMutex => pc'[u] = pc[u] /\ on[u] \in Caches
    BY <1>0 DEF Typed, InCaches, InMutex
  <2>3. TakenFrom' = TakenFrom
    BY <1>0 DEF TakenFrom
  <2> QED
    BY <1>0, <2>1, <2>2, <2>3, <2>4 DEF AskSound, InMutex
<1>10. BasisSound'
  BY <1>0, <1>5, SameBasis DEF Typed, Shrinking, InMutex
<1> QED
  BY <1>5, <1>6, <1>7, <1>8, <1>9, <1>10

(* The frame has been made, or could not be made. *)
LEMMA EndStep == ASSUME IInv, NEW t \in Threads, Made(t) \/ Failed(t) PROVE IInv'
<1> USE DEF IInv, envVars, loop
<1>0. /\ pc[t] = "making" /\ pc' = [pc EXCEPT ![t] = "idle"]
      /\ on' = [on EXCEPT ![t] = None] /\ holds' = holds \ {t}
      /\ UNCHANGED <<envVars, saved>>
  BY DEF Made, Failed, Goes
<1>1. PICK c \in Caches : c = on[t]
  BY <1>0 DEF Typed, InCaches
<1>a. cache[c] \in CacheType
  BY DEF Typed
<1>2. /\ IsFiniteSet(Holders(c)) /\ Cardinality(Holders(c)) \in Nat
      /\ Cardinality(Holders(c)) <= cache[c].size
  BY <1>a, HoldersCounted DEF HeldEntriesCounted, CacheType
<1>3. Holders(c)' = Holders(c) \ {t} /\ \A d \in Caches : d # c => Holders(d)' = Holders(d)
  BY <1>0, <1>1, RegistryAssumption DEF Holders, Typed
<1>4. PICK n \in Nat : /\ cache' = [cache EXCEPT ![c] = [cache[c] EXCEPT !.req = cache[c].req, !.size = n]]
                       /\ Cardinality(Holders(c)') <= n /\ n <= cache[c].size
  <2>1. CASE Made(t)
    <3>1. cache' = [cache EXCEPT ![c] = [cache[c] EXCEPT !.req = cache[c].req, !.size = cache[c].size]]
      BY <1>a, <2>1 DEF Made, Typed, CacheType
    <3>2. Cardinality(Holders(c)') <= Cardinality(Holders(c)) /\ Cardinality(Holders(c)') \in Nat
      <4>1. Holders(c) \ {t} \subseteq Holders(c)
        OBVIOUS
      <4> QED
        BY <1>2, <1>3, <4>1, FS_Subset, FS_CardinalityType
    <3>3. cache[c].size \in Nat
      BY <1>a DEF CacheType
    <3>4. Cardinality(Holders(c)') <= cache[c].size
      BY <1>2, <3>2, <3>3
    <3> WITNESS cache[c].size \in Nat
    <3> QED
      BY <3>1, <3>3, <3>4
  <2>2. CASE Failed(t)
    <3>1. t \in Holders(c)
      BY <1>1, <2>2 DEF Failed, Holders
    <3>2. Cardinality(Holders(c)') = Cardinality(Holders(c)) - 1
      BY <1>2, <1>3, <3>1, FS_RemoveElement
    <3>3. Cardinality(Holders(c)) # 0
      BY <1>2, <3>1, FS_EmptySet
    <3>4. cache[c].size - 1 \in Nat
      BY <1>a, <1>2, <3>3 DEF CacheType
    <3>5. cache' = [cache EXCEPT ![c] = [cache[c] EXCEPT !.req = cache[c].req, !.size = cache[c].size - 1]]
      BY <1>1, <1>a, <2>2 DEF Failed, Typed, CacheType
    <3>6. Cardinality(Holders(c)') <= cache[c].size - 1
      BY <1>a, <1>2, <3>2 DEF CacheType
    <3>7. cache[c].size - 1 <= cache[c].size
      BY <1>a DEF CacheType
    <3> WITNESS cache[c].size - 1 \in Nat
    <3> QED
      BY <3>5, <3>6, <3>7
  <2> QED
    BY <2>1, <2>2
<1>5. cache[c].req \in Nat
  BY <1>a DEF CacheType
<1>b. n <= Capacity([cache[c] EXCEPT !.req = cache[c].req]) + Cardinality(Threads)
  <2>1. [cache[c] EXCEPT !.req = cache[c].req] = cache[c]
    BY <1>a DEF CacheType
  <2>2. cache[c].size <= Capacity(cache[c]) + Cardinality(Threads)
    BY DEF NotOverfull
  <2>3. Capacity(cache[c]) \in Nat /\ Cardinality(Threads) \in Nat /\ cache[c].size \in Nat
    BY <1>a, CapacityOf, RegistryAssumption, FS_CardinalityType DEF CacheType
  <2> QED
    BY <1>4, <2>1, <2>2, <2>3
<1> HIDE DEF IInv
<1>6. /\ cache' \in [Caches -> CacheType]
      /\ \A d \in Caches : /\ cache'[d].alive = cache[d].alive
                           /\ cache'[d].max = cache[d].max
                           /\ d # c => cache'[d].req = cache[d].req
      /\ cache'[c].req = cache[c].req
      /\ RegisteredOnce' /\ HeldEntriesCounted' /\ NotOverfull'
  BY <1>0, <1>1, <1>3, <1>4, <1>b, <1>5, EntriesStep
<1> USE DEF IInv
<1>7. Typed'
  BY <1>0, <1>6 DEF Typed, Places
<1>8. InCaches'
  <2>1. on'[t] = None /\ pc'[t] = "idle" /\ t \notin holds'
    BY <1>0 DEF Typed
  <2>2. ASSUME NEW u \in Threads, u # t
        PROVE  /\ on'[u] = on[u] /\ pc'[u] = pc[u] /\ (u \in holds' <=> u \in holds)
               /\ on[u] # None => cache'[on[u]].alive = cache[on[u]].alive
    BY <1>0, <1>6, <2>2 DEF Typed
  <2> QED
    BY <2>1, <2>2 DEF InCaches
<1>9. InLoop'
  BY <1>0 DEF Typed, InLoop, InMutex
<1>10. AskSound'
  <2>1. \A u \in Threads : pc'[u] \in InMutex => u # t /\ pc'[u] = pc[u] /\ on[u] \in Caches
    BY <1>0 DEF Typed, InCaches, InMutex
  <2>2. TakenFrom' = TakenFrom
    BY <1>0 DEF TakenFrom
  <2>3. \A d \in Caches : cache'[d].req = cache[d].req /\ cache'[d].max = cache[d].max
    BY <1>6
  <2> QED
    BY <1>0, <2>1, <2>2, <2>3 DEF AskSound, InMutex, Typed
<1>11. BasisSound'
  BY <1>0, <1>6, SameBasis DEF Typed, Shrinking, InMutex
<1> QED
  BY <1>6, <1>7, <1>8, <1>9, <1>10, <1>11

-----------------------------------------------------------------------------
(* Theorems *)

(* Steps of others change nothing here. *)
LEMMA Stutter == ASSUME IInv, UNCHANGED vars PROVE IInv'
BY DEF IInv, Typed, InCaches, InLoop, AskSound, BasisSound, RegisteredOnce,
       HeldEntriesCounted, NotOverfull, Holders, Alive, TakenFrom, vars, envVars, threadVars, loop

(* So every step keeps the invariant. *)
LEMMA Stays == IInv /\ [Next]_vars => IInv'
<1> SUFFICES ASSUME IInv, [Next]_vars PROVE IInv'
  OBVIOUS
<1>1. CASE UNCHANGED vars
  BY <1>1, Stutter
<1>2. CASE \E c \in Caches : Create(c) \/ Delete(c)
  BY <1>2, CreateStep, DeleteStep
<1>3. CASE \E t \in Threads : (\E c \in Caches : CallGetFrame(t, c)) \/ ReadCapacity(t)
  BY <1>3, CallStep
<1>4. CASE \E t \in Threads : NodCache(t) \/ NodAndExpandCache(t) \/ ReadRequest(t)
  BY <1>4, NodStep, NodAndExpandStep, ReadRequestStep
<1>5. CASE \E t \in Threads : SeekSlot(t) \/ TakeSlot(t) \/ Expand(t)
  BY <1>5, SeekStep, TakeStep, ExpandStep
<1>6. CASE \E t \in Threads : Hit(t) \/ \E ghost \in BOOLEAN : Miss(t, ghost)
  BY <1>6, HitStep, MissStep
<1>7. CASE \E t \in Threads : Made(t) \/ Failed(t)
  BY <1>7, EndStep
<1>8. CASE \E t \in Threads : EnsureMemoryLimit(t) \/ ShrinkEnds(t)
  BY <1>8, LoopEnds
<1>9. CASE \E t \in Threads : ReadSize(t) \/ Shrink(t)
  BY <1>9, ReadStep, ShrinkStep
<1> QED
  BY <1>1, <1>2, <1>3, <1>4, <1>5, <1>6, <1>7, <1>8, <1>9 DEF Next

(* The invariant holds throughout. *)
LEMMA Invariance == Spec => []IInv
BY Initially, Stays, PTL DEF Spec

(* Every cache that exists can be found once, in front or in the registry, *)
(* no limit is set through a stale pointer, no trim takes an entry that a  *)
(* thread holds, and none leaves more than an entry per thread too many.   *)
THEOREM CachesStayRegistered == Spec => []RegistrySound
<1>1. IInv => RegistrySound
  BY DEF IInv, RegistrySound, TypeOK, Typed, CacheType, InCaches
<1> QED
  BY <1>1, Invariance, PTL

(* What a step of the loops' last steps is. *)
LEMMA OwnSteps ==
  ASSUME IInv, Next, NEW t \in Threads
  PROVE  /\ pc[t] = "shrink" /\ pc'[t] = "making" => ShrinkEnds(t)
         /\ pc[t] = "grow" /\ pc'[t] = "lookup" => Expand(t)
<1>1. CASE \E c \in Caches : Create(c) \/ Delete(c)
  BY <1>1 DEF Create, Delete, threadVars
<1>2. ASSUME NEW u \in Threads,
             \/ \E c \in Caches : CallGetFrame(u, c)
             \/ ReadCapacity(u) \/ NodCache(u) \/ NodAndExpandCache(u) \/ ReadRequest(u)
             \/ SeekSlot(u) \/ TakeSlot(u) \/ Expand(u)
             \/ Hit(u) \/ \E ghost \in BOOLEAN : Miss(u, ghost)
             \/ Made(u) \/ Failed(u)
             \/ EnsureMemoryLimit(u) \/ ReadSize(u) \/ Shrink(u) \/ ShrinkEnds(u)
      PROVE  /\ pc[t] = "shrink" /\ pc'[t] = "making" => ShrinkEnds(t)
             /\ pc[t] = "grow" /\ pc'[t] = "lookup" => Expand(t)
  <2>1. pc \in [Threads -> Places]
    BY DEF IInv, Typed
  <2>2. CASE ShrinkEnds(u)
    <3>1. pc[u] = "shrink" /\ pc' = [pc EXCEPT ![u] = "making"]
      BY <2>2 DEF ShrinkEnds, Goes
    <3> QED
      BY <2>1, <2>2, <3>1
  <2>3. CASE ReadSize(u)
    <3>1. pc[u] = "shrink" /\ pc' = [pc EXCEPT ![u] = "set"]
      BY <2>3 DEF ReadSize
    <3> QED
      BY <2>1, <3>1
  <2>4. CASE Expand(u)
    <3>1. pc[u] = "grow" /\ pc' = [pc EXCEPT ![u] = "lookup"]
      BY <2>4 DEF Expand, Goes
    <3> QED
      BY <2>1, <2>4, <3>1
  <2>5. CASE \/ \E c \in Caches : CallGetFrame(u, c)
             \/ ReadCapacity(u) \/ NodCache(u) \/ NodAndExpandCache(u) \/ ReadRequest(u)
             \/ SeekSlot(u) \/ TakeSlot(u)
             \/ Hit(u) \/ \E ghost \in BOOLEAN : Miss(u, ghost)
             \/ Made(u) \/ Failed(u)
             \/ EnsureMemoryLimit(u) \/ Shrink(u)
    <3>1. pc[u] \notin {"shrink", "grow"} /\ \E p : pc' = [pc EXCEPT ![u] = p]
      <4>1. CASE (\E c \in Caches : CallGetFrame(u, c)) \/ ReadCapacity(u)
        BY <4>1 DEF CallGetFrame, ReadCapacity, Goes
      <4>2. CASE NodCache(u) \/ NodAndExpandCache(u)
        BY <4>2 DEF NodCache, NodAndExpandCache, Goes
      <4>3. CASE SeekSlot(u) \/ ReadRequest(u)
        <5>1. pc[u] \in {"take", "expanding"}
          BY <4>3 DEF SeekSlot, ReadRequest
        <5>2. \/ pc' = [pc EXCEPT ![u] = "grow"] \/ pc' = [pc EXCEPT ![u] = "taking"]
              \/ pc' = [pc EXCEPT ![u] = pc[u]] \/ pc' = [pc EXCEPT ![u] = "take"]
              \/ pc' = [pc EXCEPT ![u] = "lookup"]
          BY <2>1, <4>3 DEF SeekSlot, ReadRequest, Goes
        <5> QED
          BY <5>1, <5>2
      <4>4. CASE Hit(u) \/ \E ghost \in BOOLEAN : Miss(u, ghost)
        BY <4>4 DEF Hit, Miss, Goes
      <4>5. CASE Made(u) \/ Failed(u) \/ TakeSlot(u)
        BY <4>5 DEF Made, Failed, TakeSlot, Goes
      <4>6. CASE EnsureMemoryLimit(u) \/ Shrink(u)
        BY <4>6 DEF EnsureMemoryLimit, Shrink, Goes
      <4> QED
        BY <2>5, <4>1, <4>2, <4>3, <4>4, <4>5, <4>6
    <3> QED
      BY <2>1, <3>1
  <2> QED
    BY <1>2, <2>2, <2>3, <2>4, <2>5
<1> QED
  BY <1>1, <1>2 DEF Next

(* A cache within its limit, and hardly beyond it, is reduced.             *)
LEMMA ReducedBy ==
  ASSUME NEW r \in CacheType, NEW size \in Nat, r.max < size,
         r.size <= Capacity(r) + Cardinality(Threads)
  PROVE  Capacity(r) < size /\ r.size < size + Cardinality(Threads)
<1>1. Capacity(r) <= r.max /\ Capacity(r) \in Nat /\ r.max \in Nat /\ r.size \in Nat
  BY CapacityOf DEF CacheType
<1>2. Cardinality(Threads) \in Nat
  BY RegistryAssumption, FS_CardinalityType
<1> QED
  BY <1>1, <1>2

(* When a loop over the registry is done, every cache whose limit it set   *)
(* is held to it, whatever threads did with that cache meanwhile; and      *)
(* EnsureMemoryLimit has left no cache of the registry out.                *)
THEOREM LoopsReduceCaching == Spec => CachingReduced
<1>1. ASSUME IInv, Next, NEW t \in Threads, pc[t] = "shrink", pc'[t] = "making"
      PROVE  /\ \A c \in Alive \ {FrontCache} : basis[c] >= 0
             /\ \A c \in Alive : basis[c] > 0 => Reduced(c)
  <2>1. ShrinkEnds(t)
    BY <1>1, OwnSteps
  <2>2. ASSUME NEW c \in Alive \ {FrontCache} PROVE basis[c] >= 0
    <3>1. c \in ToSet(CacheRegistry)
      BY <1>1 DEF IInv, RegisteredOnce
    <3>2. PICK i \in DOMAIN CacheRegistry : CacheRegistry[i] = c
      BY <3>1 DEF ToSet
    <3>3. i < cursor
      BY <1>1, <2>1, <3>2 DEF ShrinkEnds, IInv, Typed
    <3> QED
      BY <1>1, <3>2, <3>3 DEF IInv, BasisSound, Shrinking
  <2>3. ASSUME NEW c \in Alive, basis[c] > 0 PROVE Reduced(c)
    <3>1. c \in Caches /\ cache'[c] = cache[c] /\ cache[c] \in CacheType /\ basis[c] \in Nat
      BY <1>1, <2>1, <2>3 DEF ShrinkEnds, Alive, IInv, Typed
    <3>2. cache[c].max < basis[c] /\ cache[c].size <= Capacity(cache[c]) + Cardinality(Threads)
      BY <1>1, <2>3, <3>1 DEF IInv, BasisSound, NotOverfull
    <3> QED
      BY <3>1, <3>2, ReducedBy DEF Reduced
  <2> QED
    BY <2>2, <2>3
<1>2. ASSUME IInv, Next, NEW t \in Threads, pc[t] = "grow", pc'[t] = "lookup",
             NEW c \in Alive \ {on[t]}, basis[c] > 0
      PROVE  Reduced(c)
  <2>1. Expand(t)
    BY <1>2, OwnSteps
  <2>2. /\ c \in Caches /\ cache[c] \in CacheType /\ basis[c] \in Nat
        /\ on[t] \in Caches /\ saved[t] + 1 \in Nat
    BY <1>2 DEF Alive, IInv, Typed, InCaches
  <2>3. cache'[c] = cache[c]
    BY <1>2, <2>1, <2>2, LimitStep DEF Expand
  <2>4. cache[c].max < basis[c] /\ cache[c].size <= Capacity(cache[c]) + Cardinality(Threads)
    BY <1>2, <2>2 DEF IInv, BasisSound, NotOverfull
  <2> QED
    BY <2>2, <2>3, <2>4, ReducedBy DEF Reduced
<1>3. IInv /\ [Next]_vars =>
        [\A t \in Threads :
           /\ pc[t] = "shrink" /\ pc'[t] = "making" =>
                /\ \A c \in Alive \ {FrontCache} : basis[c] >= 0
                /\ \A c \in Alive : basis[c] > 0 => Reduced(c)
           /\ pc[t] = "grow" /\ pc'[t] = "lookup" =>
                \A c \in Alive \ {on[t]} : basis[c] > 0 => Reduced(c)]_vars
  BY <1>1, <1>2
<1> QED
  BY <1>3, Invariance, PTL DEF Spec, CachingReduced

(* Who asks for room has more when ManageCache returns, unless its own     *)
(* slot was the one taken.                                                 *)
THEOREM AskersGrow == Spec => AskerGrows
<1>1. ASSUME IInv, Next, NEW t \in Threads,
             pc[t] = "grow", pc'[t] = "lookup", TakenFrom # on[t]
      PROVE  Capacity(cache'[on[t]]) > saved[t]
  <2>1. Expand(t)
    BY <1>1, OwnSteps
  <2>2. on[t] \in Caches /\ saved[t] \in Nat /\ cache[on[t]].req > saved[t]
    BY <1>1 DEF IInv, Typed, InCaches, AskSound
  <2>3. /\ cache'[on[t]] \in CacheType
        /\ cache'[on[t]].req = cache[on[t]].req /\ cache'[on[t]].max = saved[t] + 1
    BY <1>1, <2>1, <2>2, LimitStep DEF Expand
  <2> QED
    BY <2>2, <2>3, CapacityOf DEF CacheType
<1>2. IInv /\ [Next]_vars =>
        [\A t \in Threads : pc[t] = "grow" /\ pc'[t] = "lookup" /\ TakenFrom # on[t] =>
           Capacity(cache'[on[t]]) > saved[t]]_vars
  BY <1>1
<1> QED
  BY <1>2, Invariance, PTL DEF Spec, AskerGrows
=============================================================================
