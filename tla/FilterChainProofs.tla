------------------------- MODULE FilterChainProofs -------------------------
(* That the locks of a chain of filters exclude whom they are to exclude,  *)
(* and that nobody waits in a circle for them: for chains of any length,   *)
(* any number of threads and any filters that are serialized or evaluate   *)
(* scripts.                                                                *)
EXTENDS FilterChain, WellFoundedInduction, TLAPS

(* What a request to a cache may have come to at each place.               *)
Phases == {"idle", "waiting", "making", "alone", "made", "answered"}
Suits(place, p) ==
  /\ place \in {"out", "nod", "lookup"} => p = "idle"
  /\ place = "cache"    => p \in {"waiting", "making", "alone", "answered"}
  /\ place \in InFilter => p \in {"making", "alone"}
  /\ place = "commit"   => p \in {"making", "alone", "made", "answered"}

PhasesSound == /\ phase \in [Callers -> Phases]
               /\ \A c \in Callers : Suits(at[c], phase[c])

(* The places from where a filter asks its child.                          *)
Asking(l) == {"body", "filled"} \cup (IF l \in Inquiring THEN {"eval"} ELSE {})

(* A thread that has a request at a level is in the filters above it.      *)
StackSound ==
  \A t \in Threads, l \in Levels, k \in Levels :
    k < l /\ at[<<t, k>>] # "out" => at[<<t, l>>] \in Asking(l)

(* Beyond a step memory_mutex belongs to the thread that evaluates.        *)
MemorySound ==
  /\ \A t \in Threads, l \in Levels : at[<<t, l>>] = "eval" => memoryMutex = t
  /\ memoryMutex # None => \E l \in Levels : at[<<memoryMutex, l>>] = "eval"

(* A FilterMutex belongs to the thread that is in the filter.              *)
FiltersSound ==
  \A t \in Threads, l \in Serialized : at[<<t, l>>] \in InFilter <=> filterMutex[l] = t

IInv == TypeOK /\ PhasesSound /\ StackSound /\ MemorySound /\ FiltersSound

-----------------------------------------------------------------------------
(* Before anybody asks, nothing is locked.                                 *)
LEMMA InitIInv == Init => IInv
<1> SUFFICES ASSUME Init PROVE IInv
  OBVIOUS
<1> USE ChainAssumption DEF Init
<1>1. /\ at = [c \in Callers |-> "out"] /\ frame = [c \in Callers |-> None]
      /\ phase = [c \in Callers |-> "idle"]
  BY DEF Cache!MemoInit
<1>2. \A t \in Threads, l \in Levels : <<t, l>> \in Callers
  BY DEF Callers
<1>3. TypeOK
  BY <1>1 DEF TypeOK, Places
<1>4. PhasesSound
  BY <1>1 DEF PhasesSound, Phases, Suits, InFilter
<1>5. StackSound /\ MemorySound
  BY <1>1, <1>2 DEF StackSound, MemorySound
<1>6. FiltersSound
  BY <1>1, <1>2 DEF FiltersSound, InFilter
<1>7. QED
  BY <1>3, <1>4, <1>5, <1>6 DEF IInv

(* One request goes from one place to another.                             *)
Moves(t, l, place) == at' = [at EXCEPT ![<<t, l>>] = place]

LEMMA Moved ==
  ASSUME TypeOK, NEW t \in Threads, NEW l \in Levels, NEW place \in Places, Moves(t, l, place)
  PROVE  /\ at' \in [Callers -> Places]
         /\ at'[<<t, l>>] = place
         /\ \A u \in Threads, k \in Levels : u # t \/ k # l => at'[<<u, k>>] = at[<<u, k>>]
         /\ \A c \in Callers : c # <<t, l>> => at'[c] = at[c]
BY DEF Moves, TypeOK, Callers

(* A thread runs where everything below is out.                            *)
LEMMA NothingBelow ==
  ASSUME IInv, NEW t \in Threads, NEW l \in Levels,
         at[<<t, l>>] \notin Asking(l) \/ Runs(t, l)
  PROVE  \A k \in Levels : k < l => at[<<t, k>>] = "out"
<1> SUFFICES ASSUME NEW k \in Levels, k < l, at[<<t, k>>] # "out" PROVE FALSE
  OBVIOUS
<1>1. at[<<t, l>>] \in Asking(l)
  BY DEF IInv, StackSound
<1>2. l > 0 /\ at[<<t, l - 1>>] = "out" /\ l - 1 \in Levels /\ k <= l - 1
  BY <1>1, ChainAssumption DEF Runs, Levels
<1>3. k < l - 1
  BY <1>2 DEF Levels
<1>4. at[<<t, l - 1>>] \in Asking(l - 1)
  BY <1>2, <1>3 DEF IInv, StackSound
<1>5. QED
  BY <1>2, <1>4 DEF Asking

(* A step of a request that there is, and of one that a filter in the      *)
(* middle of its work makes, keep the requests stacked.                    *)
LEMMA StackKept ==
  ASSUME IInv, NEW t \in Threads, NEW l \in Levels, NEW place \in Places, Moves(t, l, place),
         place \in Asking(l) \/ \A k \in Levels : k < l => at[<<t, k>>] = "out",
         at[<<t, l>>] # "out" \/ \A k \in Levels : k > l => at[<<t, k>>] \in Asking(k)
  PROVE  StackSound'
<1> SUFFICES ASSUME NEW u \in Threads, NEW m \in Levels, NEW k \in Levels,
                    k < m, at'[<<u, k>>] # "out"
             PROVE  at'[<<u, m>>] \in Asking(m)
  BY DEF StackSound, Asking
<1>1. /\ at'[<<t, l>>] = place
      /\ \A v \in Threads, j \in Levels : v # t \/ j # l => at'[<<v, j>>] = at[<<v, j>>]
  BY Moved DEF IInv
<1>2. at[<<u, k>>] # "out" => at[<<u, m>>] \in Asking(m)
  BY DEF IInv, StackSound
<1>3. CASE u = t /\ m = l
  BY <1>1, <1>3 DEF Levels
<1>4. CASE u = t /\ k = l
  BY <1>1, <1>2, <1>4 DEF Levels
<1>5. CASE ~(u = t /\ m = l) /\ ~(u = t /\ k = l)
  BY <1>1, <1>2, <1>5
<1>6. QED
  BY <1>3, <1>4, <1>5

(* A step that begins and ends no script leaves memory_mutex as it is.     *)
LEMMA MemoryKept ==
  ASSUME IInv, NEW t \in Threads, NEW l \in Levels, NEW place \in Places, Moves(t, l, place),
         at[<<t, l>>] # "eval", place # "eval", UNCHANGED memoryMutex
  PROVE  MemorySound'
<1>1. /\ at'[<<t, l>>] = place
      /\ \A v \in Threads, j \in Levels : v # t \/ j # l => at'[<<v, j>>] = at[<<v, j>>]
  BY Moved DEF IInv
<1>2. memoryMutex # None => memoryMutex \in Threads
  BY DEF IInv, TypeOK
<1>3. QED
  BY <1>1, <1>2 DEF IInv, MemorySound

(* A step within a filter, or outside it, leaves its mutex as it is.       *)
LEMMA FiltersKept ==
  ASSUME IInv, NEW t \in Threads, NEW l \in Levels, NEW place \in Places, Moves(t, l, place),
         at[<<t, l>>] \in InFilter <=> place \in InFilter, UNCHANGED filterMutex
  PROVE  FiltersSound'
<1>1. /\ at'[<<t, l>>] = place
      /\ \A v \in Threads, j \in Levels : v # t \/ j # l => at'[<<v, j>>] = at[<<v, j>>]
  BY Moved DEF IInv
<1>2. ASSUME NEW u \in Threads, NEW m \in Serialized
      PROVE  at'[<<u, m>>] \in InFilter <=> filterMutex'[m] = u
  <2>1. m \in Levels
    BY ChainAssumption
  <2>2. at[<<u, m>>] \in InFilter <=> filterMutex[m] = u
    BY DEF IInv, FiltersSound
  <2>3. CASE u = t /\ m = l
    BY <1>1, <2>2, <2>3
  <2>4. CASE u # t \/ m # l
    BY <1>1, <2>1, <2>2, <2>4
  <2>5. QED
    BY <2>3, <2>4
<1>3. QED
  BY <1>2 DEF FiltersSound

(* A request goes on with its answer, or none, that suits its new place.   *)
LEMMA PhasesKept ==
  ASSUME IInv, NEW t \in Threads, NEW l \in Levels, NEW place \in Places, Moves(t, l, place),
         NEW p \in Phases, phase' = [phase EXCEPT ![<<t, l>>] = p], Suits(place, p)
  PROVE  PhasesSound'
<1>1. /\ at'[<<t, l>>] = place
      /\ \A c \in Callers : c # <<t, l>> => at'[c] = at[c]
  BY Moved DEF IInv
<1>2. phase \in [Callers -> Phases] /\ <<t, l>> \in Callers
  BY DEF IInv, PhasesSound, Callers
<1>3. QED
  BY <1>1, <1>2 DEF IInv, PhasesSound, Suits

(* The same when the cache is not concerned.                               *)
LEMMA PhaseStays ==
  ASSUME IInv, NEW t \in Threads, NEW l \in Levels, UNCHANGED phase
  PROVE  /\ phase[<<t, l>>] \in Phases
         /\ phase' = [phase EXCEPT ![<<t, l>>] = phase[<<t, l>>]]
         /\ Suits(at[<<t, l>>], phase[<<t, l>>])
BY DEF IInv, PhasesSound, Callers
-----------------------------------------------------------------------------
(* The variables' types when a request goes on.                            *)
LEMMA TypesKept ==
  ASSUME IInv, NEW t \in Threads, NEW l \in Levels, NEW place \in Places, Moves(t, l, place),
         at[<<t, l>>] # "out", place # "out", UNCHANGED frame,
         asks' \in [Callers -> 0 .. MaxAsks],
         memoryMutex' \in Threads \cup {None},
         filterMutex' \in [Levels -> Threads \cup {None}]
  PROVE  TypeOK'
<1>1. TypeOK /\ <<t, l>> \in Callers
  BY DEF IInv, Callers
<1>2. /\ at' \in [Callers -> Places] /\ at'[<<t, l>>] = place
      /\ \A c \in Callers : c # <<t, l>> => at'[c] = at[c]
  BY <1>1, Moved
<1>3. \A c \in Callers : at'[c] = "out" <=> frame'[c] = None
  BY <1>1, <1>2 DEF TypeOK
<1>4. QED
  BY <1>1, <1>2, <1>3 DEF TypeOK

-----------------------------------------------------------------------------
(* ManageCache, and the steps within a filter that lock nothing beyond     *)
(* themselves.                                                             *)
LEMMA PlainKeeps ==
  ASSUME IInv, NEW t \in Threads, NEW l \in Levels,
         Nod(t, l) \/ WantFrame(t, l) \/ NewFrame(t, l) \/ WantInvoke(t, l)
  PROVE  IInv'
<1>1. /\ UNCHANGED <<cacheVars, frame, memoryMutex, filterMutex>>
      /\ asks' = asks \/ (asks[<<t, l>>] < MaxAsks /\ asks' = [asks EXCEPT ![<<t, l>>] = @ + 1])
      /\ \/ at[<<t, l>>] = "nod" /\ Moves(t, l, "lookup")
         \/ at[<<t, l>>] = "body" /\ Moves(t, l, "alloc") /\ Runs(t, l)
         \/ at[<<t, l>>] = "alloc" /\ Moves(t, l, "filled")
         \/ at[<<t, l>>] = "body" /\ Moves(t, l, "invoke") /\ Runs(t, l)
  BY DEF Nod, WantFrame, NewFrame, WantInvoke, Goes, Moves
<1>2. PICK place \in {"lookup", "alloc", "filled", "invoke"} :
        /\ Moves(t, l, place)
        /\ at[<<t, l>>] \in {"nod", "body", "alloc"}
        /\ at[<<t, l>>] \in InFilter <=> place \in InFilter
        /\ at[<<t, l>>] = "nod" <=> place = "lookup"
        /\ at[<<t, l>>] \notin Asking(l) \/ Runs(t, l)
  BY <1>1 DEF InFilter, Asking
<1>3. place \in Places /\ place # "eval" /\ place # "out"
  BY DEF Places
<1>4. asks' \in [Callers -> 0 .. MaxAsks]
  BY <1>1, ChainAssumption DEF IInv, TypeOK, Callers
<1>5. TypeOK'
  BY <1>1, <1>2, <1>3, <1>4, TypesKept DEF IInv, TypeOK
<1>6. PhasesSound'
  <2>1. UNCHANGED phase
    BY <1>1 DEF cacheVars
  <2>2. Suits(place, phase[<<t, l>>])
    BY <1>2, <2>1, PhaseStays DEF Suits, InFilter
  <2>3. QED
    BY <1>2, <1>3, <2>1, <2>2, PhaseStays, PhasesKept
<1>7. StackSound'
  BY <1>2, <1>3, NothingBelow, StackKept
<1>8. MemorySound'
  BY <1>1, <1>2, <1>3, MemoryKept
<1>9. FiltersSound'
  BY <1>1, <1>2, <1>3, FiltersKept
<1>10. QED
  BY <1>5, <1>6, <1>7, <1>8, <1>9 DEF IInv

(* What a lookup may make of a request.                                    *)
LEMMA LookUpKeeps ==
  ASSUME IInv, NEW t \in Threads, NEW l \in Levels, LookUp(t, l)
  PROVE  IInv'
<1>1. /\ UNCHANGED <<frame, asks, memoryMutex, filterMutex>>
      /\ at[<<t, l>>] = "lookup" /\ Moves(t, l, "cache")
  BY DEF LookUp, Goes, Moves
<1>2. PICK p \in {"answered", "waiting", "making", "alone"} :
        phase' = [phase EXCEPT ![<<t, l>>] = p]
  BY DEF LookUp, Cache!AskReady, Cache!AskBusy, Cache!AskAbsent, Cache!AskAlone, Cache!Request
<1>3. "cache" \in Places /\ p \in Phases /\ Suits("cache", p)
  BY DEF Places, Phases, Suits, InFilter
<1>4. TypeOK'
  BY <1>1, <1>3, TypesKept DEF IInv, TypeOK
<1>5. PhasesSound'
  BY <1>1, <1>2, <1>3, PhasesKept
<1>6. at[<<t, l>>] \notin Asking(l)
  BY <1>1 DEF Asking
<1>7. StackSound'
  BY <1>1, <1>3, <1>6, NothingBelow, StackKept
<1>8. MemorySound'
  BY <1>1, <1>3, MemoryKept
<1>9. FiltersSound'
  BY <1>1, <1>3, FiltersKept DEF InFilter
<1>10. QED
  BY <1>4, <1>5, <1>7, <1>8, <1>9 DEF IInv

(* A waiter is answered, and a maker commits and is answered.              *)
LEMMA AnswersKeep ==
  ASSUME IInv, NEW t \in Threads, NEW l \in Levels, Woken(t, l) \/ Commit(t, l)
  PROVE  IInv'
<1>1. /\ UNCHANGED <<at, frame, asks, memoryMutex, filterMutex>>
      /\ \/ at[<<t, l>>] = "cache" /\ phase' = [phase EXCEPT ![<<t, l>>] = "answered"]
         \/ /\ at[<<t, l>>] = "commit"
            /\ \/ phase' = [phase EXCEPT ![<<t, l>>] = "made"]
               \/ phase' = [phase EXCEPT ![<<t, l>>] = "answered"]
  BY DEF Woken, Commit, Cache!Made, Cache!Answer
<1>2. PICK p \in {"made", "answered"} :
        /\ phase' = [phase EXCEPT ![<<t, l>>] = p]
        /\ Suits(at[<<t, l>>], p)
  BY <1>1 DEF Suits, InFilter
<1>3. PhasesSound'
  <2>1. phase \in [Callers -> Phases] /\ <<t, l>> \in Callers /\ p \in Phases
    BY DEF IInv, PhasesSound, Callers, Phases
  <2>2. QED
    BY <1>1, <1>2, <2>1 DEF IInv, PhasesSound
<1>4. TypeOK' /\ StackSound'
  BY <1>1 DEF IInv, TypeOK, StackSound
<1>5. MemorySound' /\ FiltersSound'
  BY <1>1 DEF IInv, MemorySound, FiltersSound
<1>6. QED
  BY <1>3, <1>4, <1>5 DEF IInv

(* A request that has come back is gone.                                   *)
LEMMA ReturnKeeps ==
  ASSUME IInv, NEW t \in Threads, NEW l \in Levels, Return(t, l)
  PROVE  IInv'
<1>1. /\ UNCHANGED <<asks, memoryMutex, filterMutex>>
      /\ at[<<t, l>>] \in {"cache", "commit"} /\ Moves(t, l, "out")
      /\ frame' = [frame EXCEPT ![<<t, l>>] = None]
      /\ phase' = [phase EXCEPT ![<<t, l>>] = "idle"]
  BY DEF Return, Moves, Cache!Leave
<1>2. "out" \in Places /\ "idle" \in Phases /\ Suits("out", "idle")
  BY DEF Places, Phases, Suits, InFilter
<1>3. TypeOK'
  <2>1. /\ at' \in [Callers -> Places] /\ at'[<<t, l>>] = "out"
        /\ \A c \in Callers : c # <<t, l>> => at'[c] = at[c]
    BY <1>1, <1>2, Moved DEF IInv
  <2>2. TypeOK /\ <<t, l>> \in Callers
    BY DEF IInv, Callers
  <2>3. \A c \in Callers : at'[c] = "out" <=> frame'[c] = None
    BY <1>1, <2>1, <2>2 DEF TypeOK
  <2>4. frame' \in [Callers -> Frames \cup {None}]
    BY <1>1, <2>2 DEF TypeOK
  <2>5. QED
    BY <1>1, <2>1, <2>2, <2>3, <2>4 DEF TypeOK
<1>4. PhasesSound'
  BY <1>1, <1>2, PhasesKept
<1>5. at[<<t, l>>] \notin Asking(l)
  BY <1>1 DEF Asking
<1>6. StackSound'
  BY <1>1, <1>2, <1>5, NothingBelow, StackKept
<1>7. MemorySound'
  BY <1>1, <1>2, MemoryKept
<1>8. FiltersSound'
  BY <1>1, <1>2, FiltersKept DEF InFilter
<1>9. QED
  BY <1>3, <1>4, <1>6, <1>7, <1>8 DEF IInv

-----------------------------------------------------------------------------
(* MTGuard::GetFrame locks the mutex of a serialized filter that nobody is *)
(* in, for the thread that goes in.                                        *)
LEMMA EnterFilterKeeps ==
  ASSUME IInv, NEW t \in Threads, NEW l \in Levels, EnterFilter(t, l)
  PROVE  IInv'
<1>1. /\ UNCHANGED <<cacheVars, frame, memoryMutex>>
      /\ at[<<t, l>>] = "cache" /\ Moves(t, l, "body")
      /\ phase[<<t, l>>] \in {"making", "alone"}
      /\ asks' = [asks EXCEPT ![<<t, l>>] = 0]
      /\ IF l \in Serialized
         THEN filterMutex[l] = None /\ filterMutex' = [filterMutex EXCEPT ![l] = t]
         ELSE UNCHANGED filterMutex
  BY DEF EnterFilter, Goes, Moves, Makes
<1>2. /\ TypeOK /\ <<t, l>> \in Callers /\ "body" \in Places /\ 0 \in 0 .. MaxAsks
      /\ Serialized \subseteq Levels /\ None \notin Threads
  BY ChainAssumption DEF IInv, Callers, Places
<1>3. TypeOK'
  BY <1>1, <1>2, TypesKept DEF TypeOK
<1>4. PhasesSound'
  <2>1. Suits("body", phase[<<t, l>>]) /\ UNCHANGED phase
    BY <1>1 DEF Suits, InFilter, cacheVars
  <2>2. QED
    BY <1>1, <1>2, <2>1, PhaseStays, PhasesKept
<1>5. StackSound'
  BY <1>1, <1>2, StackKept DEF Asking
<1>6. MemorySound'
  BY <1>1, <1>2, MemoryKept
<1>7. FiltersSound'
  <2>1. /\ at'[<<t, l>>] = "body"
        /\ \A v \in Threads, j \in Levels : v # t \/ j # l => at'[<<v, j>>] = at[<<v, j>>]
    BY <1>1, <1>2, Moved
  <2>2. ASSUME NEW u \in Threads, NEW m \in Serialized
        PROVE  at'[<<u, m>>] \in InFilter <=> filterMutex'[m] = u
    <3>1. m \in Levels /\ (at[<<u, m>>] \in InFilter <=> filterMutex[m] = u)
      BY <1>2 DEF IInv, FiltersSound
    <3>2. CASE m = l
      <4>1. filterMutex[l] = None /\ filterMutex'[l] = t
        BY <1>1, <1>2, <3>2 DEF TypeOK
      <4>2. CASE u = t
        BY <2>1, <3>2, <4>1, <4>2 DEF InFilter
      <4>3. CASE u # t
        BY <1>2, <2>1, <3>1, <3>2, <4>1, <4>3
      <4>4. QED
        BY <4>2, <4>3
    <3>3. CASE m # l
      <4>1. filterMutex'[m] = filterMutex[m]
        BY <1>1, <1>2, <3>1, <3>3 DEF TypeOK
      <4>2. QED
        BY <2>1, <3>1, <3>3, <4>1
    <3>4. QED
      BY <3>2, <3>3
  <2>3. QED
    BY <2>2 DEF FiltersSound
<1>8. QED
  BY <1>3, <1>4, <1>5, <1>6, <1>7 DEF IInv

(* It unlocks it when the filter returns.                                  *)
LEMMA LeaveFilterKeeps ==
  ASSUME IInv, NEW t \in Threads, NEW l \in Levels, LeaveFilter(t, l)
  PROVE  IInv'
<1>1. /\ UNCHANGED <<cacheVars, frame, asks, memoryMutex>>
      /\ Runs(t, l) /\ at[<<t, l>>] = "filled" /\ Moves(t, l, "commit")
      /\ filterMutex' = IF l \in Serialized THEN [filterMutex EXCEPT ![l] = None] ELSE filterMutex
  BY DEF LeaveFilter, Goes, Moves
<1>2. /\ TypeOK /\ <<t, l>> \in Callers /\ "commit" \in Places
      /\ Serialized \subseteq Levels /\ None \notin Threads
  BY ChainAssumption DEF IInv, Callers, Places
<1>3. TypeOK'
  BY <1>1, <1>2, TypesKept DEF TypeOK
<1>4. PhasesSound'
  <2>1. UNCHANGED phase
    BY <1>1 DEF cacheVars
  <2>2. Suits("commit", phase[<<t, l>>])
    BY <1>1, <2>1, PhaseStays DEF Suits, InFilter
  <2>3. QED
    BY <1>1, <1>2, <2>1, <2>2, PhaseStays, PhasesKept
<1>5. StackSound'
  BY <1>1, <1>2, NothingBelow, StackKept
<1>6. MemorySound'
  BY <1>1, <1>2, MemoryKept
<1>7. FiltersSound'
  <2>1. /\ at'[<<t, l>>] = "commit"
        /\ \A v \in Threads, j \in Levels : v # t \/ j # l => at'[<<v, j>>] = at[<<v, j>>]
    BY <1>1, <1>2, Moved
  <2>2. ASSUME NEW u \in Threads, NEW m \in Serialized
        PROVE  at'[<<u, m>>] \in InFilter <=> filterMutex'[m] = u
    <3>1. m \in Levels /\ (at[<<u, m>>] \in InFilter <=> filterMutex[m] = u)
      BY <1>2 DEF IInv, FiltersSound
    <3>2. CASE m = l
      <4>1. filterMutex[l] = t /\ filterMutex'[l] = None
        BY <1>1, <1>2, <3>2 DEF TypeOK, IInv, FiltersSound, InFilter
      <4>2. CASE u = t
        BY <1>2, <2>1, <3>2, <4>1, <4>2 DEF InFilter
      <4>3. CASE u # t
        BY <1>2, <2>1, <3>1, <3>2, <4>1, <4>3
      <4>4. QED
        BY <4>2, <4>3
    <3>3. CASE m # l
      <4>1. filterMutex'[m] = filterMutex[m]
        BY <1>1, <1>2, <3>1, <3>3 DEF TypeOK
      <4>2. QED
        BY <2>1, <3>1, <3>3, <4>1
    <3>4. QED
      BY <3>2, <3>3
  <2>3. QED
    BY <2>2 DEF FiltersSound
<1>8. QED
  BY <1>3, <1>4, <1>5, <1>6, <1>7 DEF IInv

(* Invoke gets memory_mutex for a script when no other thread has it.      *)
LEMMA BeginInvokeKeeps ==
  ASSUME IInv, NEW t \in Threads, NEW l \in Levels, BeginInvoke(t, l)
  PROVE  IInv'
<1>1. /\ UNCHANGED <<cacheVars, frame, asks, filterMutex>>
      /\ at[<<t, l>>] = "invoke" /\ Moves(t, l, "eval")
      /\ memoryMutex \in {None, t} /\ memoryMutex' = t
  BY DEF BeginInvoke, Goes, Moves, MemoryFree
<1>2. TypeOK /\ <<t, l>> \in Callers /\ "eval" \in Places /\ None \notin Threads
  BY ChainAssumption DEF IInv, Callers, Places
<1>3. TypeOK'
  BY <1>1, <1>2, TypesKept DEF TypeOK
<1>4. PhasesSound'
  <2>1. UNCHANGED phase
    BY <1>1 DEF cacheVars
  <2>2. Suits("eval", phase[<<t, l>>])
    BY <1>1, <2>1, PhaseStays DEF Suits, InFilter
  <2>3. QED
    BY <1>1, <1>2, <2>1, <2>2, PhaseStays, PhasesKept
<1>5. at[<<t, l>>] \notin Asking(l)
  BY <1>1 DEF Asking
<1>6. StackSound'
  BY <1>1, <1>2, <1>5, NothingBelow, StackKept
<1>7. MemorySound'
  <2>1. /\ at'[<<t, l>>] = "eval"
        /\ \A v \in Threads, j \in Levels : v # t \/ j # l => at'[<<v, j>>] = at[<<v, j>>]
    BY <1>1, <1>2, Moved
  <2>2. \A u \in Threads, k \in Levels : at[<<u, k>>] = "eval" => u = t
    BY <1>1, <1>2 DEF IInv, MemorySound
  <2>3. QED
    BY <1>1, <2>1, <2>2 DEF MemorySound
<1>8. FiltersSound'
  BY <1>1, <1>2, FiltersKept DEF InFilter
<1>9. QED
  BY <1>3, <1>4, <1>6, <1>7, <1>8 DEF IInv

(* It keeps it until the outermost of the thread's scripts has ended.      *)
LEMMA EndInvokeKeeps ==
  ASSUME IInv, NEW t \in Threads, NEW l \in Levels, EndInvoke(t, l)
  PROVE  IInv'
<1>1. /\ UNCHANGED <<cacheVars, frame, asks, filterMutex>>
      /\ Runs(t, l) /\ at[<<t, l>>] = "eval" /\ Moves(t, l, "body")
      /\ memoryMutex' = IF \E k \in Levels \ {l} : at[<<t, k>>] = "eval" THEN t ELSE None
  BY DEF EndInvoke, Goes, Moves
<1>2. TypeOK /\ <<t, l>> \in Callers /\ "body" \in Places /\ None \notin Threads
  BY ChainAssumption DEF IInv, Callers, Places
<1>3. TypeOK'
  BY <1>1, <1>2, TypesKept DEF TypeOK
<1>4. PhasesSound'
  <2>1. UNCHANGED phase
    BY <1>1 DEF cacheVars
  <2>2. Suits("body", phase[<<t, l>>])
    BY <1>1, <2>1, PhaseStays DEF Suits, InFilter
  <2>3. QED
    BY <1>1, <1>2, <2>1, <2>2, PhaseStays, PhasesKept
<1>5. StackSound'
  BY <1>1, <1>2, NothingBelow, StackKept
<1>6. MemorySound'
  <2>1. /\ at'[<<t, l>>] = "body"
        /\ \A v \in Threads, j \in Levels : v # t \/ j # l => at'[<<v, j>>] = at[<<v, j>>]
    BY <1>1, <1>2, Moved
  <2>2. \A u \in Threads, k \in Levels : at[<<u, k>>] = "eval" => u = t
    BY <1>1, <1>2 DEF IInv, MemorySound
  <2>3. CASE \E k \in Levels \ {l} : at[<<t, k>>] = "eval"
    BY <1>1, <2>1, <2>2, <2>3 DEF MemorySound
  <2>4. CASE ~\E k \in Levels \ {l} : at[<<t, k>>] = "eval"
    BY <1>1, <2>1, <2>2, <2>4 DEF MemorySound
  <2>5. QED
    BY <2>3, <2>4
<1>7. FiltersSound'
  BY <1>1, <1>2, FiltersKept DEF InFilter
<1>8. QED
  BY <1>3, <1>4, <1>5, <1>6, <1>7 DEF IInv

-----------------------------------------------------------------------------
(* A new request is at the bottom of the thread's.                         *)
LEMMA RequestKeeps ==
  ASSUME IInv, NEW t \in Threads, NEW l \in Levels, NEW n \in Numbers, Request(t, l, n),
         asks' \in [Callers -> 0 .. MaxAsks],
         \A k \in Levels : k > l => at[<<t, k>>] \in Asking(k),
         UNCHANGED <<cacheVars, memoryMutex, filterMutex>>
  PROVE  IInv'
<1> DEFINE g == IF n < 0 THEN 0 ELSE IF n \in Frames THEN n ELSE NumFrames - 1
<1>0. g \in Frames
  BY ChainAssumption DEF Numbers, Frames
<1>1. PICK f \in Frames : frame' = [frame EXCEPT ![<<t, l>>] = f]
  BY <1>0 DEF Request
<1> HIDE DEF g
<1>2. /\ at[<<t, l>>] = "out" /\ Moves(t, l, "nod") /\ None \notin Frames
      /\ TypeOK /\ <<t, l>> \in Callers /\ "nod" \in Places
  BY ChainAssumption DEF Request, Goes, Moves, IInv, Callers, Places
<1>3. TypeOK'
  <2>1. /\ at' \in [Callers -> Places] /\ at'[<<t, l>>] = "nod"
        /\ \A c \in Callers : c # <<t, l>> => at'[c] = at[c]
    BY <1>2, Moved
  <2>2. \A c \in Callers : at'[c] = "out" <=> frame'[c] = None
    BY <1>1, <1>2, <2>1 DEF TypeOK
  <2>3. frame' \in [Callers -> Frames \cup {None}]
    BY <1>1, <1>2 DEF TypeOK
  <2>4. QED
    BY <1>2, <2>1, <2>2, <2>3 DEF TypeOK
<1>4. PhasesSound'
  <2>1. UNCHANGED phase
    BY DEF cacheVars
  <2>2. Suits("nod", phase[<<t, l>>])
    BY <1>2, <2>1, PhaseStays DEF Suits, InFilter
  <2>3. QED
    BY <1>2, <2>1, <2>2, PhaseStays, PhasesKept
<1>5. at[<<t, l>>] \notin Asking(l)
  BY <1>2 DEF Asking
<1>6. StackSound'
  BY <1>2, <1>5, NothingBelow, StackKept
<1>7. MemorySound'
  BY <1>2, MemoryKept
<1>8. FiltersSound'
  BY <1>2, FiltersKept DEF InFilter
<1>9. QED
  BY <1>3, <1>4, <1>6, <1>7, <1>8 DEF IInv

(* The application, or the prefetcher, asks the last filter.               *)
LEMMA GetFrameKeeps ==
  ASSUME IInv, NEW t \in Threads, NEW n \in Numbers, GetFrame(t, n)
  PROVE  IInv'
<1>1. /\ Request(t, Top, n) /\ UNCHANGED <<cacheVars, asks, memoryMutex, filterMutex>>
      /\ Top \in Levels /\ \A k \in Levels : ~(k > Top)
  BY ChainAssumption DEF GetFrame, Levels
<1>2. asks' \in [Callers -> 0 .. MaxAsks]
  BY <1>1 DEF IInv, TypeOK
<1>3. QED
  BY <1>1, <1>2, RequestKeeps

(* A filter asks the one below it.                                         *)
LEMMA AskChildKeeps ==
  ASSUME IInv, NEW t \in Threads, NEW l \in Levels, NEW n \in Numbers, AskChild(t, l, n)
  PROVE  IInv'
<1>1. /\ Request(t, l - 1, n) /\ UNCHANGED <<cacheVars, memoryMutex, filterMutex>>
      /\ l - 1 \in Levels /\ at[<<t, l>>] \in Asking(l)
      /\ asks[<<t, l>>] < MaxAsks /\ asks' = [asks EXCEPT ![<<t, l>>] = @ + 1]
  BY ChainAssumption DEF AskChild, Levels, Asking
<1>2. asks' \in [Callers -> 0 .. MaxAsks]
  BY <1>1, ChainAssumption DEF IInv, TypeOK, Callers
<1>3. ASSUME NEW k \in Levels, k > l - 1 PROVE at[<<t, k>>] \in Asking(k)
  <2>1. CASE k = l
    BY <1>1, <2>1
  <2>2. CASE k # l
    <3>1. l < k
      BY <1>3, <2>2 DEF Levels
    <3>2. at[<<t, l>>] # "out"
      BY <1>1 DEF Asking
    <3>3. QED
      BY <3>1, <3>2 DEF IInv, StackSound
  <2>3. QED
    BY <2>1, <2>2
<1>4. QED
  BY <1>1, <1>2, <1>3, RequestKeeps

(* No step of any thread, and no eviction, disturbs the locks.             *)
LEMMA NextIInv == IInv /\ [Next]_vars => IInv'
<1> SUFFICES ASSUME IInv, [Next]_vars PROVE IInv'
  OBVIOUS
<1>1. ASSUME UNCHANGED <<phase, at, frame, asks, memoryMutex, filterMutex>> PROVE IInv'
  BY <1>1 DEF IInv, TypeOK, PhasesSound, StackSound, MemorySound, FiltersSound
<1>2. CASE UNCHANGED vars \/ Forget
  BY <1>1, <1>2 DEF vars, cacheVars, Forget, Cache!Forget
<1>3. ASSUME NEW t \in Threads, Step(t) PROVE IInv'
  <2>1. PICK l \in Levels : \/ Nod(t, l) \/ LookUp(t, l) \/ Woken(t, l)
                            \/ Commit(t, l) \/ Return(t, l)
                            \/ EnterFilter(t, l) \/ LeaveFilter(t, l)
                            \/ WantFrame(t, l) \/ NewFrame(t, l)
                            \/ BeginInvoke(t, l) \/ EndInvoke(t, l)
    BY <1>3 DEF Step
  <2>2. QED
    BY <2>1, PlainKeeps, LookUpKeeps, AnswersKeep, ReturnKeeps, EnterFilterKeeps,
       LeaveFilterKeeps, BeginInvokeKeeps, EndInvokeKeeps
<1>4. QED
  BY <1>2, <1>3, PlainKeeps, GetFrameKeeps, AskChildKeeps DEF Next

-----------------------------------------------------------------------------
(* The locks are held by those who need them, at every moment.             *)
THEOREM Invariance == Spec => []IInv
BY InitIInv, NextIInv, PTL DEF Spec

(* One thread at a time is in a serialized filter, and while one evaluates *)
(* a script no other does: for any chain and any number of threads.        *)
THEOREM ThreadsExcluded == Spec => []LocksExclude
<1>1. IInv => LocksExclude
  <2> SUFFICES ASSUME IInv PROVE LocksExclude
    OBVIOUS
  <2>1. OneInSerialized
    BY DEF IInv, FiltersSound, OneInSerialized
  <2>2. EvalsAlone
    BY DEF IInv, MemorySound, EvalsAlone
  <2>3. QED
    BY <2>1, <2>2 DEF IInv, LocksExclude
<1>2. QED
  BY <1>1, Invariance, PTL

-----------------------------------------------------------------------------
(* Nobody waits in a circle. *)

(* How far a thread is from having its frame: the levels that are still    *)
(* below it and, within a level, whether it waits for another to make the  *)
(* frame there, or for the filter, or is in the filter.                    *)
Stage(t, l) == IF phase[<<t, l>>] = "waiting" THEN 2
               ELSE IF at[<<t, l>>] = "cache" THEN 1 ELSE 0
Rank(t, l) == 3 * l + Stage(t, l)

(* Any numbers have a least one.                                           *)
LEMMA LeastOfSet ==
  ASSUME NEW R \in SUBSET Nat, R # {}
  PROVE  \E m \in R : \A n \in R : m <= n
<1> DEFINE less == {ss \in Nat \X Nat : ss[1] < ss[2]}
<1>1. IsWellFoundedOn(less, Nat)
  BY NatLessThanWellFounded DEF OpToRel
<1>2. PICK m \in R : \A n \in R : <<n, m>> \notin less
  <2> HIDE DEF less
  <2>1. QED
    BY <1>1, WFMin
<1>3. ASSUME NEW n \in R PROVE m <= n
  <2>1. <<n, m>> \in Nat \X Nat /\ ~(n < m) /\ n \in Nat /\ m \in Nat
    BY <1>2, Zenon
  <2>2. QED
    BY <2>1
<1>4. QED
  BY <1>3

(* A thread runs at one level at most.                                     *)
LEMMA RunsOnce ==
  ASSUME IInv, NEW t \in Threads, NEW l \in Levels, NEW k \in Levels, Runs(t, l), Runs(t, k)
  PROVE  k = l
<1>1. at[<<t, l>>] # "out" /\ at[<<t, k>>] # "out"
  BY DEF Runs
<1>2. ~(k < l) /\ ~(l < k)
  BY <1>1, NothingBelow
<1>3. QED
  BY <1>2 DEF Levels

(* It runs where it is not asking the level below.                         *)
LEMMA RunsThere ==
  ASSUME IInv, NEW t \in Threads, NEW l \in Levels,
         at[<<t, l>>] # "out", at[<<t, l>>] \notin Asking(l)
  PROVE  Runs(t, l)
<1>1. l > 0 => l - 1 \in Levels /\ l - 1 < l
  BY ChainAssumption DEF Levels
<1>2. QED
  BY <1>1, NothingBelow DEF Runs

(* A thread that has a request somewhere runs there or further down.       *)
LEMMA RunsBelow ==
  ASSUME IInv, NEW t \in Threads, NEW l \in Levels, at[<<t, l>>] # "out"
  PROVE  \E k \in Levels : k <= l /\ Runs(t, k)
<1> DEFINE L == {k \in Levels : at[<<t, k>>] # "out"}
<1>1. L \in SUBSET Nat /\ L # {}
  BY ChainAssumption DEF Levels
<1>2. PICK k \in L : \A j \in L : k <= j
  BY <1>1, LeastOfSet
<1>3. k > 0 => k - 1 \in Levels /\ k - 1 \notin L
  BY <1>2, ChainAssumption DEF Levels
<1>4. Runs(t, k)
  BY <1>2, <1>3 DEF Runs
<1>5. QED
  BY <1>2, <1>4

(* Where a thread waits for memory_mutex, for a filter or for a frame is   *)
(* where it runs.                                                          *)
LEMMA WaitsWhereItRuns ==
  ASSUME IInv, NEW t \in Threads, NEW l \in Levels,
         at[<<t, l>>] \in {"nod", "invoke", "alloc", "cache"} \/ phase[<<t, l>>] = "waiting"
  PROVE  Runs(t, l) /\ (phase[<<t, l>>] = "waiting" => at[<<t, l>>] = "cache")
<1>1. phase[<<t, l>>] = "waiting" => at[<<t, l>>] = "cache"
  <2>1. /\ Suits(at[<<t, l>>], phase[<<t, l>>]) /\ at[<<t, l>>] \in Places
    BY DEF IInv, PhasesSound, TypeOK, Callers
  <2>2. QED
    BY <2>1 DEF Suits, Places, InFilter
<1>2. at[<<t, l>>] # "out" /\ at[<<t, l>>] \notin Asking(l)
  BY <1>1 DEF Asking
<1>3. QED
  BY <1>1, <1>2, RunsThere

(* The owner of memory_mutex waits for nobody, or its script has requested *)
(* a frame.                                                                *)
LEMMA OwnerGoesOn ==
  ASSUME IInv, NEW u \in Threads, memoryMutex = u
  PROVE  Inquires(u) \/ Awaits(u) = {}
<1>1. PICK k \in Levels : at[<<u, k>>] = "eval"
  BY ChainAssumption DEF IInv, MemorySound
<1>2. CASE ~Runs(u, k)
  <2>1. k > 0 /\ k - 1 \in Levels /\ k - 1 < k /\ at[<<u, k - 1>>] # "out"
    BY <1>1, <1>2, ChainAssumption DEF Runs, Levels
  <2>2. at[<<u, k>>] \in Asking(k)
    BY <2>1 DEF IInv, StackSound
  <2>3. k \in Inquiring
    BY <1>1, <2>2 DEF Asking
  <2>4. QED
    BY <1>1, <1>2, <2>3 DEF Inquires
<1>3. CASE Runs(u, k)
  <2>1. \A l \in Levels : /\ at[<<u, l>>] \notin {"nod", "invoke", "alloc", "cache"}
                          /\ phase[<<u, l>>] # "waiting"
    BY <1>1, <1>3, WaitsWhereItRuns, RunsOnce
  <2>2. QED
    BY <2>1 DEF Awaits
<1>4. QED
  BY <1>2, <1>3

(* Who waits for a filter or for a frame waits for somebody who is nearer  *)
(* to having his own.                                                      *)
LEMMA AwaitedIsNearer ==
  ASSUME IInv, NEW t \in Threads, NEW u \in Threads, u \in Awaits(t), memoryMutex # u
  PROVE  \E l \in Levels, k \in Levels : Runs(t, l) /\ Runs(u, k) /\ Rank(u, k) < Rank(t, l)
<1>1. PICK l \in Levels :
        \/ at[<<t, l>>] = "cache" /\ Makes(t, l) /\ l \in Serialized /\ filterMutex[l] = u
        \/ phase[<<t, l>>] = "waiting" /\ phase[<<u, l>>] = "making"
  BY DEF Awaits
<1>2. Runs(t, l)
  BY <1>1, WaitsWhereItRuns
<1>3. /\ at[<<u, l>>] # "out" /\ phase[<<u, l>>] # "waiting"
      /\ Stage(u, l) < Stage(t, l)
  <2>1. CASE at[<<t, l>>] = "cache" /\ Makes(t, l) /\ l \in Serialized /\ filterMutex[l] = u
    <3>1. at[<<u, l>>] \in InFilter /\ phase[<<t, l>>] # "waiting"
      BY <2>1 DEF IInv, FiltersSound, Makes
    <3>2. phase[<<u, l>>] # "waiting"
      BY <3>1, WaitsWhereItRuns DEF InFilter
    <3>3. QED
      BY <2>1, <3>1, <3>2 DEF Stage, InFilter
  <2>2. CASE phase[<<t, l>>] = "waiting" /\ phase[<<u, l>>] = "making"
    <3>1. at[<<u, l>>] # "out"
      BY <2>2 DEF IInv, PhasesSound, Suits, Callers
    <3>2. QED
      BY <2>2, <3>1 DEF Stage
  <2>3. QED
    BY <1>1, <2>1, <2>2
<1>4. PICK k \in Levels : k <= l /\ Runs(u, k)
  BY <1>3, RunsBelow
<1>5. Stage(u, k) \in 0 .. 2 /\ Stage(t, l) \in 1 .. 2
  BY <1>3 DEF Stage
<1>6. Rank(u, k) < Rank(t, l)
  <2>1. CASE k = l
    BY <1>3, <1>5, <2>1, ChainAssumption DEF Rank, Levels
  <2>2. CASE k < l
    BY <1>5, <2>2, ChainAssumption DEF Rank, Levels
  <2>3. QED
    BY <1>4, <2>1, <2>2, ChainAssumption DEF Levels
<1>7. QED
  BY <1>2, <1>4, <1>6

(* Of any threads one that is nearest to its frame waits for none of them. *)
LEMMA NearestGoesOn ==
  ASSUME IInv, NEW S \in SUBSET Threads, S # {},
         \A t \in S : Awaits(t) \cap S # {} /\ ~Inquires(t)
  PROVE  FALSE
<1>1. ASSUME NEW t \in S
      PROVE  \E l \in Levels, u \in S, k \in Levels :
               Runs(t, l) /\ Runs(u, k) /\ Rank(u, k) < Rank(t, l)
  <2>1. PICK u \in S : u \in Awaits(t)
    OBVIOUS
  <2>2. memoryMutex # u
    BY OwnerGoesOn
  <2>3. QED
    BY <2>1, <2>2, AwaitedIsNearer
<1> DEFINE R == {r \in Nat : \E t \in S, l \in Levels : Runs(t, l) /\ r = Rank(t, l)}
<1>2. ASSUME NEW t \in S, NEW l \in Levels, Runs(t, l) PROVE Rank(t, l) \in R
  <2>1. Rank(t, l) \in Nat
    BY ChainAssumption DEF Rank, Stage, Levels
  <2>2. QED
    BY <1>2, <2>1
<1>3. R \in SUBSET Nat
  OBVIOUS
<1>4. R # {}
  BY <1>1, <1>2
<1>5. PICK r \in R : \A q \in R : r <= q
  <2> HIDE DEF R
  <2>1. QED
    BY <1>3, <1>4, LeastOfSet
<1>6. PICK t \in S, l \in Levels : Runs(t, l) /\ r = Rank(t, l)
  OBVIOUS
<1> HIDE DEF R
<1>7. PICK m \in Levels, u \in S, k \in Levels :
        Runs(t, m) /\ Runs(u, k) /\ Rank(u, k) < Rank(t, m)
  BY <1>1, <1>6
<1>8. m = l
  BY <1>6, <1>7, RunsOnce
<1>9. Rank(u, k) \in R /\ Rank(u, k) < r
  <2>1. Rank(u, k) \in R
    BY <1>2, <1>7
  <2>2. QED
    BY <2>1, <1>6, <1>7, <1>8
<1>10. r <= Rank(u, k) /\ r \in Nat /\ Rank(u, k) \in Nat
  BY <1>3, <1>5, <1>9, Zenon
<1>11. QED
  BY <1>9, <1>10

(* Who is waited for has a request under way himself: he evaluates, is in  *)
(* the filter, or makes the frame.                                         *)
LEMMA AwaitedIsBusy ==
  ASSUME IInv, NEW t \in Threads, NEW u \in Awaits(t)
  PROVE  Busy(u)
<1>1. u \in Threads /\ u # None
  BY ChainAssumption DEF Awaits
<1>2. PICK l \in Levels :
        \/ memoryMutex = u
        \/ l \in Serialized /\ filterMutex[l] = u
        \/ phase[<<u, l>>] = "making"
  BY DEF Awaits
<1>3. CASE memoryMutex = u
  BY <1>1, <1>3 DEF IInv, MemorySound, Busy
<1>4. CASE l \in Serialized /\ filterMutex[l] = u
  <2>1. at[<<u, l>>] \in InFilter
    BY <1>1, <1>4 DEF IInv, FiltersSound
  <2>2. QED
    BY <2>1 DEF InFilter, Busy
<1>5. CASE phase[<<u, l>>] = "making"
  <2>1. Suits(at[<<u, l>>], phase[<<u, l>>])
    BY <1>1 DEF IInv, PhasesSound, Callers
  <2>2. QED
    BY <1>5, <2>1 DEF Suits, Busy
<1>6. QED
  BY <1>2, <1>3, <1>4, <1>5

(* Threads never wait for one another in a circle, but for those whose     *)
(* script has requested a frame, nor for a thread without a request: for   *)
(* any chain, any threads and any locks.                                   *)
THEOREM NobodyInCircle == Spec => []NoCircularWait
<1>1. ASSUME IInv, NEW S \in (SUBSET Threads) \ {{}},
             \A t \in S : Awaits(t) \cap S # {}, \A t \in S : ~Inquires(t)
      PROVE  FALSE
  BY <1>1, NearestGoesOn
<1>2. IInv => NoCircularWait
  BY <1>1, AwaitedIsBusy DEF NoCircularWait
<1>3. QED
  BY <1>2, Invariance, PTL
=============================================================================
