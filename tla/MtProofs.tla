------------------------------ MODULE MtProofs -------------------------------
(* That every thread finds an instance of its own behind a guard, that one *)
(* Prefetcher at a time is active until a Prefetch has been refused, and   *)
(* when a guard misses the parameters it has dropped: for all guards,      *)
(* Prefetchers, thread counts and calls.  And that a guard gets a mode as  *)
(* strict as the filters chained to its own demand, for any functions,     *)
(* clips and depth of Invokes.                                             *)
EXTENDS MtGuards, MtModes, TLAPS

Call == [guard: Guards, instance: Nat, mutex: Nat]

Typed == /\ prefetcher \in Prefetchers \cup {None}
         /\ nThreads \in [Prefetchers -> {0} \cup ThreadCounts]
         /\ child \in [Prefetchers -> SUBSET Guards]
         /\ guards \in [Guards -> MTGuard \cup {None}]
         /\ inside \in [AllThreads -> Call \cup {None}]
         /\ crashed \in BOOLEAN
         /\ history \in [refused: BOOLEAN, together: BOOLEAN, counts: SUBSET ThreadCounts]

(* At most one is active, and the environment knows it, until the mistakes *)
(* that the history records.                                               *)
ForPrefetchers ==
  /\ \A p \in Prefetchers : nThreads[p] \in {0} \cup history.counts
  /\ prefetcher # None => nThreads[prefetcher] # 0
  /\ SinglePrefetcher
  /\ ~history.together => \A p, q \in Active : p = q

(* What each guard has of instances, mutexes and parameters. *)
GuardSound(g) ==
  /\ guards[g].owner \in Threads
  /\ guards[g].mode = "serialized" => (guards[g].nThreads > 1 <=> guards[g].FilterMutex > 0)
  /\ guards[g].mode = "multi_instance" /\ ~guards[g].FilterCtor =>
       \E m \in history.counts : guards[g].instances >= 1 + m
  /\ guards[g].mode = "multi_instance" /\ guards[g].nThreads > 1 /\ ~history.together =>
       \A p \in Active : guards[g].instances > nThreads[p]

ChildSound(g) == g \in MTGuardRegistry /\ guards[g].owner = Host /\ guards[g].nThreads > 1

(* A thread inside a guard has the instance, and the mutex, that the guard *)
(* gives it still.                                                         *)
CallSound(t) ==
  LET g == inside[t].guard
  IN  /\ t \in Threads
      /\ g \in MTGuardRegistry
      /\ guards[g].owner \in {t, Host}
      /\ ~history.together =>
           /\ guards[g].nThreads = 1 => inside[t].instance = 0 /\ guards[g].owner = t
           /\ guards[g].nThreads > 1 /\ guards[g].mode = "multi_instance" =>
                inside[t].instance = t[2]
           /\ guards[g].nThreads > 1 /\ guards[g].mode = "serialized" =>
                inside[t].instance = 0 /\ inside[t].mutex = guards[g].FilterMutex

Locked(t, u) ==
  LET g == inside[t].guard
  IN  inside[u].guard = g /\ guards[g].mode = "serialized" /\ guards[g].nThreads > 1

ForGuards == \A g \in MTGuardRegistry : GuardSound(g)
ForChildren == \A p \in Prefetchers : \A g \in child[p] : ChildSound(g)
ForCalls == \A t \in AllThreads : inside[t] # None => CallSound(t)
OneInLock ==
  ~history.together =>
    \A t, u \in AllThreads : inside[t] # None /\ inside[u] # None /\ Locked(t, u) => t = u

IInv == /\ Typed /\ ForPrefetchers /\ ForGuards /\ ForChildren /\ ForCalls /\ OneInLock
        /\ ParametersSuffice

-----------------------------------------------------------------------------
(* The helpers. *)

(* The larger of two numbers is one of them and no less than either. *)
LEMMA MaxOfTwo ==
  ASSUME NEW a \in Nat, NEW b \in Nat
  PROVE  Max({a, b}) \in {a, b} /\ Max({a, b}) >= a /\ Max({a, b}) >= b
<1>1. \E x \in {a, b} : \A y \in {a, b} : x >= y
  <2>1. CASE a >= b
    BY <2>1
  <2>2. CASE b >= a
    BY <2>2
  <2> QED
    BY <2>1, <2>2
<1> QED
  BY <1>1 DEF Max

(* A thread is the host's or one of a Prefetcher's workers. *)
LEMMA ThreadShape ==
  ASSUME Typed, NEW t
  PROVE  t \in Threads <=>
           t = Host \/ \E p \in Prefetchers : \E i \in 1 .. nThreads[p] : t = <<p, i>>
BY DEF Threads, WorkersOf

(* The threads there are have addresses. *)
LEMMA ThreadsExist == ASSUME Typed PROVE Threads \subseteq AllThreads
<1> SUFFICES ASSUME NEW p \in Prefetchers, NEW i \in 1 .. nThreads[p]
             PROVE  <<p, i>> \in AllThreads
  BY ThreadShape DEF AllThreads
<1>1. nThreads[p] \in ThreadCounts
  BY MtGuardsAssumption DEF Typed
<1>2. i \in UNION {1 .. n : n \in ThreadCounts}
  BY <1>1
<1> QED
  BY <1>2 DEF AllThreads

(* Numbers of workers are numbers, none included. *)
LEMMA WorkerCounts == ASSUME Typed, NEW p \in Prefetchers PROVE nThreads[p] \in Nat
<1>1. CASE nThreads[p] = 0
  BY <1>1
<1>2. CASE nThreads[p] \in ThreadCounts
  BY <1>2, MtGuardsAssumption
<1> QED
  BY <1>1, <1>2 DEF Typed

(* Every thread has a number, the host's being 0. *)
LEMMA ThreadNumbers == \A t \in AllThreads : AEP_THREAD_ID(t) \in Nat
BY MtGuardsAssumption DEF AllThreads, Host, AEP_THREAD_ID

(* While one Prefetcher at most is active, no two threads have one number. *)
LEMMA NumbersDiffer ==
  ASSUME Typed, NEW t \in Threads, NEW u \in Threads, t[2] = u[2],
         \A p, q \in Active : p = q
  PROVE  t = u
<1>1. CASE t = Host \/ u = Host
  BY <1>1, ThreadShape, MtGuardsAssumption DEF Host, Typed
<1>2. CASE t # Host /\ u # Host
  <2>1. PICK p \in Prefetchers : \E i \in 1 .. nThreads[p] : t = <<p, i>>
    BY <1>2, ThreadShape
  <2>2. PICK q \in Prefetchers : \E i \in 1 .. nThreads[q] : u = <<q, i>>
    BY <1>2, ThreadShape
  <2>3. p \in Active /\ q \in Active
    BY <2>1, <2>2, MtGuardsAssumption DEF Active, Typed
  <2> QED
    BY <2>1, <2>2, <2>3
<1> QED
  BY <1>1, <1>2

(* A new guard has one instance, no mutex, and keeps its constructor's     *)
(* parameters only if it may need more.                                    *)
LEMMA NewGuardSound ==
  ASSUME NEW mode \in Modes, NEW t \in AllThreads
  PROVE  LET new == NewGuard(mode, t)
         IN  /\ new \in MTGuard
             /\ new.mode = mode /\ new.owner = t /\ new.nThreads = 1 /\ new.instances = 1
             /\ new.FilterMutex = 0 /\ new.FilterCtor = (mode = "multi_instance")
<1> DEFINE new == NewGuard(mode, t)
<1>1. new.mode = mode /\ new.owner = t /\ new.nThreads = 1 /\ new.instances = 1
      /\ new.FilterMutex = 0
  BY DEF NewGuard
<1>2. new.FilterCtor = (mode = "multi_instance")
  BY DEF NewGuard
<1>3. new \in MTGuard
  <2>1. (mode = "multi_instance") \in BOOLEAN
    OBVIOUS
  <2> DEFINE ctor == mode = "multi_instance"
  <2>2. new = [mode |-> mode, owner |-> t, nThreads |-> 1, instances |-> 1,
               FilterMutex |-> 0, FilterCtor |-> ctor]
    BY DEF NewGuard
  <2>3. ctor \in BOOLEAN
    BY <2>1
  <2> HIDE DEF ctor, new
  <2> QED
    BY <2>2, <2>3 DEF MTGuard
<1> QED
  BY <1>1, <1>2, <1>3

(* EnableMT leaves a guard with instances or a mutex for each of the       *)
(* threads.                                                                *)
LEMMA EnableMTSound ==
  ASSUME NEW guard \in MTGuard, NEW n \in Nat \ {0}
  PROVE  LET new == EnableMT(guard, n)
         IN  /\ new \in MTGuard
             /\ new.mode = guard.mode /\ new.owner = guard.owner /\ new.nThreads = n
             /\ ~new.FilterCtor
             /\ guard.mode = "serialized" => new.FilterMutex > 0
             /\ guard.mode = "multi_instance" => new.instances >= n
<1> DEFINE more == Max({guard.instances, n})
<1>1. guard.instances \in Nat \ {0} /\ guard.FilterMutex \in Nat
  BY DEF MTGuard
<1>2. more \in Nat \ {0} /\ more >= n
  BY <1>1, MaxOfTwo
<1> HIDE DEF more
<1>3. EnableMT(guard, n) =
        [guard EXCEPT !.nThreads = n,
                      !.instances = IF guard.mode = "multi_instance" THEN more
                                    ELSE guard.instances,
                      !.FilterMutex = IF guard.mode = "serialized"
                                      THEN guard.FilterMutex + 1 ELSE guard.FilterMutex,
                      !.FilterCtor = FALSE]
  BY DEF EnableMT, more, MTGuard
<1> DEFINE new == EnableMT(guard, n)
<1>4. /\ new.mode = guard.mode /\ new.owner = guard.owner /\ new.nThreads = n
      /\ new.FilterCtor = FALSE
      /\ new.instances = IF guard.mode = "multi_instance" THEN more ELSE guard.instances
      /\ new.FilterMutex = IF guard.mode = "serialized"
                           THEN guard.FilterMutex + 1 ELSE guard.FilterMutex
  BY <1>3 DEF MTGuard
<1>5. new \in MTGuard
  <2> DEFINE fm == IF guard.mode = "serialized" THEN guard.FilterMutex + 1 ELSE guard.FilterMutex
             is == IF guard.mode = "multi_instance" THEN more ELSE guard.instances
  <2>1. fm \in Nat /\ is \in Nat \ {0}
    BY <1>1, <1>2
  <2>2. new = [guard EXCEPT !.nThreads = n, !.instances = is, !.FilterMutex = fm,
                            !.FilterCtor = FALSE]
    BY <1>3
  <2> HIDE DEF fm, is, new
  <2> QED
    BY <2>1, <2>2 DEF MTGuard
<1> QED
  BY <1>1, <1>2, <1>4, <1>5

-----------------------------------------------------------------------------
(* The invariant holds at first, and each action keeps it. *)

(* At first there are no Prefetchers, no guards and no calls. *)
LEMMA Initially == Init => IInv
<1> SUFFICES ASSUME Init PROVE IInv
  OBVIOUS
<1> USE MtGuardsAssumption DEF Init
<1>1. Typed
  BY DEF Typed
<1>2. Active = {} /\ MTGuardRegistry = {}
  BY DEF Active, MTGuardRegistry
<1>3. ForPrefetchers
  BY <1>2 DEF ForPrefetchers, SinglePrefetcher
<1>4. ForGuards /\ ForChildren /\ ForCalls /\ OneInLock /\ ParametersSuffice
  BY <1>2 DEF ForGuards, ForChildren, ForCalls, OneInLock, ParametersSuffice
<1> QED
  BY <1>1, <1>3, <1>4 DEF IInv

(* What a call needs to know of a step that leaves it alone. *)
LEMMA CallStays ==
  ASSUME IInv, NEW t \in AllThreads, inside[t] # None, inside'[t] = inside[t],
         t \in Threads', guards'[inside[t].guard] = guards[inside[t].guard],
         inside[t].guard \in Guards, history'.together = history.together
  PROVE  CallSound(t)'
<1>1. CallSound(t)
  BY DEF IInv, ForCalls
<1> QED
  BY <1>1 DEF CallSound, MTGuardRegistry

(* EnableMT locks a serialized guard and numbers the instances of others.  *)
LEMMA EnterRight ==
  ASSUME IInv, NEW t \in AllThreads, NEW g \in Guards, Enter(t, g)
  PROVE  /\ CallSound(t)'
         /\ inside'[t] \in Call /\ inside'[t].guard = g
         /\ inside' = [inside EXCEPT ![t] = inside'[t]]
<1> USE DEF IInv
<1>1. guards[g] \in MTGuard /\ g \in MTGuardRegistry /\ t \in Threads
  BY DEF Enter, MayCall, Typed, MTGuardRegistry
<1>2. guards[g].owner \in {t, Host}
  <2>1. CASE guards[g].owner = t
    BY <2>1
  <2>2. CASE t # Host /\ g \in child[t[1]]
    <3>1. t[1] \in Prefetchers
      BY <1>1, <2>2, ThreadShape
    <3> QED
      BY <2>2, <3>1 DEF ForChildren, ChildSound
  <2> QED
    BY <2>1, <2>2 DEF Enter, MayCall
<1>3. ASSUME NEW i \in Nat, NEW m \in Nat, Runs(t, g, i, m)
      PROVE  /\ inside'[t] \in Call
             /\ inside'[t].guard = g /\ inside'[t].instance = i /\ inside'[t].mutex = m
             /\ inside' = [inside EXCEPT ![t] = inside'[t]]
  BY <1>3 DEF Runs, Call, Typed
<1>4. guards[g].nThreads \in Nat \ {0} /\ guards[g].FilterMutex \in Nat
      /\ guards[g].mode \in Modes
  BY <1>1 DEF MTGuard
<1>5. UNCHANGED <<guards, history, nThreads>>
  BY DEF Enter
<1>6. Threads' = Threads /\ MTGuardRegistry' = MTGuardRegistry
  BY <1>5 DEF Threads, WorkersOf, MTGuardRegistry
<1>7. CASE EnterSingle(t, g)
  <2>1. guards[g].nThreads = 1 /\ Runs(t, g, 0, 0)
    BY <1>7 DEF EnterSingle
  <2>2. guards[g].owner = t
    <3>1. ASSUME t # Host, g \in child[t[1]] PROVE FALSE
      <4>1. t[1] \in Prefetchers
        BY <1>1, <3>1, ThreadShape
      <4> QED
        BY <2>1, <3>1, <4>1 DEF ForChildren, ChildSound
    <3> QED
      BY <3>1 DEF Enter, MayCall
  <2> QED
    BY <1>1, <1>2, <1>3, <1>5, <1>6, <2>1, <2>2 DEF CallSound
<1>8. CASE EnterMulti(t, g)
  <2>1. t[2] \in Nat
    BY ThreadNumbers DEF AEP_THREAD_ID
  <2> QED
    BY <1>1, <1>2, <1>3, <1>5, <1>6, <1>8, <2>1 DEF CallSound, EnterMulti, AEP_THREAD_ID
<1>9. CASE EnterSerialized(t, g)
  BY <1>1, <1>2, <1>3, <1>4, <1>5, <1>6, <1>9 DEF CallSound, EnterSerialized
<1> QED
  BY <1>7, <1>8, <1>9 DEF Enter

(* A thread that enters a guard gets an instance that nobody else is in. *)
LEMMA EnterKeeps ==
  ASSUME IInv, NEW t \in AllThreads, NEW g \in Guards, Enter(t, g)
  PROVE  IInv'
<1> USE DEF IInv
<1>1. UNCHANGED <<prefetcher, nThreads, child, guards, calls, crashed, history>>
  BY DEF Enter
<1>2. /\ CallSound(t)' /\ inside'[t] \in Call /\ inside'[t].guard = g
      /\ inside' = [inside EXCEPT ![t] = inside'[t]]
  BY EnterRight
<1>3. /\ Active' = Active /\ Threads' = Threads /\ MTGuardRegistry' = MTGuardRegistry
  BY <1>1 DEF Active, Threads, WorkersOf, MTGuardRegistry
<1>4. Typed'
  BY <1>1, <1>2 DEF Typed
<1>5. ForPrefetchers' /\ ForGuards' /\ ForChildren' /\ ParametersSuffice'
  BY <1>1, <1>3 DEF ForPrefetchers, SinglePrefetcher, ForGuards, GuardSound, ForChildren,
                    ChildSound, ParametersSuffice
<1>6. \A u \in AllThreads \ {t} : inside'[u] = inside[u]
  BY <1>2 DEF Typed
<1>7. ForCalls'
  <2>1. ASSUME NEW u \in AllThreads \ {t}, inside'[u] # None PROVE CallSound(u)'
    BY <1>1, <1>3, <1>6, <2>1 DEF ForCalls, CallSound
  <2> QED
    BY <1>2, <2>1 DEF ForCalls
<1>8. OneInLock'
  <2> SUFFICES ASSUME ~history.together, NEW u \in AllThreads \ {t}, inside[u] # None,
                      inside[u].guard = g,
                      guards[g].mode = "serialized", guards[g].nThreads > 1
               PROVE  FALSE
    BY <1>1, <1>2, <1>6 DEF OneInLock, Locked
  <2>1. u \in Threads /\ inside[u].mutex = guards[g].FilterMutex
    BY DEF ForCalls, CallSound
  <2>2. Held(g, guards[g].FilterMutex)
    BY <2>1 DEF Held
  <2> QED
    BY <2>2 DEF Enter, EnterSingle, EnterMulti, EnterSerialized
<1> QED
  BY <1>4, <1>5, <1>7, <1>8

(* Leaving a guard frees what only the one who leaves had. *)
LEMMA LeaveKeeps ==
  ASSUME IInv, NEW t \in AllThreads, Leave(t)
  PROVE  IInv'
<1> USE DEF IInv
<1>1. UNCHANGED <<prefetcher, nThreads, child, guards, calls, crashed, history>>
      /\ inside' = [inside EXCEPT ![t] = None]
  BY DEF Leave
<1>3. /\ Active' = Active /\ Threads' = Threads /\ MTGuardRegistry' = MTGuardRegistry
  BY <1>1 DEF Active, Threads, WorkersOf, MTGuardRegistry
<1>4. Typed'
  BY <1>1 DEF Typed
<1>5. ForPrefetchers' /\ ForGuards' /\ ForChildren' /\ ParametersSuffice'
  BY <1>1, <1>3 DEF ForPrefetchers, SinglePrefetcher, ForGuards, GuardSound, ForChildren,
                    ChildSound, ParametersSuffice
<1>6. \A u \in AllThreads : inside'[u] # None => inside'[u] = inside[u]
  BY <1>1 DEF Typed
<1>7. ForCalls'
  BY <1>1, <1>3, <1>6 DEF ForCalls, CallSound
<1>8. OneInLock'
  BY <1>1, <1>6 DEF OneInLock, Locked
<1> QED
  BY <1>4, <1>5, <1>7, <1>8

(* A guard that is created while a Prefetcher is active gets as much as    *)
(* those that Prefetcher has found.                                        *)
LEMMA RegisterKeeps ==
  ASSUME IInv, NEW t \in AllThreads, NEW g \in Guards, NEW mode \in Modes, Register(t, g, mode)
  PROVE  IInv'
<1> USE DEF IInv
<1>1. /\ UNCHANGED <<prefetcher, nThreads, child, inside, calls, crashed, history>>
      /\ t \in Threads /\ guards[g] = None /\ g \notin MTGuardRegistry
  BY DEF Register, MTGuardRegistry
<1>2. Active' = Active /\ Threads' = Threads
  BY <1>1 DEF Active, Threads, WorkersOf
<1> DEFINE r == guards'[g]
<1>3. /\ r \in MTGuard /\ r.mode = mode /\ r.owner = t
      /\ guards' = [guards EXCEPT ![g] = r]
      /\ GuardSound(g)'
  <2>1. CASE prefetcher = None
    <3>1. r = NewGuard(mode, t) /\ guards' = [guards EXCEPT ![g] = r]
      BY <2>1 DEF Register, Typed
    <3>2. /\ r \in MTGuard /\ r.mode = mode /\ r.owner = t /\ r.nThreads = 1
          /\ r.FilterMutex = 0 /\ r.FilterCtor = (mode = "multi_instance")
      BY <3>1, NewGuardSound
    <3>3. mode = "multi_instance" => r.FilterCtor
      BY <3>2
    <3> HIDE DEF r
    <3>4. GuardSound(g)'
      BY <1>1, <1>2, <3>2, <3>3 DEF GuardSound, r
    <3> QED
      BY <3>1, <3>2, <3>4
  <2>2. CASE prefetcher # None
    <3> DEFINE workers == nThreads[prefetcher]
               new == NewGuard(mode, t)
    <3>1. workers \in Nat \ {0} /\ workers \in history.counts /\ prefetcher \in Active
      BY <2>2, MtGuardsAssumption DEF Typed, ForPrefetchers, Active
    <3>2. r = EnableMT(new, 1 + workers) /\ guards' = [guards EXCEPT ![g] = r]
      BY <2>2 DEF Register, Typed, TotalThreads
    <3>3. new \in MTGuard /\ new.mode = mode /\ new.owner = t
      BY NewGuardSound
    <3>4. 1 + workers \in Nat \ {0} /\ 1 + workers > 1
      BY <3>1
    <3> HIDE DEF new, workers
    <3>5. /\ r \in MTGuard /\ r.mode = mode /\ r.owner = t /\ r.nThreads = 1 + workers
          /\ mode = "serialized" => r.FilterMutex > 0
          /\ mode = "multi_instance" => r.instances >= 1 + workers
      BY <3>2, <3>3, <3>4, EnableMTSound
    <3>6. r.instances \in Nat
      BY <3>5 DEF MTGuard
    <3>7. ~history.together => \A p \in Active : nThreads[p] = workers
      BY <3>1 DEF ForPrefetchers, workers
    <3>8. GuardSound(g)'
      BY <1>1, <1>2, <3>1, <3>4, <3>5, <3>6, <3>7 DEF GuardSound
    <3> QED
      BY <3>2, <3>5, <3>8
  <2> QED
    BY <2>1, <2>2
<1> HIDE DEF r
<1>4. \A h \in MTGuardRegistry : guards'[h] = guards[h] /\ h \in MTGuardRegistry'
  BY <1>1, <1>3 DEF Typed, MTGuardRegistry
<1>5. \A h \in MTGuardRegistry' : h = g \/ h \in MTGuardRegistry
  BY <1>1, <1>3 DEF Typed, MTGuardRegistry
<1>6. Typed'
  BY <1>1, <1>3 DEF Typed
<1>7. ForPrefetchers' /\ ParametersSuffice'
  BY <1>1, <1>2 DEF ForPrefetchers, SinglePrefetcher, ParametersSuffice
<1>8. ForGuards'
  <2>1. ASSUME NEW h \in MTGuardRegistry PROVE GuardSound(h)'
    BY <1>1, <1>2, <1>4 DEF ForGuards, GuardSound
  <2> QED
    BY <1>3, <1>5, <2>1 DEF ForGuards
<1>9. ForChildren'
  BY <1>1, <1>4 DEF ForChildren, ChildSound
<1>10. ForCalls'
  BY <1>1, <1>2, <1>4 DEF ForCalls, CallSound
<1>11. OneInLock'
  <2>1. \A u \in AllThreads : inside[u] # None => inside[u].guard \in MTGuardRegistry
    BY DEF ForCalls, CallSound
  <2> QED
    BY <1>1, <1>4, <2>1 DEF OneInLock, Locked
<1> QED
  BY <1>6, <1>7, <1>8, <1>9, <1>10, <1>11

(* A guard that goes is nobody's child, and nobody is inside. *)
LEMMA UnRegisterKeeps ==
  ASSUME IInv, NEW g \in Guards, UnRegister(g)
  PROVE  IInv'
<1> USE DEF IInv
<1>1. /\ UNCHANGED <<prefetcher, nThreads, child, inside, calls, crashed, history>>
      /\ guards' = [guards EXCEPT ![g] = None]
      /\ \A p \in Prefetchers : g \notin child[p]
      /\ \A t \in Threads : inside[t] # None => inside[t].guard # g
  BY DEF UnRegister
<1>2. Active' = Active /\ Threads' = Threads
  BY <1>1 DEF Active, Threads, WorkersOf
<1>3. MTGuardRegistry' = MTGuardRegistry \ {g} /\ \A h \in Guards \ {g} : guards'[h] = guards[h]
  BY <1>1 DEF Typed, MTGuardRegistry
<1>4. \A u \in AllThreads : inside[u] # None => inside[u].guard \in MTGuardRegistry \ {g}
  BY <1>1 DEF ForCalls, CallSound
<1>5. MTGuardRegistry \subseteq Guards
  BY DEF MTGuardRegistry
<1>6. Typed'
  BY <1>1 DEF Typed
<1>7. ForPrefetchers' /\ ParametersSuffice'
  BY <1>1, <1>2 DEF ForPrefetchers, SinglePrefetcher, ParametersSuffice
<1>8. ForGuards'
  BY <1>1, <1>2, <1>3, <1>5 DEF ForGuards, GuardSound
<1>9. ForChildren'
  BY <1>1, <1>3, <1>5 DEF ForChildren, ChildSound
<1>10. ForCalls'
  BY <1>1, <1>2, <1>3, <1>4, <1>5 DEF ForCalls, CallSound
<1>11. OneInLock'
  BY <1>1, <1>3, <1>4, <1>5 DEF OneInLock, Locked
<1> QED
  BY <1>6, <1>7, <1>8, <1>9, <1>10, <1>11

(* SetPrefetcher gives every guard what the new Prefetcher's threads need, *)
(* and there are no others inside by then.                                 *)
LEMMA CreateKeeps ==
  ASSUME IInv, NEW p \in Prefetchers, NEW n \in ThreadCounts, NEW S \in SUBSET Guards,
         CreatePrefetcher(p, n, S)
  PROVE  IInv'
<1> USE DEF IInv
<1>1. /\ prefetcher = None /\ prefetcher' = p /\ nThreads[p] = 0
      /\ nThreads' = [nThreads EXCEPT ![p] = n] /\ child' = [child EXCEPT ![p] = S]
      /\ S \subseteq {g \in MTGuardRegistry : guards[g].owner = Host}
      /\ history' = [history EXCEPT !.counts = @ \cup {n}, !.together = @ \/ Active # {}]
      /\ inside' = inside /\ inside[Host] = None /\ ~crashed
  BY DEF CreatePrefetcher, PrefetchCall
<1>2. /\ n \in Nat \ {0} /\ 1 + n \in Nat \ {0}
      /\ SetPrefetcher(1 + n)
  BY MtGuardsAssumption DEF CreatePrefetcher, TotalThreads
<1>3. /\ history'.refused = history.refused /\ history'.counts = history.counts \cup {n}
      /\ history'.together = (history.together \/ Active # {})
  BY <1>1 DEF Typed
<1>4. ~history'.together => ~history.together /\ Active = {}
  BY <1>3
<1>5. Active' = Active \cup {p}
  BY <1>1, <1>2 DEF Active, Typed
<1>6. Threads \subseteq Threads'
  <2>1. \A q \in Prefetchers : WorkersOf(q) \subseteq WorkersOf(q)'
    BY <1>1 DEF WorkersOf, Typed
  <2> QED
    BY <2>1 DEF Threads
<1>7. ASSUME NEW g \in MTGuardRegistry
      PROVE  /\ guards'[g] \in MTGuard
             /\ guards'[g].mode = guards[g].mode /\ guards'[g].owner = guards[g].owner
             /\ guards'[g].nThreads = 1 + n
             /\ guards[g].mode = "serialized" => guards'[g].FilterMutex > 0
             /\ guards[g].mode = "multi_instance" => guards'[g].instances >= 1 + n
  <2>1. guards[g] \in MTGuard /\ guards'[g] = EnableMT(guards[g], 1 + n)
    BY <1>2 DEF MTGuardRegistry, Typed, SetPrefetcher
  <2> QED
    BY <1>2, <2>1, EnableMTSound
<1>8. MTGuardRegistry' = MTGuardRegistry
  <2>1. \A g \in Guards \ MTGuardRegistry : guards'[g] = None
    BY <1>2 DEF MTGuardRegistry, SetPrefetcher
  <2> QED
    BY <1>7, <2>1, MtGuardsAssumption DEF MTGuardRegistry
<1>9. Typed'
  <2>1. guards' \in [Guards -> MTGuard \cup {None}]
    <3>1. \A g \in Guards : guards'[g] \in MTGuard \cup {None}
      BY <1>2, <1>7 DEF MTGuardRegistry, SetPrefetcher
    <3> QED
      BY <1>2, <3>1 DEF SetPrefetcher
  <2>2. crashed' \in BOOLEAN
    BY <1>2 DEF SetPrefetcher
  <2>3. (history.together \/ Active # {}) \in BOOLEAN
    OBVIOUS
  <2>4. history' \in [refused: BOOLEAN, together: BOOLEAN, counts: SUBSET ThreadCounts]
    BY <1>1, <2>3 DEF Typed
  <2> QED
    BY <1>1, <2>1, <2>2, <2>4 DEF Typed
<1>10. ForPrefetchers'
  <2>1. \A q \in Prefetchers : nThreads'[q] \in {0} \cup history'.counts
    BY <1>1, <1>3 DEF ForPrefetchers, Typed
  <2>2. nThreads'[prefetcher'] # 0
    BY <1>1, <1>2 DEF Typed
  <2>3. SinglePrefetcher'
    BY <1>1, <1>3, <1>5, MtGuardsAssumption DEF ForPrefetchers, SinglePrefetcher
  <2> QED
    BY <1>4, <1>5, <2>1, <2>2, <2>3 DEF ForPrefetchers
<1>11. ForGuards'
  <2> SUFFICES ASSUME NEW g \in MTGuardRegistry PROVE GuardSound(g)'
    BY <1>8 DEF ForGuards
  <2>1. guards[g].owner \in Threads /\ guards'[g].instances \in Nat
    BY <1>7 DEF ForGuards, GuardSound, MTGuard
  <2>2. ~history'.together => \A q \in Active' : nThreads'[q] = n
    BY <1>1, <1>4, <1>5 DEF Typed
  <2> QED
    BY <1>2, <1>3, <1>6, <1>7, <2>1, <2>2 DEF GuardSound
<1>12. ForChildren'
  <2>1. \A q \in Prefetchers : \A g \in child'[q] : g \in MTGuardRegistry /\ guards[g].owner = Host
    BY <1>1 DEF ForChildren, ChildSound, Typed
  <2> QED
    BY <1>2, <1>7, <1>8, <2>1 DEF ForChildren, ChildSound
<1>13. ASSUME NEW t \in AllThreads, inside[t] # None, ~history'.together PROVE FALSE
  <2>1. t \in Threads /\ t # Host
    BY <1>1, <1>13 DEF ForCalls, CallSound
  <2>2. PICK q \in Prefetchers : \E i \in 1 .. nThreads[q] : t = <<q, i>>
    BY <2>1, ThreadShape
  <2>3. q \in Active
    BY <2>2 DEF Active
  <2> QED
    BY <1>4, <1>13, <2>3
<1>14. ForCalls'
  BY <1>1, <1>6, <1>7, <1>8, <1>13 DEF ForCalls, CallSound
<1>15. OneInLock'
  BY <1>1, <1>13 DEF OneInLock
<1>16. ParametersSuffice'
  <2> SUFFICES ASSUME crashed' PROVE \E m, k \in history'.counts : m < k
    BY DEF ParametersSuffice
  <2>1. PICK g \in MTGuardRegistry : NeedsCtor(guards[g], 1 + n) /\ ~guards[g].FilterCtor
    BY <1>2 DEF SetPrefetcher
  <2>2. guards[g].instances < 1 + n /\ guards[g].instances \in Nat
    BY <2>1 DEF NeedsCtor, Typed, MTGuardRegistry, MTGuard
  <2>3. PICK m \in history.counts : guards[g].instances >= 1 + m
    BY <2>1 DEF NeedsCtor, ForGuards, GuardSound
  <2>4. m \in Nat
    BY MtGuardsAssumption DEF Typed
  <2>5. m < n
    BY <1>2, <2>2, <2>3, <2>4
  <2>6. m \in history'.counts /\ n \in history'.counts
    BY <1>3
  <2> QED
    BY <2>5, <2>6
<1> QED
  BY <1>9, <1>10, <1>11, <1>12, <1>14, <1>15, <1>16

(* A Prefetch that fails half-way leaves some guards enabled, and one with *)
(* its parameters still, but no workers that would need them.              *)
LEMMA EnableFailsKeeps ==
  ASSUME IInv, NEW p \in Prefetchers, NEW n \in ThreadCounts, NEW f \in Guards,
         NEW E \in SUBSET Guards, EnableFails(p, n, f, E)
  PROVE  IInv'
<1> USE DEF IInv
<1>1. /\ prefetcher = None
      /\ UNCHANGED <<prefetcher, nThreads, child, inside, crashed>>
      /\ history' = [history EXCEPT !.counts = @ \cup {n}, !.together = @ \/ Active # {}]
      /\ inside[Host] = None
      /\ f \in MTGuardRegistry /\ E \subseteq MTGuardRegistry \ {f}
      /\ NeedsCtor(guards[f], 1 + n) /\ guards[f].FilterCtor
  BY DEF EnableFails, PrefetchCall, TotalThreads
<1>2. n \in Nat \ {0} /\ 1 + n \in Nat \ {0}
  BY MtGuardsAssumption
<1>3. PICK made \in guards[f].instances .. (1 + n) - 1 :
        guards' = [h \in Guards |->
          IF h = f THEN [guards[f] EXCEPT !.nThreads = 1 + n, !.instances = made]
          ELSE IF h \in E THEN EnableMT(guards[h], 1 + n) ELSE guards[h]]
  BY DEF EnableFails, TotalThreads
<1>4. /\ history'.refused = history.refused /\ history'.counts = history.counts \cup {n}
      /\ history'.together = (history.together \/ Active # {})
  BY <1>1 DEF Typed
<1>5. ~history'.together => ~history.together /\ Active = {}
  BY <1>4
<1>6. Active' = Active /\ Threads' = Threads
  BY <1>1 DEF Active, Threads, WorkersOf
<1>7. /\ guards'[f] \in MTGuard /\ guards'[f].nThreads = 1 + n /\ guards'[f].FilterCtor
      /\ guards[f].mode = "multi_instance" /\ guards'[f].mode = guards[f].mode
      /\ guards'[f].owner = guards[f].owner
  <2>1. guards[f] \in MTGuard /\ guards[f].instances \in Nat \ {0}
    BY <1>1 DEF MTGuardRegistry, Typed, MTGuard
  <2>2. made \in Nat \ {0}
    BY <1>2, <1>3, <2>1
  <2>3. guards'[f] = [guards[f] EXCEPT !.nThreads = 1 + n, !.instances = made]
    BY <1>3
  <2> QED
    BY <1>1, <1>2, <2>1, <2>2, <2>3 DEF NeedsCtor, MTGuard
<1>8. ASSUME NEW g \in E
      PROVE  /\ guards'[g] \in MTGuard
             /\ guards'[g].mode = guards[g].mode /\ guards'[g].owner = guards[g].owner
             /\ guards'[g].nThreads = 1 + n /\ ~guards'[g].FilterCtor
             /\ guards[g].mode = "serialized" => guards'[g].FilterMutex > 0
             /\ guards[g].mode = "multi_instance" => guards'[g].instances >= 1 + n
  <2>1. guards[g] \in MTGuard /\ guards'[g] = EnableMT(guards[g], 1 + n)
    BY <1>1, <1>3 DEF MTGuardRegistry, Typed
  <2> QED
    BY <1>2, <2>1, EnableMTSound
<1>9. \A g \in Guards : g # f /\ g \notin E => guards'[g] = guards[g]
  BY <1>3
<1>10. MTGuardRegistry' = MTGuardRegistry
  <2>1. guards'[f] # None /\ \A g \in E : guards'[g] # None
    BY <1>7, <1>8, MtGuardsAssumption
  <2> QED
    BY <1>1, <1>9, <2>1 DEF MTGuardRegistry
<1>11. \A g \in MTGuardRegistry :
         /\ guards'[g].mode = guards[g].mode /\ guards'[g].owner = guards[g].owner
         /\ guards[g].nThreads > 1 => guards'[g].nThreads > 1
  BY <1>2, <1>7, <1>8, <1>9 DEF MTGuardRegistry
<1>12. Typed'
  <2>1. \A g \in Guards : guards'[g] \in MTGuard \cup {None}
    BY <1>7, <1>8, <1>9 DEF Typed
  <2>2. guards' \in [Guards -> MTGuard \cup {None}]
    BY <1>3, <2>1
  <2>3. (history.together \/ Active # {}) \in BOOLEAN
    OBVIOUS
  <2>4. history' \in [refused: BOOLEAN, together: BOOLEAN, counts: SUBSET ThreadCounts]
    BY <1>1, <2>3 DEF Typed
  <2> QED
    BY <1>1, <2>2, <2>4 DEF Typed
<1>13. ForPrefetchers'
  BY <1>1, <1>4, <1>5, <1>6 DEF ForPrefetchers, SinglePrefetcher
<1>14. ForGuards'
  <2> SUFFICES ASSUME NEW g \in MTGuardRegistry PROVE GuardSound(g)'
    BY <1>10 DEF ForGuards
  <2>1. guards'[g].owner \in Threads'
    BY <1>6, <1>11 DEF ForGuards, GuardSound
  <2>2. CASE g = f
    BY <1>5, <1>6, <1>7, <2>1, <2>2 DEF GuardSound
  <2>3. CASE g \in E
    BY <1>2, <1>4, <1>5, <1>6, <1>8, <2>1, <2>3 DEF GuardSound
  <2>4. CASE g # f /\ g \notin E
    <3>1. guards'[g] = guards[g] /\ GuardSound(g)
      BY <1>9, <2>4 DEF MTGuardRegistry, ForGuards
    <3> QED
      BY <1>1, <1>4, <1>5, <1>6, <2>1, <3>1 DEF GuardSound
  <2> QED
    BY <2>2, <2>3, <2>4
<1>15. ForChildren'
  BY <1>1, <1>10, <1>11 DEF ForChildren, ChildSound
<1>16. ASSUME NEW t \in AllThreads, inside[t] # None, ~history'.together PROVE FALSE
  <2>1. t \in Threads /\ t # Host
    BY <1>1, <1>16 DEF ForCalls, CallSound
  <2>2. PICK q \in Prefetchers : \E i \in 1 .. nThreads[q] : t = <<q, i>>
    BY <2>1, ThreadShape
  <2>3. q \in Active
    BY <2>2 DEF Active
  <2> QED
    BY <1>5, <1>16, <2>3
<1>17. ForCalls' /\ OneInLock'
  BY <1>1, <1>6, <1>10, <1>11, <1>16 DEF ForCalls, CallSound, OneInLock
<1>18. ParametersSuffice'
  BY <1>1, <1>4 DEF ParametersSuffice
<1> QED
  BY <1>12, <1>13, <1>14, <1>15, <1>17, <1>18

(* A Prefetch that is refused makes the environment forget the active one. *)
LEMMA CreateFailsKeeps ==
  ASSUME IInv, NEW p \in Prefetchers, CreateFails(p)
  PROVE  IInv'
<1> USE DEF IInv
<1>1. /\ UNCHANGED <<nThreads, child, guards, inside, crashed>> /\ prefetcher' = None
      /\ history' = [history EXCEPT !.refused = TRUE]
  BY DEF CreateFails
<1>2. /\ history'.refused /\ history'.counts = history.counts
      /\ history'.together = history.together
  BY <1>1 DEF Typed
<1>3. Active' = Active /\ Threads' = Threads /\ MTGuardRegistry' = MTGuardRegistry
  BY <1>1 DEF Active, Threads, WorkersOf, MTGuardRegistry
<1>4. Typed'
  BY <1>1 DEF Typed
<1>5. ForPrefetchers'
  BY <1>1, <1>2, <1>3 DEF ForPrefetchers, SinglePrefetcher
<1>6. ForGuards'
  BY <1>1, <1>2, <1>3 DEF ForGuards, GuardSound
<1>7. ForChildren' /\ ForCalls'
  BY <1>1, <1>2, <1>3 DEF ForChildren, ChildSound, ForCalls, CallSound
<1>8. OneInLock' /\ ParametersSuffice'
  BY <1>1, <1>2 DEF OneInLock, Locked, ParametersSuffice
<1> QED
  BY <1>4, <1>5, <1>6, <1>7, <1>8

(* The workers end outside of every guard, and take their own along. *)
LEMMA DestroyKeeps ==
  ASSUME IInv, NEW p \in Prefetchers, Destroy(p)
  PROVE  IInv'
<1> USE DEF IInv
<1>1. /\ UNCHANGED <<inside, crashed, history>> /\ prefetcher' = None /\ nThreads[p] # 0
      /\ nThreads' = [nThreads EXCEPT ![p] = 0] /\ child' = [child EXCEPT ![p] = {}]
      /\ guards' = [g \in Guards |-> IF guards[g] # None /\ guards[g].owner \in WorkersOf(p)
                                     THEN None ELSE guards[g]]
      /\ \A t \in WorkersOf(p) : inside[t] = None
  BY DEF Destroy
<1>2. Active' = Active \ {p} /\ p \in Active
  BY <1>1 DEF Active, Typed
<1>3. Threads \ WorkersOf(p) \subseteq Threads'
  <2>1. \A q \in Prefetchers \ {p} : WorkersOf(q)' = WorkersOf(q)
    BY <1>1 DEF WorkersOf, Typed
  <2> QED
    BY <2>1 DEF Threads
<1>4. Host \notin WorkersOf(p)
  BY MtGuardsAssumption DEF Host, WorkersOf
<1>5. MTGuardRegistry' = {g \in MTGuardRegistry : guards[g].owner \notin WorkersOf(p)}
      /\ \A g \in MTGuardRegistry' : guards'[g] = guards[g]
  BY <1>1 DEF MTGuardRegistry
<1>6. Typed'
  BY <1>1 DEF Typed
<1>7. ForPrefetchers'
  BY <1>1, <1>2 DEF ForPrefetchers, SinglePrefetcher, Typed
<1>8. ForGuards'
  <2> SUFFICES ASSUME NEW g \in MTGuardRegistry' PROVE GuardSound(g)'
    BY DEF ForGuards
  <2>1. GuardSound(g) /\ guards'[g] = guards[g] /\ guards[g].owner \in Threads'
    BY <1>3, <1>5 DEF ForGuards, GuardSound
  <2>2. \A q \in Active' : q \in Active /\ nThreads'[q] = nThreads[q]
    BY <1>1, <1>2 DEF Active, Typed
  <2> QED
    BY <1>1, <2>1, <2>2 DEF GuardSound
<1>9. ForChildren'
  <2>1. \A q \in Prefetchers : child'[q] \subseteq child[q]
    BY <1>1 DEF Typed
  <2> QED
    BY <1>4, <1>5, <2>1 DEF ForChildren, ChildSound
<1>10. ASSUME NEW t \in AllThreads, inside[t] # None
       PROVE  /\ inside[t].guard \in MTGuardRegistry'
              /\ guards'[inside[t].guard] = guards[inside[t].guard]
              /\ CallSound(t)'
  <2>1. CallSound(t) /\ t \notin WorkersOf(p)
    BY <1>1, <1>10 DEF ForCalls
  <2>2. inside[t].guard \in MTGuardRegistry'
    BY <1>4, <1>5, <2>1 DEF CallSound
  <2> QED
    BY <1>1, <1>3, <1>5, <2>1, <2>2 DEF CallSound
<1>11. ForCalls' /\ OneInLock'
  BY <1>1, <1>10 DEF ForCalls, OneInLock, Locked
<1>12. ParametersSuffice'
  BY <1>1 DEF ParametersSuffice
<1> QED
  BY <1>6, <1>7, <1>8, <1>9, <1>11, <1>12

-----------------------------------------------------------------------------
(* Together. *)

(* All of it together, by induction over the steps. *)
LEMMA InvariantHolds == Spec => []IInv
<1>1. IInv /\ [Next]_vars => IInv'
  <2> SUFFICES ASSUME IInv, [Next]_vars PROVE IInv'
    OBVIOUS
  <2>1. ASSUME NEW t \in AllThreads, NEW g \in Guards,
               Enter(t, g) \/ \E mode \in Modes : Register(t, g, mode)
        PROVE  IInv'
    BY <2>1, EnterKeeps, RegisterKeeps
  <2>2. ASSUME NEW t \in AllThreads, Leave(t) PROVE IInv'
    BY <2>2, LeaveKeeps
  <2>3. ASSUME NEW g \in Guards, UnRegister(g) PROVE IInv'
    BY <2>3, UnRegisterKeeps
  <2>4. ASSUME NEW p \in Prefetchers, NEW n \in ThreadCounts, NEW S \in SUBSET Guards,
               CreatePrefetcher(p, n, S) \/ \E g \in Guards : EnableFails(p, n, g, S)
        PROVE  IInv'
    BY <2>4, CreateKeeps, EnableFailsKeeps
  <2>5. ASSUME NEW p \in Prefetchers, CreateFails(p) \/ Destroy(p) PROVE IInv'
    BY <2>5, CreateFailsKeeps, DestroyKeeps
  <2>6. CASE UNCHANGED vars
    <3>1. /\ Active' = Active /\ Threads' = Threads /\ MTGuardRegistry' = MTGuardRegistry
      BY <2>6 DEF vars, Active, Threads, WorkersOf, MTGuardRegistry
    <3> QED
      BY <2>6, <3>1 DEF IInv, vars, Typed, ForPrefetchers, SinglePrefetcher, ForGuards, GuardSound,
                        ForChildren, ChildSound, ForCalls, CallSound, OneInLock, Locked,
                        ParametersSuffice
  <2> QED
    BY <2>1, <2>2, <2>3, <2>4, <2>5, <2>6 DEF Next
<1> QED
  BY <1>1, Initially, PTL DEF Spec

(* A second Prefetcher becomes active, or an active one is forgotten, only *)
(* after a Prefetch has been refused (SetPrefetcher's exception, and the   *)
(* clean-up that follows it), however many there are.                      *)
THEOREM OneActive == Spec => []SinglePrefetcher
<1>1. IInv => SinglePrefetcher
  BY DEF IInv, ForPrefetchers
<1> QED
  BY <1>1, InvariantHolds, PTL

(* EnableMT misses the parameters it has dropped only when a Prefetcher    *)
(* has more threads than one before it.                                    *)
THEOREM MissedOnlyByMoreThreads == Spec => []ParametersSuffice
<1>1. IInv => ParametersSuffice
  BY DEF IInv
<1> QED
  BY <1>1, InvariantHolds, PTL

(* Unless two Prefetchers' workers were there together, every thread that  *)
(* MTGuard::GetFrame lets in finds an instance, and nobody else runs it.   *)
THEOREM AlonePerInstance == Spec => []EachItsInstance
<1>1. ASSUME IInv PROVE EachItsInstance
  <2> USE <1>1 DEF IInv
  <2>1. TypeOK
    <3>1. child \in [Prefetchers -> SUBSET MTGuardRegistry]
      BY DEF Typed, ForChildren, ChildSound
    <3>2. \A g \in MTGuardRegistry : guards[g] \in MTGuard
      BY DEF Typed, MTGuardRegistry
    <3>3. ASSUME NEW g \in MTGuardRegistry
          PROVE  /\ guards[g].mode \in Modes /\ guards[g].owner \in Threads
                 /\ guards[g].nThreads \in Nat \ {0} /\ guards[g].FilterMutex \in Nat
                 /\ guards[g].mode = "serialized" =>
                      (guards[g].nThreads > 1 <=> guards[g].FilterMutex > 0)
      BY <3>2 DEF ForGuards, GuardSound, MTGuard
    <3> QED
      BY <3>1, <3>3 DEF TypeOK, Typed
  <2>2. ASSUME ~history.together, NEW t \in Threads, inside[t] # None
        PROVE  /\ t \in AllThreads /\ CallSound(t)
               /\ guards[inside[t].guard] \in MTGuard
    BY <2>2, ThreadsExist DEF ForCalls, CallSound, Typed, MTGuardRegistry
  <2>3. ASSUME ~history.together, NEW t \in Threads, NEW u \in Threads, t # u,
               inside[t] # None, inside[u] # None, inside[t].guard = inside[u].guard
        PROVE  inside[t].instance # inside[u].instance
    <3> DEFINE g == inside[t].guard
    <3>1. /\ t \in AllThreads /\ CallSound(t) /\ u \in AllThreads /\ CallSound(u)
          /\ guards[g] \in MTGuard
      BY <2>2, <2>3
    <3>2. guards[g].nThreads \in Nat \ {0} /\ guards[g].mode \in Modes
      BY <3>1 DEF MTGuard
    <3>3. CASE guards[g].nThreads = 1
      BY <2>3, <3>1, <3>3 DEF CallSound
    <3>4. CASE guards[g].nThreads > 1 /\ guards[g].mode = "serialized"
      BY <2>3, <3>1, <3>4 DEF OneInLock, Locked
    <3>5. CASE guards[g].nThreads > 1 /\ guards[g].mode = "multi_instance"
      <4>1. inside[t].instance = t[2] /\ inside[u].instance = u[2]
        BY <2>3, <3>1, <3>5 DEF CallSound
      <4>2. \A p, q \in Active : p = q
        BY <2>3 DEF ForPrefetchers
      <4> QED
        BY <2>3, <4>1, <4>2, NumbersDiffer
    <3> QED
      BY <3>2, <3>3, <3>4, <3>5 DEF Modes
  <2>4. ASSUME ~history.together, NEW t \in Threads, inside[t] # None
        PROVE  inside[t].instance < guards[inside[t].guard].instances
    <3> DEFINE g == inside[t].guard
    <3>1. t \in AllThreads /\ CallSound(t) /\ guards[g] \in MTGuard /\ g \in MTGuardRegistry
      BY <2>2, <2>4 DEF CallSound
    <3>2. /\ guards[g].nThreads \in Nat \ {0} /\ guards[g].mode \in Modes
          /\ guards[g].instances \in Nat \ {0}
      BY <3>1 DEF MTGuard
    <3>3. CASE guards[g].nThreads > 1 /\ guards[g].mode = "multi_instance"
      <4>1. inside[t].instance = t[2]
        BY <2>4, <3>1, <3>3 DEF CallSound
      <4>2. CASE t = Host
        BY <3>2, <4>1, <4>2 DEF Host
      <4>3. CASE t # Host
        <5>1. PICK q \in Prefetchers : \E i \in 1 .. nThreads[q] : t = <<q, i>>
          BY <4>3, ThreadShape
        <5>2. q \in Active /\ nThreads[q] \in Nat /\ t[2] \in 1 .. nThreads[q]
          <6>1. nThreads[q] \in Nat
            BY WorkerCounts
          <6>2. t[2] \in 1 .. nThreads[q]
            BY <5>1
          <6> QED
            BY <5>1, <6>1, <6>2 DEF Active
        <5>3. guards[g].instances > nThreads[q]
          BY <2>4, <3>1, <3>3, <5>2 DEF ForGuards, GuardSound
        <5> QED
          BY <3>2, <4>1, <5>2, <5>3
      <4> QED
        BY <4>2, <4>3
    <3>4. CASE ~(guards[g].nThreads > 1 /\ guards[g].mode = "multi_instance")
      BY <2>4, <3>1, <3>2, <3>4 DEF CallSound, Modes
    <3> QED
      BY <3>3, <3>4
  <2> QED
    BY <2>1, <2>3, <2>4 DEF EachItsInstance, AloneInInstance, InstanceThere
<1> QED
  BY <1>1, InvariantHolds, PTL

-----------------------------------------------------------------------------
(* The modes: for any functions, reports, addresses and depths.            *)

(* A guard that follows what has been counted is as strict as a level.     *)
Covers(counted, level) ==
  /\ level = MT_SERIALIZED => counted.serial
  /\ level = MT_MULTI_INSTANCE => counted.multi \/ counted.serial

(* A constructor's evaluator has counted what the filters demand that are  *)
(* chained to it so far.                                                   *)
Covered(c) == Covers(c.helper, c.inner)

InvokesCovered == \A i \in DOMAIN invokes : Covered(invokes[i])

ModeInv == StackSound /\ InvokesCovered /\ ChainedAreCovered

(* Strictest finds the strictest of some modes. *)
LEMMA StrictestOfModes ==
  ASSUME NEW S
  PROVE  LET m == Strictest(S)
         IN  m \in Levels /\ m \in S \cup {MT_INVALID} /\ \A n \in S \cap StrictModes : n <= m
<1> DEFINE M == (S \cap StrictModes) \cup {MT_INVALID}
<1>1. \E m \in M : \A n \in S \cap StrictModes : n <= m
  <2> USE DEF StrictModes, MT_MULTI_INSTANCE, MT_SERIALIZED, MT_INVALID
  <2>1. CASE 3 \in S
    BY <2>1
  <2>2. CASE 3 \notin S /\ 2 \in S
    BY <2>2
  <2>3. CASE 3 \notin S /\ 2 \notin S
    BY <2>3
  <2> QED
    BY <2>1, <2>2, <2>3
<1>2. Strictest(S) \in M /\ \A n \in S \cap StrictModes : n <= Strictest(S)
  BY <1>1 DEF Strictest
<1> QED
  BY <1>2 DEF Levels

(* Of several levels, the strictest is one. *)
LEMMA StrictestLevels ==
  /\ \A i, j : Strictest({i, j}) \in Levels
  /\ \A i, j, k : Strictest({i, j, k}) \in Levels
BY StrictestOfModes

(* Both decisions of a mode end with one that can be set. *)
LEMMA InstanceModes ==
  ASSUME NEW report \in Int, NEW default \in Settable
  PROVE  GetInstanceMode(report, default) \in Settable
BY DEF GetInstanceMode, Specifies, InRange, Settable, MT_INVALID, MT_MODE_COUNT,
       MT_NICE_FILTER, MT_SPECIAL_MT

(* The mode of a filter function, and that of a clip it returns, can be    *)
(* set.                                                                    *)
LEMMA FilterModes ==
  ASSUME ModeTypeOK, NEW fn \in Functions
  PROVE  /\ GetFilterMTMode(fn) \in Settable
         /\ \A report \in Int : GetMtMode(fn, report) \in Settable
<1>1. MtMap[fn] # Nothing => MtMap[fn].mode \in Settable
  BY DEF ModeTypeOK
<1>2. GetFilterMTMode(fn) \in Settable
  BY <1>1 DEF GetFilterMTMode, ModeTypeOK
<1> QED
  BY <1>1, <1>2, InstanceModes DEF GetMtMode, Forced

(* What clips report compares with modes. *)
LEMMA ReportsAreNumbers == Reports \subseteq Int /\ Reports \cup {MT_NICE_FILTER} \subseteq Int
BY ModesAssumption DEF MT_NICE_FILTER

(* What the clips that are passed to Invoke demand is counted of them.     *)
LEMMA Demands ==
  ASSUME ModeTypeOK, NEW A \in SUBSET Live
  PROVE  /\ Demanded(A) \in Levels
         /\ \A B \in SUBSET Live : A = {a \in B : ~clip_data[a]} =>
              /\ Demanded(A) = MT_SERIALIZED => ArgumentCounts(B).serial
              /\ Demanded(A) = MT_MULTI_INSTANCE => ArgumentCounts(B).multi
<1> DEFINE M(a) == GetInstanceMode(clips[a].report, DefaultMtMode)
           S == {M(a) : a \in {b \in A : clips[b].by = "new"}}
<1>1. \A a \in A : clips[a].report \in Int
  BY ReportsAreNumbers DEF ModeTypeOK, Live
<1>2. \A a \in A : M(a) \in Settable
  BY <1>1, InstanceModes DEF ModeTypeOK
<1>4. Demanded(A) = Strictest(S)
  BY DEF Demanded
<1>5. Demanded(A) \in Levels /\ Demanded(A) \in S \cup {MT_INVALID}
  BY <1>4, StrictestOfModes
<1>6. ASSUME NEW B \in SUBSET Live, A = {a \in B : ~clip_data[a]},
             NEW m \in {MT_SERIALIZED, MT_MULTI_INSTANCE}, Demanded(A) = m
      PROVE  m \in {GetInstanceMode(r, DefaultMtMode) : r \in ReportsOf({a \in B : ~clip_data[a]})}
  <2>1. m \in S
    BY <1>5, <1>6 DEF MT_SERIALIZED, MT_MULTI_INSTANCE, MT_INVALID
  <2>2. PICK a \in A : m = M(a)
    BY <2>1
  <2>3. clips[a].report \in ReportsOf({b \in B : ~clip_data[b]})
    BY <1>6 DEF ReportsOf
  <2> QED
    BY <2>2, <2>3
<1> QED
  BY <1>5, <1>6 DEF ArgumentCounts, Counts

(* What has been counted has been counted as something. *)
LEMMA CountsTyped ==
  /\ \A S : Counts(S) \in [multi: BOOLEAN, serial: BOOLEAN]
  /\ \A x, y \in [multi: BOOLEAN, serial: BOOLEAN] :
       Accumulated(x, y) \in [multi: BOOLEAN, serial: BOOLEAN]
BY DEF Counts, Accumulated

(* An evaluator that counts more covers more. *)
LEMMA CountsCover ==
  ASSUME NEW h \in [multi: BOOLEAN, serial: BOOLEAN], NEW k \in [multi: BOOLEAN, serial: BOOLEAN],
         NEW i \in Levels, NEW j \in Levels, NEW mode \in Settable,
         Covers(h, i), Covers(k, j)
  PROVE  LET m == Strictest({i, j, mode})
             b == Accumulated(h, Accumulated(k, Counts({mode})))
         IN  m \in Levels /\ b \in [multi: BOOLEAN, serial: BOOLEAN] /\ Covers(b, m)
<1> DEFINE m == Strictest({i, j, mode})
           b == Accumulated(h, Accumulated(k, Counts({mode})))
<1>2. m \in Levels /\ m \in {i, j, mode, MT_INVALID}
  BY StrictestOfModes
<1>3. b \in [multi: BOOLEAN, serial: BOOLEAN]
  BY CountsTyped
<1>4. /\ b.serial <=> h.serial \/ k.serial \/ mode = MT_SERIALIZED
      /\ b.multi <=> h.multi \/ k.multi \/ mode = MT_MULTI_INSTANCE
  BY DEF Accumulated, Counts
<1> HIDE DEF m, b
<1>5. m = MT_SERIALIZED => b.serial
  BY <1>2, <1>4 DEF Covers, MT_SERIALIZED, MT_INVALID
<1>6. m = MT_MULTI_INSTANCE => b.multi \/ b.serial
  BY <1>2, <1>4 DEF Covers, MT_MULTI_INSTANCE, MT_SERIALIZED, MT_INVALID
<1> QED
  BY <1>2, <1>3, <1>5, <1>6 DEF Covers, m, b

(* The last constructor's evaluator is on top of the stack, and that of    *)
(* the constructor around it is the one below.                             *)
LEMMA TopOfStack ==
  ASSUME StackSound, invokes # <<>>, Last(invokes).kind = "filter"
  PROVE  LET n == Len(invokes)
             k == Len(invoke_stack)
         IN  /\ invoke_stack # <<>> /\ k >= 1 /\ invoke_stack[k] = n
             /\ k > 1 => /\ invoke_stack[k - 1] \in 1 .. (n - 1)
                         /\ invoke_stack[k - 1] = Around(n)
<1> DEFINE n == Len(invokes)
           k == Len(invoke_stack)
<1>1. /\ invokes \in Seq(Invocation) /\ invoke_stack \in Seq(Nat)
      /\ n \in Nat /\ n >= 1 /\ k \in Nat /\ DOMAIN invokes = 1 .. n /\ DOMAIN invoke_stack = 1 .. k
  BY DEF StackSound, ModeTypeOK
<1>2. /\ \A i \in 1 .. k : invoke_stack[i] \in 1 .. n /\ invokes[invoke_stack[i]].kind = "filter"
      /\ \A i \in 1 .. n : invokes[i].kind = "filter" => \E j \in 1 .. k : invoke_stack[j] = i
      /\ \A i, j \in 1 .. k : i < j => invoke_stack[i] < invoke_stack[j]
  BY <1>1 DEF StackSound, StackPointsToConstructors, ToSet
<1>3. invokes[n].kind = "filter"
  BY DEF Last
<1> HIDE DEF n, k
<1>4. PICK p \in 1 .. k : invoke_stack[p] = n
  BY <1>1, <1>2, <1>3
<1>5. p = k
  <2>1. SUFFICES ASSUME p < k PROVE FALSE
    BY <1>1, <1>4
  <2>2. invoke_stack[p] < invoke_stack[k] /\ invoke_stack[k] \in 1 .. n
    BY <1>1, <1>2, <1>4, <2>1
  <2> QED
    BY <1>1, <1>4, <2>2
<1>6. ASSUME k > 1
      PROVE  invoke_stack[k - 1] \in 1 .. (n - 1) /\ invoke_stack[k - 1] = Around(n)
  <2> DEFINE s == SubSeq(invokes, 1, n - 1)
             I == {i \in 1 .. Len(s) : s[i].kind = "filter"}
             q == invoke_stack[k - 1]
  <2>1. k - 1 \in 1 .. k /\ k - 1 < k
    BY <1>1, <1>6
  <2>2. q \in 1 .. n /\ q < n /\ invokes[q].kind = "filter"
    BY <1>1, <1>2, <1>4, <1>5, <2>1
  <2>3. Len(s) = n - 1 /\ \A i \in 1 .. (n - 1) : s[i] = invokes[i]
    BY <1>1 DEF n
  <2>4. q \in I
    BY <1>1, <2>2, <2>3, SMTT(30)
  <2>5. ASSUME NEW i \in I PROVE q >= i
    <3>1. i \in 1 .. (n - 1) /\ invokes[i].kind = "filter"
      BY <2>3
    <3>2. PICK j \in 1 .. k : invoke_stack[j] = i
      BY <1>1, <1>2, <3>1
    <3>3. j # k
      BY <1>1, <1>4, <1>5, <3>1, <3>2
    <3>4. j = k - 1 \/ j < k - 1
      BY <1>1, <3>3
    <3>5. j < k - 1 => i < q
      BY <1>2, <2>1, <3>2
    <3> QED
      BY <1>1, <2>2, <3>1, <3>2, <3>4, <3>5
  <2>6. Max(I) = q
    <3>1. \A x \in I : (\A y \in I : x >= y) => x = q
      <4>1. ASSUME NEW x \in I, \A y \in I : x >= y
            PROVE  x = q
        <5>1. x >= q /\ q >= x
          BY <2>4, <2>5, <4>1
        <5>2. x \in Nat /\ q \in Nat
          BY <1>1, <2>2, <2>3
        <5> QED
          BY <5>1, <5>2
      <4> QED
        BY <4>1
    <3> QED
      BY <2>4, <2>5, <3>1 DEF Max
  <2>7. Around(n) = (IF I # {} THEN Max(I) ELSE 0)
    BY DEF Around, SelectLastInSeq
  <2>8. Around(n) = q
    BY <2>4, <2>6, <2>7
  <2> HIDE DEF q
  <2>9. q \in 1 .. (n - 1)
    BY <1>1, <2>2
  <2> QED
    BY <2>8, <2>9 DEF q
<1>7. k >= 1 /\ invoke_stack # <<>>
  BY <1>1, <1>4, <1>5 DEF k
<1> QED
  BY <1>4, <1>5, <1>6, <1>7 DEF n, k

(* What a stack's elements are, in terms of places. *)
LEMMA StackInPlaces ==
  ASSUME NEW q \in Seq(Invocation), NEW s \in Seq(Nat)
  PROVE  ToSet(s) = {i \in DOMAIN q : q[i].kind = "filter"} <=>
           /\ \A j \in 1 .. Len(s) : s[j] \in 1 .. Len(q) /\ q[s[j]].kind = "filter"
           /\ \A i \in 1 .. Len(q) : q[i].kind = "filter" => \E j \in 1 .. Len(s) : s[j] = i
<1> DEFINE F == {i \in 1 .. Len(q) : q[i].kind = "filter"}
<1>1. DOMAIN q = 1 .. Len(q) /\ DOMAIN s = 1 .. Len(s)
  OBVIOUS
<1>2. ToSet(s) = {s[j] : j \in 1 .. Len(s)}
  BY <1>1 DEF ToSet
<1>3. ToSet(s) \subseteq F <=> \A j \in 1 .. Len(s) : s[j] \in F
  BY <1>2
<1>4. F \subseteq ToSet(s) <=> \A i \in F : \E j \in 1 .. Len(s) : s[j] = i
  BY <1>2
<1>5. ToSet(s) = F <=> ToSet(s) \subseteq F /\ F \subseteq ToSet(s)
  OBVIOUS
<1>6. (\A j \in 1 .. Len(s) : s[j] \in F) <=>
        \A j \in 1 .. Len(s) : s[j] \in 1 .. Len(q) /\ q[s[j]].kind = "filter"
  OBVIOUS
<1>7. (\A i \in F : \E j \in 1 .. Len(s) : s[j] = i) <=>
        \A i \in 1 .. Len(q) : q[i].kind = "filter" => \E j \in 1 .. Len(s) : s[j] = i
  OBVIOUS
<1>8. F = {i \in DOMAIN q : q[i].kind = "filter"}
  BY <1>1
<1> HIDE DEF F
<1> QED
  BY <1>3, <1>4, <1>5, <1>6, <1>7, <1>8

(* Stack s of length m has the constructors of the n calls q.              *)
InPlaces(q, s, n, m) ==
  /\ q \in Seq(Invocation) /\ s \in Seq(Nat) /\ Len(q) = n /\ Len(s) = m
  /\ \A j \in 1 .. m : s[j] \in 1 .. n /\ q[s[j]].kind = "filter"
  /\ \A i \in 1 .. n : q[i].kind = "filter" => \E j \in 1 .. m : s[j] = i

(* So a stack with exactly those places points to the constructors. *)
LEMMA StackFromPlaces ==
  ASSUME NEW q, NEW s, NEW n, NEW m, InPlaces(q, s, n, m)
  PROVE  ToSet(s) = {i \in DOMAIN q : q[i].kind = "filter"}
BY StackInPlaces DEF InPlaces

(* The numbers up to the next. *)
LEMMA OneMore ==
  ASSUME NEW n \in Nat, NEW i \in 1 .. (n + 1)
  PROVE  i = n + 1 \/ (i \in 1 .. n /\ i < n + 1)
OBVIOUS

(* Whichever way a constructor ends, its evaluator leaves the stack.       *)
LEMMA StackPopped ==
  ASSUME StackSound, invokes # <<>>, invokes' \in Seq(Invocation), Len(invokes') = Len(invokes) - 1,
         \A i \in 1 .. (Len(invokes) - 1) : invokes'[i].kind = invokes[i].kind,
         invoke_stack' = Popped
  PROVE  invoke_stack' \in Seq(Nat) /\ StackPointsToConstructors'
<1> DEFINE n == Len(invokes)
           k == Len(invoke_stack)
           last == invokes[n].kind = "filter"
<1>0. n \in Nat /\ n >= 1 /\ k \in Nat
  BY DEF StackSound, ModeTypeOK
<1>1. /\ invokes \in Seq(Invocation) /\ invoke_stack \in Seq(Nat)
      /\ DOMAIN invoke_stack = 1 .. k
  BY DEF StackSound, ModeTypeOK
<1>2. /\ \A j \in 1 .. k : invoke_stack[j] \in 1 .. n /\ invokes[invoke_stack[j]].kind = "filter"
      /\ \A i \in 1 .. n : invokes[i].kind = "filter" => \E j \in 1 .. k : invoke_stack[j] = i
      /\ \A i, j \in 1 .. k : i < j => invoke_stack[i] < invoke_stack[j]
  BY <1>1, StackInPlaces DEF StackSound, StackPointsToConstructors
<1>3. last => k >= 1 /\ invoke_stack[k] = n
  BY TopOfStack DEF Last
<1>4. Last(invokes).kind = "filter" <=> last
  BY DEF Last
<1> DEFINE m == IF last THEN k - 1 ELSE k
<1>5. m \in Nat /\ m <= k
  BY <1>0, <1>3
<1>6. /\ invoke_stack' \in Seq(Nat) /\ Len(invoke_stack') = m
      /\ \A j \in 1 .. m : invoke_stack'[j] = invoke_stack[j]
  <2>1. CASE last
    <3>1. invoke_stack' = SubSeq(invoke_stack, 1, k - 1)
      BY <1>4, <2>1 DEF Popped, Front
    <3>2. k - 1 <= k /\ m = k - 1
      BY <1>0, <2>1
    <3> HIDE DEF k, m, last
    <3>3. invoke_stack' \in Seq(Nat) /\ Len(invoke_stack') = k - 1
      BY <1>0, <1>1, <1>3, <2>1, <3>1 DEF k
    <3>4. \A j \in 1 .. (k - 1) : invoke_stack'[j] = invoke_stack[j]
      BY <1>0, <1>1, <1>3, <2>1, <3>1 DEF k
    <3> QED
      BY <3>2, <3>3, <3>4
  <2>2. CASE ~last
    BY <1>1, <1>4, <2>2 DEF Popped
  <2> QED
    BY <2>1, <2>2
<1>7. \A j \in 1 .. m : invoke_stack[j] < n
  <2> SUFFICES ASSUME NEW j \in 1 .. m PROVE invoke_stack[j] < n
    OBVIOUS
  <2>1. j \in 1 .. k /\ invoke_stack[j] \in 1 .. n /\ invokes[invoke_stack[j]].kind = "filter"
    BY <1>0, <1>2, <1>5
  <2>2. CASE last
    <3>1. k \in 1 .. k /\ j < k
      BY <1>0, <1>3, <2>2
    <3> QED
      BY <1>2, <1>3, <2>1, <2>2, <3>1
  <2>3. CASE ~last
    BY <1>0, <2>1, <2>3
  <2> QED
    BY <2>2, <2>3
<1>8. \A i \in 1 .. (n - 1) : invokes[i].kind = "filter" => \E j \in 1 .. m : invoke_stack[j] = i
  <2> SUFFICES ASSUME NEW i \in 1 .. (n - 1), invokes[i].kind = "filter"
               PROVE  \E j \in 1 .. m : invoke_stack[j] = i
    OBVIOUS
  <2>1. PICK j \in 1 .. k : invoke_stack[j] = i
    BY <1>1, <1>2
  <2>2. last => j # k
    BY <1>0, <1>3, <2>1
  <2>3. j \in 1 .. m
    BY <1>0, <2>2
  <2> QED
    BY <2>1, <2>3
<1> HIDE DEF n, k, m, last
<1>9. Len(invokes') = n - 1
  BY DEF n
<1>10. /\ \A j \in 1 .. m : invoke_stack[j] \in 1 .. (n - 1)
       /\ \A j \in 1 .. m : invokes[invoke_stack[j]].kind = "filter"
       /\ \A i, j \in 1 .. m : i < j => invoke_stack[i] < invoke_stack[j]
  BY <1>0, <1>2, <1>5, <1>7
<1>11. \A i \in 1 .. (n - 1) : invokes'[i].kind = invokes[i].kind
  BY DEF n
<1>12. /\ \A j \in 1 .. m : invoke_stack'[j] \in 1 .. (n - 1) /\ invokes'[invoke_stack'[j]].kind = "filter"
       /\ \A i \in 1 .. (n - 1) : invokes'[i].kind = "filter" => \E j \in 1 .. m : invoke_stack'[j] = i
       /\ \A i, j \in 1 .. m : i < j => invoke_stack'[i] < invoke_stack'[j]
  <2>1. \A j \in 1 .. m : invoke_stack'[j] \in 1 .. (n - 1) /\ invokes'[invoke_stack'[j]].kind = "filter"
    BY <1>6, <1>10, <1>11, SMTT(30)
  <2>2. \A i \in 1 .. (n - 1) : invokes'[i].kind = "filter" => \E j \in 1 .. m : invoke_stack'[j] = i
    BY <1>6, <1>8, <1>11, SMTT(30)
  <2>3. \A i, j \in 1 .. m : i < j => invoke_stack'[i] < invoke_stack'[j]
    BY <1>6, <1>10
  <2> QED
    BY <2>1, <2>2, <2>3
<1>13. ToSet(invoke_stack') = {i \in DOMAIN invokes' : invokes'[i].kind = "filter"}
  <2>1. InPlaces(invokes', invoke_stack', n - 1, m)
    BY <1>6, <1>9, <1>12 DEF InPlaces
  <2> QED
    BY <2>1, StackFromPlaces
<1>14. DOMAIN invoke_stack' = 1 .. m
  BY <1>6
<1> QED
  BY <1>6, <1>12, <1>13, <1>14 DEF StackPointsToConstructors

(* The evaluator of a constructor that begins goes on top. *)
LEMMA StackPushed ==
  ASSUME StackSound, NEW c \in Invocation, invokes' = Append(invokes, c),
         invoke_stack' = IF c.kind = "filter" THEN Append(invoke_stack, Len(invokes) + 1)
                         ELSE invoke_stack
  PROVE  /\ invoke_stack' \in Seq(Nat) /\ StackPointsToConstructors'
<1> DEFINE n == Len(invokes)
           k == Len(invoke_stack)
           new == c.kind = "filter"
<1>0. n \in Nat /\ k \in Nat
  BY DEF StackSound, ModeTypeOK
<1>1. /\ invokes \in Seq(Invocation) /\ invoke_stack \in Seq(Nat)
      /\ DOMAIN invoke_stack = 1 .. k
  BY DEF StackSound, ModeTypeOK
<1>2. /\ \A j \in 1 .. k : invoke_stack[j] \in 1 .. n /\ invokes[invoke_stack[j]].kind = "filter"
      /\ \A i \in 1 .. n : invokes[i].kind = "filter" => \E j \in 1 .. k : invoke_stack[j] = i
      /\ \A i, j \in 1 .. k : i < j => invoke_stack[i] < invoke_stack[j]
  BY <1>1, StackInPlaces DEF StackSound, StackPointsToConstructors
<1>3. /\ invokes' \in Seq(Invocation) /\ Len(invokes') = n + 1
      /\ \A i \in 1 .. n : invokes'[i] = invokes[i]
      /\ invokes'[n + 1] = c
  BY <1>1
<1>4. CASE new
  <2>1. /\ invoke_stack' \in Seq(Nat) /\ Len(invoke_stack') = k + 1
        /\ \A j \in 1 .. k : invoke_stack'[j] = invoke_stack[j]
        /\ invoke_stack'[k + 1] = n + 1
    BY <1>1, <1>4
  <2>2. invokes'[n + 1].kind = "filter"
    BY <1>3, <1>4
  <2> HIDE DEF n, k, new
  <2>3. \A j \in 1 .. (k + 1) :
          invoke_stack'[j] \in 1 .. (n + 1) /\ invokes'[invoke_stack'[j]].kind = "filter"
    <3> SUFFICES ASSUME NEW j \in 1 .. (k + 1)
                 PROVE  invoke_stack'[j] \in 1 .. (n + 1) /\ invokes'[invoke_stack'[j]].kind = "filter"
      OBVIOUS
    <3>1. CASE j = k + 1
      <4>1. n + 1 \in 1 .. (n + 1)
        BY <1>0
      <4> QED
        BY <2>1, <2>2, <3>1, <4>1
    <3>2. CASE j \in 1 .. k
      BY <1>0, <1>2, <1>3, <2>1, <3>2
    <3> QED
      BY <1>0, <3>1, <3>2, OneMore
  <2>4. \A i \in 1 .. (n + 1) : invokes'[i].kind = "filter" =>
          \E j \in 1 .. (k + 1) : invoke_stack'[j] = i
    <3> SUFFICES ASSUME NEW i \in 1 .. (n + 1), invokes'[i].kind = "filter"
                 PROVE  \E j \in 1 .. (k + 1) : invoke_stack'[j] = i
      OBVIOUS
    <3>1. CASE i = n + 1
      BY <1>0, <2>1, <3>1
    <3>2. CASE i \in 1 .. n
      <4>1. PICK j \in 1 .. k : invoke_stack[j] = i
        BY <1>2, <1>3, <3>2
      <4>2. j \in 1 .. (k + 1) /\ invoke_stack'[j] = i
        BY <1>0, <2>1, <4>1
      <4> QED
        BY <4>2
    <3> QED
      BY <1>0, <3>1, <3>2, OneMore
  <2>5. \A i, j \in 1 .. (k + 1) : i < j => invoke_stack'[i] < invoke_stack'[j]
    <3> SUFFICES ASSUME NEW i \in 1 .. (k + 1), NEW j \in 1 .. (k + 1), i < j
                 PROVE  invoke_stack'[i] < invoke_stack'[j]
      OBVIOUS
    <3>1. i \in 1 .. k
      BY <1>0
    <3>2. CASE j = k + 1
      BY <1>0, <1>2, <2>1, <3>1, <3>2
    <3>3. CASE j \in 1 .. k
      BY <1>2, <2>1, <3>1, <3>3
    <3> QED
      BY <1>0, <3>2, <3>3, OneMore
  <2>6. ToSet(invoke_stack') = {i \in DOMAIN invokes' : invokes'[i].kind = "filter"}
    <3>1. InPlaces(invokes', invoke_stack', n + 1, k + 1)
      BY <1>3, <2>1, <2>3, <2>4 DEF InPlaces
    <3> QED
      BY <3>1, StackFromPlaces
  <2>7. DOMAIN invoke_stack' = 1 .. (k + 1)
    BY <2>1
  <2> QED
    BY <2>1, <2>5, <2>6, <2>7 DEF StackPointsToConstructors
<1>5. CASE ~new
  <2>1. invoke_stack' = invoke_stack
    BY <1>5
  <2>2. invokes'[n + 1].kind # "filter"
    BY <1>3, <1>5
  <2> HIDE DEF n, new
  <2>3. \A j \in 1 .. k :
          invoke_stack[j] \in 1 .. (n + 1) /\ invokes'[invoke_stack[j]].kind = "filter"
    BY <1>0, <1>2, <1>3
  <2>4. \A i \in 1 .. (n + 1) : invokes'[i].kind = "filter" => \E j \in 1 .. k : invoke_stack[j] = i
    <3> SUFFICES ASSUME NEW i \in 1 .. (n + 1), invokes'[i].kind = "filter"
                 PROVE  \E j \in 1 .. k : invoke_stack[j] = i
      OBVIOUS
    <3>1. i \in 1 .. n
      BY <1>0, <2>2, OneMore
    <3> QED
      BY <1>2, <1>3, <3>1
  <2>5. ToSet(invoke_stack') = {i \in DOMAIN invokes' : invokes'[i].kind = "filter"}
    <3>1. InPlaces(invokes', invoke_stack', n + 1, k)
      BY <1>1, <1>3, <2>1, <2>3, <2>4 DEF InPlaces, k
    <3> QED
      BY <3>1, StackFromPlaces
  <2> QED
    BY <1>1, <1>2, <2>1, <2>5 DEF StackPointsToConstructors
<1> QED
  BY <1>4, <1>5

-----------------------------------------------------------------------------
(* The steps. *)

(* At first no constructor runs. *)
LEMMA ModesBegin == ModeInit => ModeInv
<1> SUFFICES ASSUME ModeInit PROVE ModeInv
  OBVIOUS
<1> USE DEF ModeInit
<1>1. ModeTypeOK
  BY ModesAssumption DEF ModeTypeOK, Settable, MT_NICE_FILTER, MT_MULTI_INSTANCE, MT_SPECIAL_MT
<1>2. StackPointsToConstructors
  BY DEF StackPointsToConstructors, ToSet
<1> QED
  BY <1>1, <1>2 DEF ModeInv, StackSound, InvokesCovered, ChainedAreCovered

(* What needs no look at the calls in progress. *)
LEMMA CallsUntouched ==
  ASSUME ModeInv, ModeTypeOK', UNCHANGED <<invokes, invoke_stack>>, wrapped' = Nothing
  PROVE  ModeInv'
BY DEF ModeInv, StackSound, StackPointsToConstructors, InvokesCovered, ChainedAreCovered, ToSet

(* Steps of others leave the modes alone. *)
LEMMA ModesUntouched ==
  ASSUME ModeInv, UNCHANGED modeVars
  PROVE  ModeInv'
BY DEF modeVars, settingVars, ModeInv, ModeTypeOK, StackSound, StackPointsToConstructors,
       InvokesCovered, ChainedAreCovered, GuardMode, ToSet

(* Setting modes touches no call in progress. *)
LEMMA ModesSet ==
  ASSUME ModeInv, NEW mode \in MT_INVALID .. MT_MODE_COUNT,
         \/ \E fn \in Functions, w \in Weights : SetFilterMTMode(fn, mode, w)
         \/ SetDefaultMtMode(mode)
  PROVE  ModeInv'
<1> USE DEF Setting
<1>1. mode \in Settable
  BY DEF SetFilterMTMode, SetDefaultMtMode, InRange, Settable, MT_INVALID, MT_MODE_COUNT,
         MT_NICE_FILTER, MT_SPECIAL_MT
<1>2. ModeTypeOK
  BY DEF ModeInv, StackSound
<1>3. MtMap' \in [Functions -> [mode: Settable, weight: Weights] \cup {Nothing}]
  <2>1. MtMap \in [Functions -> [mode: Settable, weight: Weights] \cup {Nothing}]
    BY <1>2 DEF ModeTypeOK
  <2>2. ASSUME NEW fn \in Functions, NEW w \in Weights, SetFilterMTMode(fn, mode, w)
        PROVE  MtMap' = MtMap \/ MtMap' = [MtMap EXCEPT ![fn] = [mode |-> mode, weight |-> w]]
    BY <2>2 DEF SetFilterMTMode
  <2>3. SetDefaultMtMode(mode) => MtMap' = MtMap
    BY DEF SetDefaultMtMode
  <2> QED
    BY <1>1, <2>1, <2>2, <2>3
<1>4. DefaultMtMode' \in Settable
  BY <1>1, <1>2 DEF SetFilterMTMode, SetDefaultMtMode, ModeTypeOK
<1>5. settings' \in 0 .. MaxSettings
  BY <1>2, ModesAssumption DEF SetFilterMTMode, SetDefaultMtMode, ModeTypeOK
<1>6. UNCHANGED <<invokes, invoke_stack, clips, clip_data>> /\ wrapped' = Nothing
  BY DEF SetFilterMTMode, SetDefaultMtMode
<1>7. ModeTypeOK'
  BY <1>2, <1>3, <1>4, <1>5, <1>6 DEF ModeTypeOK
<1> QED
  BY <1>6, <1>7, CallsUntouched

(* Neither does a clip that comes or goes without Invoke. *)
LEMMA ModesClips ==
  ASSUME ModeInv, NEW a \in Addresses, (\E r \in Reports : NewClip(a, r)) \/ Release(a)
  PROVE  ModeInv'
<1>1. ModeTypeOK
  BY DEF ModeInv, StackSound
<1>2. clips' \in [Addresses -> [report: Reports \cup {MT_NICE_FILTER}, by: {"new", "invoke"}]
                               \cup {Nothing}]
  BY <1>1 DEF NewClip, Release, ModeTypeOK
<1>3. UNCHANGED <<settingVars, invokes, invoke_stack, clip_data>> /\ wrapped' = Nothing
  BY DEF NewClip, Release
<1>4. ModeTypeOK'
  BY <1>1, <1>2, <1>3 DEF ModeTypeOK, settingVars
<1> QED
  BY <1>3, <1>4, CallsUntouched

(* A call begins with the modes of its clip arguments counted, and a       *)
(* constructor's evaluator goes on the stack.                              *)
LEMMA ModesBeginInvoke ==
  ASSUME ModeInv, NEW fn \in Functions, NEW A \in SUBSET Live, BeginInvoke(fn, A)
  PROVE  ModeInv'
<1> DEFINE B == {a \in A : ~clip_data[a]}
           C == {a \in A : clip_data[a]}
           c == [f |-> fn, kind |-> Kind(fn), source |-> A = {}, helper |-> ArgumentCounts(A),
                 inner |-> Demanded(B), stale |-> Demanded(C),
                 lost |-> MT_INVALID]
<1>1. ModeTypeOK /\ StackSound
  BY DEF ModeInv, StackSound
<1>2. Demanded(B) \in Levels /\ Demanded(C) \in Levels
  BY <1>1, Demands
<1>3. /\ Demanded(B) = MT_SERIALIZED => ArgumentCounts(A).serial
      /\ Demanded(B) = MT_MULTI_INSTANCE => ArgumentCounts(A).multi
  <2>1. B \in SUBSET Live
    OBVIOUS
  <2> QED
    BY <1>1, <2>1, Demands
<1>4. Kind(fn) \in {"special", "script", "filter"}
  BY DEF Kind
<1>5. ArgumentCounts(A) \in [multi: BOOLEAN, serial: BOOLEAN]
  BY CountsTyped DEF ArgumentCounts
<1>6. c \in Invocation
  BY <1>2, <1>4, <1>5 DEF Invocation, Levels
<1>7. c.kind = Kind(fn) /\ Covered(c)
  BY <1>3 DEF Covered, Covers
<1>8. invokes' = Append(invokes, c) /\ Len(invokes) < MaxDepth
  BY DEF BeginInvoke
<1> HIDE DEF B, C, c
<1>9. invoke_stack' = IF c.kind = "filter" THEN Append(invoke_stack, Len(invokes) + 1)
                      ELSE invoke_stack
  BY <1>7 DEF BeginInvoke
<1>10. UNCHANGED <<settingVars, clips, clip_data>> /\ wrapped' = Nothing
  BY DEF BeginInvoke
<1>11. invoke_stack' \in Seq(Nat) /\ StackPointsToConstructors'
  BY <1>1, <1>6, <1>8, <1>9, StackPushed
<1>12. invokes \in Seq(Invocation)
  BY <1>1 DEF ModeTypeOK
<1>13. invokes' \in Seq(Invocation) /\ Len(invokes') <= MaxDepth
  BY <1>6, <1>8, <1>12, ModesAssumption
<1>14. ModeTypeOK'
  BY <1>1, <1>10, <1>11, <1>13 DEF ModeTypeOK, settingVars
<1>15. InvokesCovered'
  <2>1. \A i \in DOMAIN invokes : Covered(invokes[i])
    BY DEF ModeInv, InvokesCovered
  <2>2. \A i \in DOMAIN invokes' : invokes'[i] = c \/ \E j \in DOMAIN invokes : invokes'[i] = invokes[j]
    BY <1>6, <1>8, <1>12
  <2> QED
    BY <1>7, <2>1, <2>2 DEF InvokesCovered
<1> QED
  BY <1>10, <1>11, <1>14, <1>15 DEF ModeInv, StackSound, ChainedAreCovered

(* What all ends of calls have in common. *)
LEMMA CallsEnd ==
  ASSUME ModeInv, invokes # <<>>
  PROVE  /\ Front(invokes) \in Seq(Invocation) /\ Len(Front(invokes)) = Len(invokes) - 1
         /\ Len(invokes) - 1 <= MaxDepth /\ Len(invokes) \in Nat
         /\ \A i \in 1 .. (Len(invokes) - 1) :
              Front(invokes)[i] = invokes[i] /\ Covered(invokes[i])
         /\ Last(invokes) \in Invocation /\ Covered(Last(invokes))
<1>1. invokes \in Seq(Invocation) /\ Len(invokes) <= MaxDepth
  BY DEF ModeInv, StackSound, ModeTypeOK
<1>2. /\ Len(invokes) \in Nat /\ Len(invokes) >= 1 /\ DOMAIN invokes = 1 .. Len(invokes)
  BY <1>1
<1>3. \A i \in 1 .. Len(invokes) : Covered(invokes[i])
  BY <1>2 DEF ModeInv, InvokesCovered
<1>4. Len(invokes) \in 1 .. Len(invokes)
  BY <1>2
<1>5. Last(invokes) \in Invocation /\ Covered(Last(invokes))
  BY <1>1, <1>3, <1>4 DEF Last
<1>6. /\ Front(invokes) \in Seq(Invocation) /\ Len(Front(invokes)) = Len(invokes) - 1
      /\ \A i \in 1 .. (Len(invokes) - 1) : Front(invokes)[i] = invokes[i]
  BY <1>1, <1>2 DEF Front
<1>7. Len(invokes) - 1 <= MaxDepth
  BY <1>1, <1>2, ModesAssumption
<1>8. \A i \in 1 .. (Len(invokes) - 1) : Covered(invokes[i])
  BY <1>2, <1>3
<1> QED
  BY <1>2, <1>5, <1>6, <1>7, <1>8

(* An evaluator that is dropped changes nothing but what the constructor   *)
(* around has lost.                                                        *)
LEMMA CallsDropped ==
  ASSUME ModeInv, invokes # <<>>
  PROVE  /\ Dropped \in Seq(Invocation) /\ Len(Dropped) = Len(invokes) - 1
         /\ DOMAIN Dropped = 1 .. (Len(invokes) - 1)
         /\ \A i \in 1 .. (Len(invokes) - 1) :
              Dropped[i].kind = invokes[i].kind /\ Covered(Dropped[i])
<1> DEFINE n == Len(invokes)
           c == Last(invokes)
           D(i) == IF i = Around(n)
                   THEN [invokes[i] EXCEPT !.stale = Strictest({@, c.stale}),
                                           !.lost = Strictest({@, c.inner, c.lost})]
                   ELSE invokes[i]
<1>1. n \in Nat /\ n >= 1 /\ invokes \in Seq(Invocation) /\ DOMAIN invokes = 1 .. n
  BY DEF ModeInv, StackSound, ModeTypeOK
<1>2. ASSUME NEW i \in 1 .. (n - 1)
      PROVE  D(i) \in Invocation /\ D(i).kind = invokes[i].kind /\ Covered(D(i))
  <2>1. invokes[i] \in Invocation /\ Covered(invokes[i])
    BY <1>1, CallsEnd
  <2>2. /\ Strictest({invokes[i].stale, c.stale}) \in Levels
        /\ Strictest({invokes[i].lost, c.inner, c.lost}) \in Levels
    BY StrictestLevels
  <2> QED
    BY <2>1, <2>2 DEF Invocation, Covered, Covers
<1>3. Dropped = [i \in 1 .. (n - 1) |-> D(i)]
  BY DEF Dropped
<1> HIDE DEF n, D
<1>4. n - 1 \in Nat
  BY <1>1
<1>5. Dropped \in Seq(Invocation) /\ Len(Dropped) = n - 1 /\ DOMAIN Dropped = 1 .. (n - 1)
  BY <1>2, <1>3, <1>4
<1>6. \A i \in 1 .. (n - 1) : Dropped[i] = D(i)
  BY <1>3
<1> QED
  BY <1>2, <1>5, <1>6 DEF n, Covered, Covers

(* A call that counts nothing at its end takes its evaluator with it. *)
LEMMA ModesEnd ==
  ASSUME ModeInv, Returns \/ Throws
  PROVE  ModeInv'
<1>1. ModeTypeOK /\ StackSound
  BY DEF ModeInv, StackSound
<1>2. /\ invokes # <<>> /\ invokes' = Dropped /\ invoke_stack' = Popped
      /\ wrapped' = Nothing /\ UNCHANGED <<settingVars, clip_data>>
  BY DEF Returns, Throws, Popped
<1>3. clips' \in [Addresses -> [report: Reports \cup {MT_NICE_FILTER}, by: {"new", "invoke"}]
                               \cup {Nothing}]
  <2>1. clips' = clips \/ \E a \in Addresses, r \in Reports : clips' = Created(a, r)
    BY DEF Returns, Throws
  <2> QED
    BY <1>1, <2>1 DEF ModeTypeOK, Created
<1>4. /\ invokes' \in Seq(Invocation) /\ Len(invokes') = Len(invokes) - 1
      /\ DOMAIN invokes' = 1 .. (Len(invokes) - 1)
      /\ \A i \in 1 .. (Len(invokes) - 1) :
           invokes'[i].kind = invokes[i].kind /\ Covered(invokes'[i])
  BY <1>2, CallsDropped DEF Covered, Covers
<1>5. Len(invokes') <= MaxDepth
  BY <1>2, <1>4, CallsEnd
<1>6. invoke_stack' \in Seq(Nat) /\ StackPointsToConstructors'
  BY <1>1, <1>2, <1>4, StackPopped
<1>7. ModeTypeOK'
  BY <1>1, <1>2, <1>3, <1>4, <1>5, <1>6 DEF ModeTypeOK, settingVars
<1>8. InvokesCovered'
  BY <1>4 DEF InvokesCovered, Covered, Covers
<1> QED
  BY <1>2, <1>6, <1>7, <1>8 DEF ModeInv, StackSound, ChainedAreCovered

(* A chained filter is counted for the constructor around it, with all     *)
(* that was chained to it.                                                 *)
LEMMA ModesReturnsChained ==
  ASSUME ModeInv, NEW a \in Addresses, NEW r \in Reports, ReturnsChained(a, r)
  PROVE  ModeInv'
<1> DEFINE n == Len(invokes)
           c == Last(invokes)
           mode == GetMtMode(c.f, r)
           top == invoke_stack[Len(invoke_stack) - 1]
           s == Front(invokes)
           e == s[top]
           helper == Accumulated(e.helper, Propagated(c, mode))
           inner == Strictest({e.inner, c.inner, mode})
           stale == Strictest({e.stale, c.stale})
           lost == Strictest({e.lost, c.lost})
           x == [e EXCEPT !.helper = helper, !.inner = inner, !.stale = stale, !.lost = lost]
<1>1. ModeTypeOK /\ StackSound
  BY DEF ModeInv, StackSound
<1>2. invokes # <<>> /\ c.kind = "filter" /\ Len(invoke_stack) > 1
  BY DEF ReturnsChained
<1>3. top \in 1 .. (n - 1) /\ Around(n) = top
  BY <1>1, <1>2, TopOfStack
<1>4. /\ s \in Seq(Invocation) /\ Len(s) = n - 1 /\ n - 1 <= MaxDepth /\ n \in Nat
      /\ \A i \in 1 .. (n - 1) : s[i] = invokes[i] /\ Covered(s[i])
      /\ c \in Invocation /\ Covered(c)
  <2>1. \A i \in 1 .. (n - 1) : s[i] = invokes[i] /\ Covered(invokes[i])
    BY <1>2, CallsEnd
  <2>2. \A i \in 1 .. (n - 1) : Covered(s[i])
    BY <2>1 DEF Covered, Covers
  <2> QED
    BY <1>2, <2>1, <2>2, CallsEnd
<1>5. e \in Invocation /\ Covered(e)
  BY <1>3, <1>4
<1>6. mode \in Settable
  BY <1>1, <1>4, FilterModes, ReportsAreNumbers DEF Invocation
<1>7. /\ invokes' = [[s EXCEPT ![top].helper = Accumulated(@, Propagated(c, mode))]
                       EXCEPT ![Around(n)].inner = Strictest({@, c.inner, mode}),
                              ![Around(n)].stale = Strictest({@, c.stale}),
                              ![Around(n)].lost = Strictest({@, c.lost})]
      /\ invoke_stack' = Front(invoke_stack)
      /\ clips' = IF clips[a] = Nothing THEN Created(a, r) ELSE clips
      /\ wrapped' = Nothing /\ UNCHANGED <<settingVars, clip_data>>
  BY DEF ReturnsChained
<1> HIDE DEF top, n, s, c, mode
<1>8. invokes' = [s EXCEPT ![top] = x]
  <2>1. top \in DOMAIN s /\ DOMAIN s = 1 .. (n - 1) /\ s = [i \in 1 .. (n - 1) |-> s[i]]
    BY <1>3, <1>4
  <2>2. invokes' = [[s EXCEPT ![top].helper = helper]
                      EXCEPT ![top].inner = inner, ![top].stale = stale, ![top].lost = lost]
    BY <1>3, <1>5, <1>7, <2>1 DEF Invocation
  <2> QED
    BY <1>5, <2>1, <2>2 DEF Invocation
<1>9. inner \in Levels /\ helper \in [multi: BOOLEAN, serial: BOOLEAN] /\ Covers(helper, inner)
  <2>1. e.helper \in [multi: BOOLEAN, serial: BOOLEAN] /\ e.inner \in Levels /\ Covers(e.helper, e.inner)
    BY <1>5 DEF Invocation, Covered
  <2>2. c.helper \in [multi: BOOLEAN, serial: BOOLEAN] /\ c.inner \in Levels /\ Covers(c.helper, c.inner)
    BY <1>4 DEF Invocation, Covered
  <2>3. helper = Accumulated(e.helper, Accumulated(c.helper, Counts({mode})))
    BY DEF Propagated
  <2> HIDE DEF helper
  <2>4. inner \in Levels /\ helper \in [multi: BOOLEAN, serial: BOOLEAN] /\ Covers(helper, inner)
    BY <1>6, <2>1, <2>2, <2>3, CountsCover
  <2> QED
    BY <2>4
<1>10. stale \in Levels /\ lost \in Levels
  BY StrictestLevels
<1> HIDE DEF helper, inner, stale, lost
<1>11. x \in Invocation /\ Covered(x) /\ x.kind = e.kind
  BY <1>5, <1>9, <1>10 DEF Invocation, Covered, Covers
<1> HIDE DEF x, e
<1>12. /\ invokes' \in Seq(Invocation) /\ Len(invokes') = n - 1
       /\ \A i \in 1 .. (n - 1) : invokes'[i] = IF i = top THEN x ELSE s[i]
  BY <1>3, <1>4, <1>8, <1>11
<1>13. \A i \in 1 .. (n - 1) : invokes'[i].kind = invokes[i].kind
  BY <1>4, <1>11, <1>12 DEF e
<1>14. invoke_stack' = Popped
  BY <1>2, <1>7 DEF Popped, c
<1>15. invoke_stack' \in Seq(Nat) /\ StackPointsToConstructors'
  BY <1>1, <1>2, <1>12, <1>13, <1>14, StackPopped DEF n
<1>16. clips' \in [Addresses -> [report: Reports \cup {MT_NICE_FILTER}, by: {"new", "invoke"}]
                                \cup {Nothing}]
  BY <1>1, <1>7 DEF ModeTypeOK, Created
<1>17. ModeTypeOK'
  BY <1>1, <1>4, <1>7, <1>12, <1>15, <1>16 DEF ModeTypeOK, settingVars
<1>18. InvokesCovered'
  <2>1. DOMAIN invokes' = 1 .. (n - 1)
    BY <1>4, <1>12
  <2> SUFFICES ASSUME NEW i \in 1 .. (n - 1) PROVE Covered(invokes'[i])
    BY <2>1 DEF InvokesCovered, Covered, Covers
  <2>2. CASE i = top
    BY <1>11, <1>12, <2>2
  <2>3. CASE i # top
    BY <1>4, <1>12, <2>3
  <2> QED
    BY <2>2, <2>3
<1> QED
  BY <1>7, <1>15, <1>17, <1>18 DEF ModeInv, StackSound, ChainedAreCovered

(* The mode of a guard. *)
LEMMA ModesWrapped ==
  ASSUME ModeTypeOK, NEW c \in Invocation, NEW r \in Int
  PROVE  /\ ModeToWrap(c, r) \in Settable
         /\ Covered(c) /\ ~Forced(c.f) => ModeToWrap(c, r) >= c.inner
<1> DEFINE own == GetMtMode(c.f, r)
           final == GetFinalMode(c.helper, own)
<1> USE DEF MT_INVALID, MT_NICE_FILTER, MT_MULTI_INSTANCE, MT_SERIALIZED, MT_SPECIAL_MT
<1>1. c.f \in Functions /\ c.inner \in 0 .. 3 /\ own \in 1 .. 4
  BY FilterModes DEF Invocation, Levels, StrictModes, Settable
<1>2. final \in 1 .. 4
  BY <1>1 DEF GetFinalMode
<1>3. Covered(c) => final >= c.inner
  BY <1>1 DEF GetFinalMode, Covered, Covers
<1>4. ModeToWrap(c, r) = IF c.source /\ UsesDefaultMtMode(c.f, r) THEN 3
                         ELSE IF Forced(c.f) THEN own ELSE final
  BY DEF ModeToWrap
<1> HIDE DEF own, final
<1>5. ModeToWrap(c, r) \in 1 .. 4
  BY <1>1, <1>2, <1>4
<1>6. ASSUME Covered(c), ~Forced(c.f) PROVE ModeToWrap(c, r) >= c.inner
  BY <1>1, <1>3, <1>4, <1>6
<1> QED
  BY <1>5, <1>6 DEF Settable

(* The outermost filter gets a guard by what its evaluator has counted. *)
LEMMA ModesReturnsGuarded ==
  ASSUME ModeInv, NEW a \in Addresses, NEW r \in Reports, ReturnsGuarded(a, r)
  PROVE  ModeInv'
<1> DEFINE c == Last(invokes)
           w == [mode |-> ModeToWrap(c, r), forced |-> Forced(c.f), inner |-> c.inner,
                 stale |-> c.stale, lost |-> c.lost]
<1>1. ModeTypeOK /\ StackSound
  BY DEF ModeInv, StackSound
<1>2. /\ invokes # <<>> /\ c.kind = "filter" /\ Len(invoke_stack) = 1
      /\ invokes' = Front(invokes) /\ invoke_stack' = <<>> /\ wrapped' = w
      /\ clips' = Created(a, MT_NICE_FILTER)
      /\ clip_data' = [clip_data EXCEPT ![a] = TRUE] /\ UNCHANGED settingVars
  BY DEF ReturnsGuarded
<1>3. c \in Invocation /\ Covered(c)
  BY <1>2, CallsEnd
<1>4. ModeToWrap(c, r) \in Settable /\ (~Forced(c.f) => ModeToWrap(c, r) >= c.inner)
  BY <1>1, <1>3, ModesWrapped, ReportsAreNumbers
<1>5. /\ invokes' \in Seq(Invocation) /\ Len(invokes') = Len(invokes) - 1
      /\ Len(invokes') <= MaxDepth /\ Len(invokes) \in Nat
      /\ \A i \in 1 .. (Len(invokes) - 1) : invokes'[i] = invokes[i] /\ Covered(invokes[i])
  BY <1>2, CallsEnd
<1>6. invoke_stack' = Popped
  <2>1. invoke_stack \in Seq(Nat)
    BY <1>1 DEF ModeTypeOK
  <2>2. Popped = SubSeq(invoke_stack, 1, 0)
    BY <1>2 DEF Popped, Front
  <2> QED
    BY <1>2, <2>1, <2>2
<1>7. invoke_stack' \in Seq(Nat) /\ StackPointsToConstructors'
  BY <1>1, <1>2, <1>5, <1>6, StackPopped
<1>8. w.inner \in Levels /\ w.mode \in Settable /\ (~w.forced => w.mode >= w.inner)
  BY <1>3, <1>4 DEF Invocation
<1>9. w \in [mode: Settable, forced: BOOLEAN, inner: Levels, stale: Levels, lost: Levels]
  <2>1. Forced(c.f) \in BOOLEAN
    BY DEF Forced
  <2> QED
    BY <1>3, <1>4, <2>1 DEF Invocation
<1> HIDE DEF w, c
<1>10. clips' \in [Addresses -> [report: Reports \cup {MT_NICE_FILTER}, by: {"new", "invoke"}]
                                \cup {Nothing}]
  BY <1>1, <1>2 DEF ModeTypeOK, Created
<1>11. clip_data' \in [Addresses -> BOOLEAN]
  BY <1>1, <1>2 DEF ModeTypeOK
<1>12. ModeTypeOK'
  BY <1>1, <1>2, <1>5, <1>7, <1>9, <1>10, <1>11 DEF ModeTypeOK, settingVars
<1>13. InvokesCovered'
  <2>1. DOMAIN invokes' = 1 .. (Len(invokes) - 1)
    BY <1>5
  <2> QED
    BY <1>5, <2>1 DEF InvokesCovered, Covered, Covers
<1>14. ChainedAreCovered'
  <2>1. wrapped' = w
    BY <1>2
  <2>2. ~w.forced => w.inner <= IF w.mode \in MT_NICE_FILTER .. MT_SERIALIZED THEN w.mode ELSE MT_SERIALIZED
    BY <1>8 DEF Levels, StrictModes, Settable, MT_INVALID, MT_NICE_FILTER, MT_MULTI_INSTANCE,
              MT_SERIALIZED, MT_SPECIAL_MT
  <2> QED
    BY <2>1, <2>2 DEF ChainedAreCovered, GuardMode
<1> QED
  BY <1>7, <1>12, <1>13, <1>14 DEF ModeInv, StackSound

(* So every step keeps the invariant. *)
LEMMA ModesStep == ModeInv /\ [ModeNext]_modeVars => ModeInv'
<1> SUFFICES ASSUME ModeInv, [ModeNext]_modeVars PROVE ModeInv'
  OBVIOUS
<1>1. CASE \E fn \in Functions, mode \in MT_INVALID .. MT_MODE_COUNT, w \in Weights :
             SetFilterMTMode(fn, mode, w)
  BY <1>1, ModesSet
<1>2. CASE \E mode \in MT_INVALID .. MT_MODE_COUNT : SetDefaultMtMode(mode)
  BY <1>2, ModesSet
<1>3. CASE \E fn \in Functions : \E A \in SUBSET Live : BeginInvoke(fn, A)
  BY <1>3, ModesBeginInvoke
<1>4. CASE \E a \in Addresses, r \in Reports : NewClip(a, r)
  BY <1>4, ModesClips
<1>5. CASE \E a \in Addresses, r \in Reports : ReturnsChained(a, r)
  BY <1>5, ModesReturnsChained
<1>6. CASE \E a \in Addresses, r \in Reports : ReturnsGuarded(a, r)
  BY <1>6, ModesReturnsGuarded
<1>7. CASE Returns \/ Throws
  BY <1>7, ModesEnd
<1>8. CASE \E a \in Addresses : Release(a)
  BY <1>8, ModesClips
<1>9. CASE UNCHANGED modeVars
  BY <1>9, ModesUntouched
<1> QED
  BY <1>1, <1>2, <1>3, <1>4, <1>5, <1>6, <1>7, <1>8, <1>9 DEF ModeNext

(* The modes' invariant holds throughout. *)
LEMMA ModesInvariant == ModeSpec => []ModeInv
BY ModesBegin, ModesStep, PTL DEF ModeSpec

(* The stack of evaluators has the pointers of the constructors that run,  *)
(* in their order, whatever is thrown and caught on the way (Invoke).      *)
THEOREM StackStaysSound == ModeSpec => []StackSound
<1>1. ModeInv => StackSound
  BY DEF ModeInv
<1> QED
  BY <1>1, ModesInvariant, PTL

(* A guard's mode is as strict as every filter demands that was chained to *)
(* its own, however deep, by Invokes that returned it - or was passed to   *)
(* them - but not what was counted by an Invoke whose evaluator was        *)
(* dropped, nor clips at an address known from a clip that is gone         *)
(* (MtModeEvaluator, Invoke).                                              *)
THEOREM ChainedStayCovered == ModeSpec => []ChainedAreCovered
<1>1. ModeInv => ChainedAreCovered
  BY DEF ModeInv
<1> QED
  BY <1>1, ModesInvariant, PTL
=============================================================================
