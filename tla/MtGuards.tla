------------------------------ MODULE MtGuards -------------------------------
(***************************************************************************)
(* The guards of filters, and the Prefetchers that switch them to MT mode. *)
(* A guard starts with one instance of its filter and without a mutex; the *)
(* environment's active prefetcher decides when it gets more, and filter   *)
(* guards that are created later get theirs at once.                       *)
(*                                                                         *)
(* A thread is inside one guard at a time here; FilterChain has the nested *)
(* calls.  Nice filters have no guard.                                     *)
(***************************************************************************)
EXTENDS Integers, FiniteSets, FiniteSetsExt

CONSTANTS
  Guards,       \* addresses of MTGuards
  Prefetchers,  \* addresses of Prefetchers
  ThreadCounts, \* thread counts that are passed to Prefetch
  Again,        \* whether a script calls Prefetch while one is active
  MaxCalls,     \* bound: how often Prefetch is called
  None

Modes == {"multi_instance", "serialized"}

Host == <<None, 0>>
AllThreads == {Host} \cup Prefetchers \X UNION {1 .. n : n \in ThreadCounts}

MTGuard == [mode: Modes, owner: AllThreads, nThreads: Nat \ {0}, instances: Nat \ {0},
            FilterMutex: Nat, FilterCtor: BOOLEAN]

ASSUME MtGuardsAssumption ==
  /\ ThreadCounts \subseteq Nat \ {0} /\ Again \in BOOLEAN /\ MaxCalls \in Nat
  /\ None \notin Prefetchers /\ None \notin MTGuard

VARIABLES
  prefetcher, \* the environment's active prefetcher
  nThreads,   \* how many workers each Prefetcher has, 0 if there is none
  child,      \* the guards upstream of each Prefetcher
  guards,     \* what there is at each address
  inside,     \* the guard's filter that each thread runs
  calls,      \* how often Prefetch has been called
  crashed,    \* a null FilterCtor has been dereferenced
  history     \* whether a Prefetch was refused, whether one was not while
              \* another's Prefetcher was there, and the thread counts of
              \* those that were not

vars == <<prefetcher, nThreads, child, guards, inside, calls, crashed, history>>

WorkersOf(p) == {<<p, i>> : i \in 1 .. nThreads[p]}
Active == {p \in Prefetchers : nThreads[p] # 0}
Threads == {Host} \cup UNION {WorkersOf(p) : p \in Prefetchers}

AEP_THREAD_ID(t) == t[2]

Init == /\ prefetcher = None
        /\ nThreads = [p \in Prefetchers |-> 0]
        /\ child = [p \in Prefetchers |-> {}]
        /\ guards = [g \in Guards |-> None]
        /\ inside = [t \in AllThreads |-> None]
        /\ calls = 0
        /\ crashed = FALSE
        /\ history = [refused |-> FALSE, together |-> FALSE, counts |-> {}]

MTGuardRegistry == {g \in Guards : guards[g] # None}

-----------------------------------------------------------------------------
(* MTGuard *)

NewGuard(mode, owner) ==
  [mode |-> mode, owner |-> owner, nThreads |-> 1, instances |-> 1,
   FilterMutex |-> 0, FilterCtor |-> mode = "multi_instance"]

(* FilterMutex numbers the mutexes a guard has had, 0 for none. *)
EnableMT(guard, n) ==
  [guard EXCEPT !.nThreads = n,
                !.instances = IF guard.mode = "multi_instance" THEN Max({@, n}) ELSE @,
                !.FilterMutex = IF guard.mode = "serialized" THEN @ + 1 ELSE @,
                !.FilterCtor = FALSE]

\* Mutant: the loop makes an instance too many.
NeedsCtor_OneMore(guard, n) == guard.mode = "multi_instance" /\ guard.instances <= n

NeedsCtor(guard, n) == guard.mode = "multi_instance" /\ guard.instances < n

TotalThreads(workers) == 1 + workers

(* MC_RegisterMTGuard.  A worker's runtime script may create filters, too; *)
(* it is then the only thread to call them.  If EnableMT throws, the guard *)
(* has not been added yet, and never is.                                   *)
Register(t, g, mode) ==
  /\ ~crashed /\ t \in Threads /\ inside[t] = None
  /\ guards[g] = None
  /\ guards' = [guards EXCEPT ![g] =
       IF prefetcher = None THEN NewGuard(mode, t)
       ELSE EnableMT(NewGuard(mode, t), TotalThreads(nThreads[prefetcher]))]
  /\ UNCHANGED <<prefetcher, nThreads, child, inside, calls, crashed, history>>

(* MC_UnRegisterMTGuard, when nobody refers to the guard any more. *)
UnRegister(g) ==
  /\ ~crashed /\ guards[g] # None
  /\ \A p \in Prefetchers : g \notin child[p]
  /\ \A t \in Threads : inside[t] # None => inside[t].guard # g
  /\ guards' = [guards EXCEPT ![g] = None]
  /\ UNCHANGED <<prefetcher, nThreads, child, inside, calls, crashed, history>>

-----------------------------------------------------------------------------
(* GetFrame and GetAudio *)

MayCall(t, g) ==
  /\ guards[g] # None
  /\ \/ guards[g].owner = t
     \/ t # Host /\ g \in child[t[1]]

Held(g, m) == \E t \in Threads : inside[t] # None /\ inside[t].guard = g /\ inside[t].mutex = m

Runs(t, g, instance, mutex) ==
  inside' = [inside EXCEPT ![t] = [guard |-> g, instance |-> instance, mutex |-> mutex]]

EnterSerialized(t, g) ==
  /\ guards[g].nThreads > 1 /\ guards[g].mode = "serialized"
  /\ ~Held(g, guards[g].FilterMutex)
  /\ Runs(t, g, 0, guards[g].FilterMutex)

EnterMulti(t, g) ==
  /\ guards[g].nThreads > 1 /\ guards[g].mode = "multi_instance"
  /\ Runs(t, g, AEP_THREAD_ID(t), 0)

EnterSingle(t, g) == guards[g].nThreads = 1 /\ Runs(t, g, 0, 0)

Enter(t, g) ==
  /\ ~crashed /\ t \in Threads /\ inside[t] = None /\ MayCall(t, g)
  /\ EnterSingle(t, g) \/ EnterMulti(t, g) \/ EnterSerialized(t, g)
  /\ UNCHANGED <<prefetcher, nThreads, child, guards, calls, crashed, history>>

Leave(t) ==
  /\ ~crashed /\ inside[t] # None
  /\ inside' = [inside EXCEPT ![t] = None]
  /\ UNCHANGED <<prefetcher, nThreads, child, guards, calls, crashed, history>>

-----------------------------------------------------------------------------
(* Prefetcher::Create and Destroy, called by the host's thread *)

PrefetchCall(p) ==
  /\ ~crashed /\ inside[Host] = None
  /\ calls < MaxCalls /\ calls' = calls + 1
  /\ nThreads[p] = 0

\* Mutant: the guards that exist already are left as they are.
SetPrefetcher_NewGuardsOnly(n) == UNCHANGED <<guards, crashed>>

SetPrefetcher(n) ==
  /\ guards' = [g \in Guards |-> IF guards[g] = None THEN None ELSE EnableMT(guards[g], n)]
  /\ crashed' = \E g \in MTGuardRegistry : NeedsCtor(guards[g], n) /\ ~guards[g].FilterCtor

\* Mutant: the test for an active prefetcher is missing.
CreatePrefetcher_Unchecked(p, n, upstream) ==
  /\ PrefetchCall(p)
  /\ prefetcher' = p
  /\ upstream \subseteq {g \in MTGuardRegistry : guards[g].owner = Host}
  /\ nThreads' = [nThreads EXCEPT ![p] = n]
  /\ child' = [child EXCEPT ![p] = upstream]
  /\ SetPrefetcher(TotalThreads(n))
  /\ history' = [history EXCEPT !.counts = @ \cup {n}, !.together = @ \/ Active # {}]
  /\ UNCHANGED inside

(* Every guard upstream of the Prefetcher is one of the host's. *)
CreatePrefetcher(p, n, upstream) ==
  /\ PrefetchCall(p)
  /\ prefetcher = None /\ prefetcher' = p
  /\ upstream \subseteq {g \in MTGuardRegistry : guards[g].owner = Host}
  /\ nThreads' = [nThreads EXCEPT ![p] = n]
  /\ child' = [child EXCEPT ![p] = upstream]
  /\ SetPrefetcher(TotalThreads(n))
  /\ history' = [history EXCEPT !.counts = @ \cup {n}, !.together = @ \/ Active # {}]
  /\ UNCHANGED inside

(* Making one more instance of g's filter throws, when the guards E before *)
(* it in the registry (whose order is left open) have been enabled: g has  *)
(* its number of threads, some of its instances, and its parameters still. *)
(* The new Prefetcher is deleted; the guards stay as they are.             *)
EnableFails(p, n, g, E) ==
  /\ PrefetchCall(p)
  /\ prefetcher = None /\ UNCHANGED prefetcher
  /\ g \in MTGuardRegistry /\ E \subseteq MTGuardRegistry \ {g}
  /\ \A h \in E : NeedsCtor(guards[h], TotalThreads(n)) => guards[h].FilterCtor
  /\ NeedsCtor(guards[g], TotalThreads(n)) /\ guards[g].FilterCtor
  /\ \E made \in guards[g].instances .. TotalThreads(n) - 1 :
       guards' = [h \in Guards |->
         IF h = g THEN [guards[g] EXCEPT !.nThreads = TotalThreads(n), !.instances = made]
         ELSE IF h \in E THEN EnableMT(guards[h], TotalThreads(n))
         ELSE guards[h]]
  /\ history' = [history EXCEPT !.counts = @ \cup {n}, !.together = @ \/ Active # {}]
  /\ UNCHANGED <<nThreads, child, inside, crashed>>

(* SetPrefetcher throws; deleting the new Prefetcher calls Destroy, which  *)
(* resets the environment's prefetcher.                                    *)
CreateFails(p) ==
  /\ Again
  /\ PrefetchCall(p)
  /\ prefetcher # None /\ prefetcher' = None
  /\ history' = [history EXCEPT !.refused = TRUE]
  /\ UNCHANGED <<nThreads, child, guards, inside, crashed>>

(* Destroy waits for the Prefetcher's workers, and they end with it. *)
Destroy(p) ==
  /\ ~crashed /\ inside[Host] = None
  /\ nThreads[p] # 0
  /\ \A t \in WorkersOf(p) : inside[t] = None
  /\ prefetcher' = None
  /\ nThreads' = [nThreads EXCEPT ![p] = 0]
  /\ child' = [child EXCEPT ![p] = {}]
  /\ guards' = [g \in Guards |-> IF guards[g] # None /\ guards[g].owner \in WorkersOf(p)
                                 THEN None ELSE guards[g]]
  /\ UNCHANGED <<inside, calls, crashed, history>>

Next == \/ \E t \in AllThreads, g \in Guards :
             Enter(t, g) \/ \E mode \in Modes : Register(t, g, mode)
        \/ \E t \in AllThreads : Leave(t)
        \/ \E g \in Guards : UnRegister(g)
        \/ \E p \in Prefetchers :
             \/ \E n \in ThreadCounts : \E S \in SUBSET Guards :
                  CreatePrefetcher(p, n, S) \/ \E g \in Guards : EnableFails(p, n, g, S)
             \/ CreateFails(p) \/ Destroy(p)

Spec == Init /\ [][Next]_vars
-----------------------------------------------------------------------------
(* Properties *)

(* Types; and a serialized guard has a mutex just if it will lock it. *)
TypeOK ==
  /\ prefetcher \in Prefetchers \cup {None}
  /\ nThreads \in [Prefetchers -> {0} \cup ThreadCounts]
  /\ child \in [Prefetchers -> SUBSET MTGuardRegistry]
  /\ \A g \in MTGuardRegistry :
       /\ guards[g].mode \in Modes /\ guards[g].owner \in Threads
       /\ guards[g].nThreads \in Nat \ {0} /\ guards[g].FilterMutex \in Nat
       /\ guards[g].mode = "serialized" =>
            (guards[g].nThreads > 1 <=> guards[g].FilterMutex > 0)

(* No two threads run the same instance of a filter that has a guard:      *)
(* neither one that needs an instance for each thread nor a serialized one.*)
AloneInInstance ==
  \A t, u \in Threads :
    t # u /\ inside[t] # None /\ inside[u] # None /\ inside[t].guard = inside[u].guard =>
      inside[t].instance # inside[u].instance

(* ChildFilters has an instance at the thread's number. *)
InstanceThere ==
  \A t \in Threads :
    inside[t] # None => inside[t].instance < guards[inside[t].guard].instances

(* Together: whoever enters a guard finds an instance, which is all its    *)
(* own as long as it is inside, however guards and Prefetchers have come   *)
(* and gone before, and whether or not a Prefetch has failed half-way -    *)
(* unless one passed the test while another's Prefetcher was there.        *)
EachItsInstance ==
  TypeOK /\ (~history.together => AloneInInstance /\ InstanceThere)

(* "Only a single prefetcher is allowed per script": a second one gets     *)
(* through only after a Prefetch has been refused, and an active one is    *)
(* forgotten only then.                                                    *)
SinglePrefetcher ==
  ~history.refused => Active = {prefetcher} \ {None}

(* EnableMT drops the constructor's parameters; it needs them once more    *)
(* only when a Prefetcher has more threads than one before it.             *)
ParametersSuffice ==
  crashed => \E m, n \in history.counts : m < n
=============================================================================
