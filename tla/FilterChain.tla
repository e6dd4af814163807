----------------------------- MODULE FilterChain -----------------------------
(***************************************************************************)
(* Requests of frames going down a chain of filters, in several threads:   *)
(* Cache::GetFrame, MTGuard::GetFrame and the filter itself at every       *)
(* level, and the locks they take on the way.                              *)
(*                                                                         *)
(*   memory_mutex  the environment's, recursive: briefly in ManageCache    *)
(*                 and NewVideoFrame, and for as long as an Invoke takes   *)
(*   FilterMutex   one for each MT_SERIALIZED filter, held while it makes  *)
(*                 a frame, the requests to its child included             *)
(*   a cache entry is as good as locked by the thread that makes the frame *)
(*                                                                         *)
(* The caches are a FrameMemo, which LruCache is shown to implement: the   *)
(* frames of level l are its keys <<l, n>>, and <<t, l>> stands for thread *)
(* t in the cache of level l.                                              *)
(***************************************************************************)
EXTENDS Integers, FiniteSets

CONSTANTS
  Threads,    \* the consumer and the prefetcher's workers
  Top,        \* the chain's last filter; the source filter is 0
  NumFrames,  \* of every clip of the chain
  Serialized, \* the MT_SERIALIZED filters
  Runtime,    \* filters that call Invoke in their GetFrame
  Inquiring,  \* those of them whose scripts request frames meanwhile
  MaxAsks,    \* bound: the child's frames and scripts a frame may need
  None

Levels == 0 .. Top
Frames == 0 .. NumFrames - 1

(* The numbers that a filter, or the application, may ask for. *)
Numbers == -1 .. NumFrames

ASSUME ChainAssumption ==
  /\ IsFiniteSet(Threads) /\ Top \in Nat /\ NumFrames \in Nat \ {0} /\ MaxAsks \in Nat
  /\ Serialized \subseteq Levels
  /\ Runtime \subseteq Levels /\ Inquiring \subseteq Runtime
  /\ None \notin Threads \cup Frames

VARIABLES
  memo, phase, asked, answer, faults, \* the caches
  at,          \* where each thread is at each level
  frame,       \* the frame each thread wants of each level
  asks,        \* how many frames and scripts the filter has asked for
  memoryMutex, \* the thread that owns memory_mutex beyond a step
  filterMutex  \* the thread that owns each FilterMutex

cacheVars == <<memo, phase, asked, answer, faults>>
vars == <<cacheVars, at, frame, asks, memoryMutex, filterMutex>>

Callers == Threads \X Levels

Cache == INSTANCE FrameMemo WITH
           Threads <- Callers, Keys <- Levels \X Frames, MaxFaults <- 0

(* The places of a thread at a level.                                      *)
(*   out     it has no request here                                        *)
(*   nod     Cache::GetFrame before ManageCache                            *)
(*   lookup  before lookup                                                 *)
(*   cache   after it: the frame is there, awaited, or to be made          *)
(*   body    in the filter's GetFrame                                      *)
(*   invoke  there before Invoke's lock                                    *)
(*   eval    there inside Invoke                                           *)
(*   alloc   there before NewVideoFrame's lock                             *)
(*   filled  there, with the frame that will be returned                   *)
(*   commit  back in Cache::GetFrame                                       *)
Places == {"out", "nod", "lookup", "cache", "body", "invoke", "eval",
           "alloc", "filled", "commit"}
InFilter == {"body", "invoke", "eval", "alloc", "filled"}

Init == /\ Cache!MemoInit
        /\ at = [c \in Callers |-> "out"]
        /\ frame = [c \in Callers |-> None]
        /\ asks = [c \in Callers |-> 0]
        /\ memoryMutex = None
        /\ filterMutex = [l \in Levels |-> None]

(* The thread runs at the lowest level it has a request at. *)
Runs(t, l) == at[<<t, l>>] # "out" /\ (l > 0 => at[<<t, l - 1>>] = "out")

Goes(t, l, from, to) == /\ at[<<t, l>>] = from
                        /\ at' = [at EXCEPT ![<<t, l>>] = to]

(* memory_mutex is recursive. *)
MemoryFree(t) == memoryMutex \in {None, t}

-----------------------------------------------------------------------------
(* Cache::GetFrame *)

Request(t, l, n) ==
  /\ Goes(t, l, "out", "nod")
  /\ frame' = [frame EXCEPT ![<<t, l>>] = IF n < 0 THEN 0 ELSE IF n \in Frames THEN n
                                      ELSE NumFrames - 1]

(* The application, or the prefetcher, wants a frame. *)
GetFrame(t, n) ==
  /\ Request(t, Top, n)
  /\ UNCHANGED <<cacheVars, asks, memoryMutex, filterMutex>>

\* Mutant: memory_mutex stays locked until the frame is there.
Nod_Keeps(t, l) ==
  /\ Goes(t, l, "nod", "lookup")
  /\ MemoryFree(t)
  /\ memoryMutex' = t
  /\ UNCHANGED <<cacheVars, frame, asks, filterMutex>>

\* Mutant: memory_mutex is not recursive.
Nod_NotRecursive(t, l) ==
  /\ Goes(t, l, "nod", "lookup")
  /\ memoryMutex = None
  /\ UNCHANGED <<cacheVars, frame, asks, memoryMutex, filterMutex>>

(* ManageCache, in and out of memory_mutex. *)
Nod(t, l) ==
  /\ Goes(t, l, "nod", "lookup")
  /\ MemoryFree(t)
  /\ UNCHANGED <<cacheVars, frame, asks, memoryMutex, filterMutex>>

LookUp(t, l) ==
  /\ Goes(t, l, "lookup", "cache")
  /\ LET c == <<t, l>>
         k == <<l, frame[<<t, l>>]>>
     IN  \/ Cache!AskReady(c, k) \/ Cache!AskBusy(c, k)
         \/ Cache!AskAbsent(c, k) \/ Cache!AskAlone(c, k)
  /\ UNCHANGED <<frame, asks, memoryMutex, filterMutex>>

(* The one who waits gets the frame of the one who makes it. *)
Woken(t, l) ==
  /\ at[<<t, l>>] = "cache" /\ phase[<<t, l>>] = "waiting"
  /\ Cache!Answer(<<t, l>>)
  /\ UNCHANGED <<at, frame, asks, memoryMutex, filterMutex>>

Commit(t, l) ==
  /\ at[<<t, l>>] = "commit"
  /\ Cache!Made(<<t, l>>) \/ Cache!Answer(<<t, l>>)
  /\ UNCHANGED <<at, frame, asks, memoryMutex, filterMutex>>

Return(t, l) ==
  /\ at[<<t, l>>] \in {"cache", "commit"} /\ phase[<<t, l>>] = "answered"
  /\ at' = [at EXCEPT ![<<t, l>>] = "out"]
  /\ frame' = [frame EXCEPT ![<<t, l>>] = None]
  /\ Cache!Leave(<<t, l>>)
  /\ UNCHANGED <<asks, memoryMutex, filterMutex>>

-----------------------------------------------------------------------------
(* MTGuard::GetFrame; the other modes do not lock. *)

(* What lookup left to this thread. *)
Makes(t, l) == phase[<<t, l>>] \in {"making", "alone"}

EnterFilter(t, l) ==
  /\ Goes(t, l, "cache", "body") /\ Makes(t, l)
  /\ IF l \in Serialized
     THEN /\ filterMutex[l] = None
          /\ filterMutex' = [filterMutex EXCEPT ![l] = t]
     ELSE UNCHANGED filterMutex
  /\ asks' = [asks EXCEPT ![<<t, l>>] = 0]
  /\ UNCHANGED <<cacheVars, frame, memoryMutex>>

LeaveFilter(t, l) ==
  /\ Runs(t, l)
  /\ Goes(t, l, "filled", "commit")
  /\ filterMutex' = IF l \in Serialized THEN [filterMutex EXCEPT ![l] = None] ELSE filterMutex
  /\ UNCHANGED <<cacheVars, frame, asks, memoryMutex>>

-----------------------------------------------------------------------------
(* The filter's own GetFrame, which asks its child for frames, makes a new *)
(* one and may evaluate a script, in any order.                            *)

AskChild(t, l, n) ==
  /\ l > 0 /\ asks[<<t, l>>] < MaxAsks
  /\ at[<<t, l>>] \in {"body", "filled"} \cup (IF l \in Inquiring THEN {"eval"} ELSE {})
  /\ asks' = [asks EXCEPT ![<<t, l>>] = @ + 1]
  /\ Request(t, l - 1, n)
  /\ UNCHANGED <<cacheVars, memoryMutex, filterMutex>>

WantFrame(t, l) ==
  /\ Runs(t, l)
  /\ Goes(t, l, "body", "alloc")
  /\ UNCHANGED <<cacheVars, frame, asks, memoryMutex, filterMutex>>

(* NewVideoFrame, in and out of memory_mutex. *)
NewFrame(t, l) ==
  /\ Goes(t, l, "alloc", "filled")
  /\ MemoryFree(t)
  /\ UNCHANGED <<cacheVars, frame, asks, memoryMutex, filterMutex>>

WantInvoke(t, l) ==
  /\ l \in Runtime /\ Runs(t, l) /\ asks[<<t, l>>] < MaxAsks
  /\ Goes(t, l, "body", "invoke")
  /\ asks' = [asks EXCEPT ![<<t, l>>] = @ + 1]
  /\ UNCHANGED <<cacheVars, frame, memoryMutex, filterMutex>>

\* Mutant: Invoke does not keep memory_mutex.
BeginInvoke_Unlocks(t, l) ==
  /\ Goes(t, l, "invoke", "eval")
  /\ MemoryFree(t)
  /\ UNCHANGED <<cacheVars, frame, asks, memoryMutex, filterMutex>>

(* Invoke locks memory_mutex until it returns. *)
BeginInvoke(t, l) ==
  /\ Goes(t, l, "invoke", "eval")
  /\ MemoryFree(t)
  /\ memoryMutex' = t
  /\ UNCHANGED <<cacheVars, frame, asks, filterMutex>>

EndInvoke(t, l) ==
  /\ Runs(t, l)
  /\ Goes(t, l, "eval", "body")
  /\ memoryMutex' = IF \E k \in Levels \ {l} : at[<<t, k>>] = "eval" THEN t ELSE None
  /\ UNCHANGED <<cacheVars, frame, asks, filterMutex>>

-----------------------------------------------------------------------------
(* What a thread must go on with. *)
Step(t) == \E l \in Levels :
             \/ Nod(t, l) \/ LookUp(t, l) \/ Woken(t, l)
             \/ Commit(t, l) \/ Return(t, l)
             \/ EnterFilter(t, l) \/ LeaveFilter(t, l)
             \/ WantFrame(t, l) \/ NewFrame(t, l)
             \/ BeginInvoke(t, l) \/ EndInvoke(t, l)

Forget == /\ Cache!Forget
          /\ UNCHANGED <<at, frame, asks, memoryMutex, filterMutex>>

Next == \/ \E t \in Threads : Step(t)
        \/ \E t \in Threads, l \in Levels : WantInvoke(t, l)
        \/ \E t \in Threads, n \in Numbers :
             GetFrame(t, n) \/ \E l \in Levels : AskChild(t, l, n)
        \/ Forget

Spec == Init /\ [][Next]_vars

-----------------------------------------------------------------------------
(* Properties *)

TypeOK == /\ at \in [Callers -> Places]
          /\ frame \in [Callers -> Frames \cup {None}]
          /\ asks \in [Callers -> 0 .. MaxAsks]
          /\ memoryMutex \in Threads \cup {None}
          /\ filterMutex \in [Levels -> Threads \cup {None}]
          /\ \A c \in Callers : at[c] = "out" <=> frame[c] = None

(* The threads that a thread cannot go on without.                         *)
Awaits(t) ==
  {u \in Threads : \E l \in Levels :
     \/ at[<<t, l>>] \in {"nod", "invoke", "alloc"} /\ ~MemoryFree(t) /\ memoryMutex = u
     \/ at[<<t, l>>] = "cache" /\ Makes(t, l) /\ l \in Serialized /\ filterMutex[l] = u
     \/ /\ phase[<<t, l>>] = "waiting" /\ phase[<<u, l>>] = "making"
        /\ asked[<<t, l>>] = asked[<<u, l>>]}

(* The thread evaluates a script that has requested a frame.              *)
Inquires(t) == \E l \in Inquiring : at[<<t, l>>] = "eval" /\ ~Runs(t, l)

Busy(t) == \E l \in Levels : at[<<t, l>>] # "out"

(* Threads never wait for one another in a circle: of any threads one has  *)
(* nothing to wait for from the others.  Except where a script requests a  *)
(* frame while it is evaluated: its thread keeps memory_mutex, which the   *)
(* maker of that frame may need.  Nor does anybody wait for a thread that  *)
(* has no request under way and so may never let the other go on.          *)
NoCircularWait ==
  /\ \A S \in (SUBSET Threads) \ {{}} :
       (\E t \in S : Awaits(t) \cap S = {}) \/ (\E t \in S : Inquires(t))
  /\ \A t \in Threads : \A u \in Awaits(t) : Busy(u)

(* What Awaits says is all there is to wait for: a thread that has a       *)
(* request and awaits nobody can go on.  With NoCircularWait this is to    *)
(* say that some thread always can.                                        *)
AwaitedAreAll == \A t \in Threads : Busy(t) /\ Awaits(t) = {} => ENABLED Step(t)

(* A serialized filter is entered by one thread at a time, although the    *)
(* thread that is in it goes on to other filters' caches meanwhile.        *)
OneInSerialized ==
  \A l \in Serialized, t, u \in Threads :
    at[<<t, l>>] \in InFilter /\ at[<<u, l>>] \in InFilter => t = u

(* While a script is evaluated no other thread gets to ManageCache or to   *)
(* NewVideoFrame: whoever owns memory_mutex is the one evaluating.         *)
EvalsAlone ==
  \A t, u \in Threads, l, k \in Levels :
    at[<<t, l>>] = "eval" /\ at[<<u, k>>] = "eval" => t = u /\ memoryMutex = t

(* Together: both kinds of mutexes do what they are there for.             *)
LocksExclude == TypeOK /\ OneInSerialized /\ EvalsAlone
=============================================================================
