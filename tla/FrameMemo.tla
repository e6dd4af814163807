------------------------------ MODULE FrameMemo ------------------------------
(***************************************************************************)
(* What Cache::GetFrame promises its callers, without lists, capacities,   *)
(* locks or condition variables: a memory of frames that computes a frame  *)
(* at most once at a time, answers every request with the right frame as   *)
(* long as child filters do not fail, and forgets frames only while nobody *)
(* is waiting for them.  LruCache implements it; Prefetcher is built on    *)
(* it.                                                                     *)
(*                                                                         *)
(* Nothing is promised of a frame whose maker failed while others waited:  *)
(* it is abandoned.  New requests of it are answered with no frame, until  *)
(* one of those who wait makes it busy again, with nobody making it.       *)
(***************************************************************************)
EXTENDS Naturals

CONSTANTS
  Threads,
  Keys,
  MaxFaults, \* bound: how often a maker may fail
  None

VARIABLES
  memo,   \* what is known of each frame: absent, busy, ready, abandoned
  phase,  \* where each thread's request is
  asked,  \* the frame each thread requested
  answer, \* the frame each thread got
  faults  \* how often a maker has failed

memoVars == <<memo, phase, asked, answer, faults>>

MemoInit == /\ memo = [k \in Keys |-> "absent"]
            /\ phase = [t \in Threads |-> "idle"]
            /\ asked = [t \in Threads |-> None]
            /\ answer = [t \in Threads |-> None]
            /\ faults = 0

Waiters(k) == {t \in Threads : phase[t] = "waiting" /\ asked[t] = k}

(* Frames that may be forgotten: ready and awaited by nobody. *)
Forgettable == {k \in Keys : memo[k] = "ready" /\ Waiters(k) = {}}

MemoWithout(D) == [k \in Keys |-> IF k \in D THEN "absent" ELSE memo[k]]

Request(t, k, p) == /\ phase[t] = "idle"
                    /\ phase' = [phase EXCEPT ![t] = p]
                    /\ asked' = [asked EXCEPT ![t] = k]
                    /\ UNCHANGED faults

AskReady(t, k) == /\ memo[k] = "ready"
                  /\ Request(t, k, "answered")
                  /\ answer' = [answer EXCEPT ![t] = k]
                  /\ UNCHANGED memo

AskAbandoned(t, k) == /\ memo[k] = "abandoned"
                      /\ Request(t, k, "answered")
                      /\ answer' = [answer EXCEPT ![t] = None]
                      /\ UNCHANGED memo

AskBusy(t, k) == /\ memo[k] = "busy"
                 /\ Request(t, k, "waiting")
                 /\ UNCHANGED <<memo, answer>>

(* The requester becomes the maker; older frames may be forgotten. *)
AskAbsent(t, k) == /\ memo[k] = "absent"
                   /\ Request(t, k, "making")
                   /\ \E D \in SUBSET Forgettable :
                        memo' = [MemoWithout(D) EXCEPT ![k] = "busy"]
                   /\ UNCHANGED answer

(* There is no room: the requester makes the frame for itself. *)
AskAlone(t, k) == /\ memo[k] = "absent"
                  /\ Request(t, k, "alone")
                  /\ \E D \in SUBSET Forgettable : memo' = MemoWithout(D)
                  /\ UNCHANGED answer

Made(t) == /\ phase[t] = "making"
           /\ memo' = [memo EXCEPT ![asked[t]] = "ready"]
           /\ phase' = [phase EXCEPT ![t] = "made"]
           /\ UNCHANGED <<asked, answer, faults>>

(* The maker has its frame whatever became of the memory's copy; a waiter  *)
(* gets the memory's copy.                                                 *)
Answer(t) == /\ \/ phase[t] \in {"made", "alone"}
                \/ phase[t] = "waiting" /\ memo[asked[t]] = "ready"
             /\ answer' = [answer EXCEPT ![t] = asked[t]]
             /\ phase' = [phase EXCEPT ![t] = "answered"]
             /\ UNCHANGED <<memo, asked, faults>>

Leave(t) == /\ phase[t] \in {"answered", "leaving"}
            /\ phase' = [phase EXCEPT ![t] = "idle"]
            /\ asked' = [asked EXCEPT ![t] = None]
            /\ answer' = [answer EXCEPT ![t] = None]
            /\ UNCHANGED <<memo, faults>>

-----------------------------------------------------------------------------
(* Failures *)

Fail(t) == /\ phase[t] \in {"making", "alone"}
           /\ faults < MaxFaults
           /\ faults' = faults + 1
           /\ phase' = [phase EXCEPT ![t] = IF @ = "making" THEN "failed" ELSE "idle"]
           /\ asked' = [asked EXCEPT ![t] = IF phase[t] = "making" THEN @ ELSE None]
           /\ UNCHANGED <<memo, answer>>

(* The maker steps back: the frame is as if never asked for, or abandoned. *)
GiveUp(t) ==
  /\ phase[t] = "failed"
  /\ IF Waiters(asked[t]) = {}
     THEN /\ memo' = [memo EXCEPT ![asked[t]] = "absent"]
          /\ phase' = [phase EXCEPT ![t] = "idle"]
          /\ asked' = [asked EXCEPT ![t] = None]
     ELSE /\ memo' = [memo EXCEPT ![asked[t]] = "abandoned"]
          /\ phase' = [phase EXCEPT ![t] = "leaving"]
          /\ UNCHANGED asked
  /\ UNCHANGED <<answer, faults>>

(* A waiter wakes up to find its frame abandoned, and goes on waiting. *)
WaitOn(k) == /\ memo[k] = "abandoned"
             /\ Waiters(k) # {}
             /\ memo' = [memo EXCEPT ![k] = "busy"]
             /\ UNCHANGED <<phase, asked, answer, faults>>

-----------------------------------------------------------------------------
Forget == /\ \E D \in SUBSET Forgettable : memo' = MemoWithout(D)
          /\ UNCHANGED <<phase, asked, answer, faults>>

Serve(t) == Made(t) \/ Answer(t) \/ Leave(t) \/ GiveUp(t)

MemoNext == \/ \E t \in Threads : Serve(t) \/ Fail(t)
            \/ \E t \in Threads, k \in Keys :
                 AskReady(t, k) \/ AskAbandoned(t, k) \/ AskBusy(t, k)
                 \/ AskAbsent(t, k) \/ AskAlone(t, k)
            \/ \E k \in Keys : WaitOn(k)
            \/ Forget

MemoSpec == /\ MemoInit /\ [][MemoNext]_memoVars
            /\ \A t \in Threads : WF_memoVars(Serve(t))
=============================================================================
