----------------------------- MODULE ThreadPool -----------------------------
(***************************************************************************)
(* ThreadPool.cpp and ThreadPool.h: worker threads that take jobs from a   *)
(* MessageQueue, the callers of QueueJob with their JobCompletion objects, *)
(* and the destructor that stops and joins the workers.                    *)
(*                                                                         *)
(* A caller queues jobs, with or without its completion object, waits for  *)
(* those that have a promise in it, reads the results and resets it; so    *)
(* does a job while a worker runs it (ParallelJob is there for filters,    *)
(* and filters run in jobs).  The owner destroys the pool when the callers *)
(* are through with their calls; jobs without a promise may still be       *)
(* queued or running then.                                                 *)
(***************************************************************************)
EXTENDS MessageQueue, FiniteSets

CONSTANTS
  Callers,   \* the threads that call QueueJob
  Workers,   \* the pool's threads
  Owner,     \* the thread that destroys the pool
  STOP,      \* the message THREAD_STOP
  PerThread, \* 6: the queue has room for nThreads * 6 messages
  MaxJobs,   \* bound: how many jobs a caller queues
  MaxNested, \* bound: how many jobs are queued by the jobs of a worker
  MaxSlots   \* the capacity of the JobCompletion objects

(* Those that queue jobs: a worker does so on behalf of the job it runs.   *)
Clients == Callers \cup Workers
Numbers == 1 .. (IF MaxJobs > MaxNested THEN MaxJobs ELSE MaxNested)

(* A job is named by its client and its number; slot is the index of its   *)
(* promise, counted from 1, and 0 for no promise.                          *)
Jobs == [caller : Clients, number : Numbers, slot : 0 .. MaxSlots]
Messages == Jobs \cup {STOP}

ASSUME ThreadsAssumption == /\ IsFiniteSet(Workers) /\ Workers # {}
                            /\ Callers \cap Workers = {}
                            /\ Owner \notin Callers \cup Workers
ASSUME PoolAssumption == /\ PerThread \in Nat \ {0}
                         /\ Capacity = PerThread * Cardinality(Workers)
                         /\ MaxJobs \in Nat /\ MaxNested \in Nat
                         /\ MaxSlots \in Nat \ {0}
                         /\ STOP \notin Jobs /\ None \notin Messages

VARIABLES
  pc,     \* where each thread is
  msg,    \* the message each thread is pushing
  taken,  \* the message each worker has popped and is busy with
  queued, \* how many jobs each client has queued
  nJobs,  \* each completion object's nJobs
  pairs,  \* each completion object's promises: [for, by, how]
  stops,  \* how many THREAD_STOP messages the destructor has pushed
  ran     \* history: the jobs that have been run

threadVars == <<pc, msg, taken, queued, nJobs, pairs, stops, ran>>
vars == <<queueVars, threadVars>>

Threads == Callers \cup Workers \cup {Owner}

Home(c) == IF c \in Workers THEN "run" ELSE "idle"
Bound(c) == IF c \in Workers THEN MaxNested ELSE MaxJobs

Job(c, i, slot) == [caller |-> c, number |-> i, slot |-> slot]

(* A promise: the number of the job it was given to, the number of the job *)
(* that has fulfilled it (0: none), and whether with a value.              *)
FreshPair == [for |-> 0, by |-> 0, how |-> None]

Init == /\ QueueInit
        /\ pc = [t \in Threads |-> IF t \in Workers THEN "pop" ELSE "idle"]
        /\ msg = [t \in Threads |-> None]
        /\ taken = [w \in Workers |-> None]
        /\ queued = [c \in Clients |-> 0]
        /\ nJobs = [c \in Clients |-> 0]
        /\ pairs = [c \in Clients |-> [i \in 1 .. MaxSlots |-> FreshPair]]
        /\ stops = 0
        /\ ran = {}

Goto(t, place) == pc' = [pc EXCEPT ![t] = place]

-----------------------------------------------------------------------------
(* push_front, by a client or by the owner; pc "push" is the whole of its  *)
(* critical section, asleep or not.                                        *)

PushMessage(t, next) ==
  /\ pc[t] = "push"
  /\ Push(t, msg[t])
  /\ Goto(t, next)
  /\ msg' = [msg EXCEPT ![t] = None]
  /\ UNCHANGED <<taken, queued, nJobs, pairs, stops, ran>>

PushSleeps(t) ==
  /\ pc[t] = "push"
  /\ SleepWhileFull(t)
  /\ UNCHANGED threadVars

PushNotifies(t, next) ==
  /\ pc[t] = "pushed"
  /\ NotifyNotEmpty
  /\ Goto(t, next)
  /\ UNCHANGED <<msg, taken, queued, nJobs, pairs, stops, ran>>

-----------------------------------------------------------------------------
(* Clients.  What a worker does here, the job that it runs does. *)

AtHome(c) == pc[c] = Home(c) /\ (c \in Callers => pc[Owner] = "idle")
Calls(c) == AtHome(c) /\ queued[c] < Bound(c)

(* QueueJob with a completion object that has room: Add hands out the next *)
(* promise.  (When it is full, Add throws before anything has changed.)    *)
QueueJob(c) ==
  LET slot == nJobs[c] + 1
      n    == queued[c] + 1
  IN  /\ Calls(c)
      /\ nJobs[c] < MaxSlots
      /\ nJobs' = [nJobs EXCEPT ![c] = slot]
      /\ pairs' = [pairs EXCEPT ![c][slot].for = n]
      /\ queued' = [queued EXCEPT ![c] = n]
      /\ msg' = [msg EXCEPT ![c] = Job(c, n, slot)]
      /\ Goto(c, "push")
      /\ UNCHANGED <<queueVars, taken, stops, ran>>

(* QueueJob without one. *)
QueueJobAlone(c) ==
  /\ Calls(c)
  /\ queued' = [queued EXCEPT ![c] = @ + 1]
  /\ msg' = [msg EXCEPT ![c] = Job(c, queued[c] + 1, 0)]
  /\ Goto(c, "push")
  /\ UNCHANGED <<queueVars, taken, nJobs, pairs, stops, ran>>

(* Wait, which also the completion object's destructor calls; there is     *)
(* nothing to it when no promise was handed out.                           *)
WaitBegins(c) ==
  /\ AtHome(c)
  /\ nJobs[c] > 0
  /\ Goto(c, "waiting")
  /\ UNCHANGED <<queueVars, msg, taken, queued, nJobs, pairs, stops, ran>>

\* Mutant: Wait's loop stops one short.
WaitReturns_Early(c) ==
  /\ pc[c] = "waiting"
  /\ \A i \in 1 .. nJobs[c] - 1 : pairs[c][i].by # 0
  /\ Goto(c, "waited")
  /\ UNCHANGED <<queueVars, msg, taken, queued, nJobs, pairs, stops, ran>>

WaitReturns(c) ==
  /\ pc[c] = "waiting"
  /\ \A i \in 1 .. nJobs[c] : pairs[c][i].by # 0
  /\ Goto(c, "waited")
  /\ UNCHANGED <<queueVars, msg, taken, queued, nJobs, pairs, stops, ran>>

(* Reset, once the results have been read. *)
Reset(c) ==
  /\ pc[c] = "waited"
  /\ Goto(c, Home(c))
  /\ nJobs' = [nJobs EXCEPT ![c] = 0]
  /\ pairs' = [pairs EXCEPT ![c] = [i \in 1 .. MaxSlots |->
                                      IF i <= nJobs[c] THEN FreshPair ELSE pairs[c][i]]]
  /\ UNCHANGED <<queueVars, msg, taken, queued, stops, ran>>

ClientStep(c) == \/ PushMessage(c, "pushed")
                 \/ PushSleeps(c)
                 \/ PushNotifies(c, Home(c))
                 \/ WaitReturns(c)

-----------------------------------------------------------------------------
(* Workers: ThreadFunc's loop *)

PopMessage(w) ==
  /\ pc[w] = "pop"
  /\ \E m \in Messages : Pop(w, m) /\ taken' = [taken EXCEPT ![w] = m]
  /\ Goto(w, "popped")
  /\ UNCHANGED <<msg, queued, nJobs, pairs, stops, ran>>

PopSleeps(w) ==
  /\ pc[w] = "pop"
  /\ SleepWhileEmpty(w)
  /\ UNCHANGED threadVars

PopNotifies(w) ==
  /\ pc[w] = "popped"
  /\ NotifyNotFull
  /\ Goto(w, IF taken[w] = STOP THEN "exited" ELSE "run")
  /\ UNCHANGED <<msg, taken, queued, nJobs, pairs, stops, ran>>

(* The job function returns or throws.  A promise gets the value or the    *)
(* exception; without one an exception is swallowed.  The worker goes on   *)
(* in every case.  The job's own completion object waits before it goes.   *)
RunJob(w) ==
  LET j == taken[w]
  IN  /\ pc[w] = "run" /\ nJobs[w] = 0
      /\ \E how \in {"value", "exception"} :
           pairs' = IF j.slot = 0 THEN pairs
                    ELSE [pairs EXCEPT ![j.caller][j.slot].by = j.number,
                                       ![j.caller][j.slot].how = how]
      /\ ran' = ran \cup {<<j.caller, j.number>>}
      /\ taken' = [taken EXCEPT ![w] = None]
      /\ Goto(w, "pop")
      /\ UNCHANGED <<queueVars, msg, queued, nJobs, stops>>

WorkerStep(w) == PopMessage(w) \/ PopSleeps(w) \/ PopNotifies(w) \/ RunJob(w)

(* A job that has queued others goes on until it returns. *)
JobStep(w) == ClientStep(w) \/ WaitBegins(w) \/ Reset(w)

-----------------------------------------------------------------------------
(* The owner: ~ThreadPool *)

DestroyBegins ==
  /\ pc[Owner] = "idle"
  /\ \A c \in Callers : pc[c] = "idle" /\ nJobs[c] = 0
  /\ Goto(Owner, "stop")
  /\ UNCHANGED <<queueVars, msg, taken, queued, nJobs, pairs, stops, ran>>

(* One THREAD_STOP for every worker ... *)
StopOne ==
  /\ pc[Owner] = "stop"
  /\ stops < Cardinality(Workers)
  /\ stops' = stops + 1
  /\ msg' = [msg EXCEPT ![Owner] = STOP]
  /\ Goto(Owner, "push")
  /\ UNCHANGED <<queueVars, taken, queued, nJobs, pairs, ran>>

(* ... and then the joins. *)
JoinAll ==
  /\ pc[Owner] = "stop"
  /\ stops = Cardinality(Workers)
  /\ \A w \in Workers : pc[w] = "exited"
  /\ Goto(Owner, "deleted")
  /\ UNCHANGED <<queueVars, msg, taken, queued, nJobs, pairs, stops, ran>>

OwnerStep == \/ StopOne
             \/ PushMessage(Owner, "pushed")
             \/ PushSleeps(Owner)
             \/ PushNotifies(Owner, "stop")
             \/ JoinAll

Next == \/ \E c \in Clients : \/ QueueJob(c) \/ QueueJobAlone(c)
                              \/ WaitBegins(c) \/ Reset(c) \/ ClientStep(c)
        \/ \E w \in Workers : WorkerStep(w)
        \/ DestroyBegins
        \/ OwnerStep
        \/ SpuriousWakeup /\ UNCHANGED threadVars

Spec == Init /\ [][Next]_vars

(* Every thread that can take a step of a call in progress takes one in    *)
(* the end: the scheduler runs every thread, the mutex is handed on, and   *)
(* the job functions return.  Nothing makes a caller queue or wait.        *)
FairSpec == /\ Spec
            /\ \A c \in Callers : WF_vars(ClientStep(c))
            /\ \A w \in Workers : WF_vars(WorkerStep(w) \/ JobStep(w))
            /\ WF_vars(OwnerStep)

-----------------------------------------------------------------------------
(* Properties *)

Places == {"idle", "push", "pushed", "waiting", "waited", "stop", "deleted",
           "pop", "popped", "run", "exited"}

(* Types, and the ring's fields agree (assert(size <= max_size)). *)
TypeOK ==
  /\ array \in [Slots -> Messages \cup {None}]
  /\ RingOK
  /\ notFull \subseteq Threads
  /\ notEmpty \subseteq Workers
  /\ pc \in [Threads -> Places]
  /\ msg \in [Threads -> Messages \cup {None}]
  /\ taken \in [Workers -> Messages \cup {None}]
  /\ queued \in [Clients -> Nat] /\ \A c \in Clients : queued[c] <= Bound(c)
  /\ nJobs \in [Clients -> 0 .. MaxSlots]
  /\ pairs \in [Clients -> [1 .. MaxSlots ->
                  [for : Numbers \cup {0}, by : Numbers \cup {0},
                   how : {"value", "exception", None}]]]
  /\ stops \in 0 .. Cardinality(Workers)
  /\ ran \subseteq (Clients \X Numbers)

(* QueueJob and the workers together are a bounded queue in which no       *)
(* message is lost, duplicated or overtaken.                               *)
Abstract == INSTANCE JobFifo WITH pending <- Contents
ImplementsJobFifo == Abstract!Spec

(* No job is run a second time, nor by two workers at once; and            *)
(* THREAD_STOP overtakes nothing: when the destructor is through, every    *)
(* job that a caller ever queued has been run, those nobody waits for too. *)
(* What is left can only be what a job has queued behind the THREAD_STOPs. *)
InHand(w) == {<<taken[u].caller, taken[u].number>> :
                u \in {v \in Workers \ {w} : taken[v] \in Jobs}}
RunsOnce ==
  \A w \in Workers : taken[w] \in Jobs =>
    <<taken[w].caller, taken[w].number>> \notin ran \cup InHand(w)
NothingLeftBehind ==
  pc[Owner] = "deleted" =>
    /\ \A i \in DOMAIN Contents : Contents[i].caller \in Workers
    /\ \A c \in Callers : \A i \in 1 .. queued[c] : <<c, i>> \in ran
EachJobOnce == TypeOK /\ RunsOnce /\ NothingLeftBehind

(* When Wait has returned, every promise handed out since the last Reset   *)
(* has been fulfilled, by the job it was handed out for.                   *)
WaitMeansDone ==
  \A c \in Clients : pc[c] = "waited" =>
    \A i \in 1 .. nJobs[c] : /\ pairs[c][i].by = pairs[c][i].for
                             /\ <<c, pairs[c][i].for>> \in ran

(* Every worker that is still there is in the middle of a job that wants   *)
(* room in the full queue, or the result of a job that nobody has run.     *)
Blocked(w) ==
  \/ pc[w] = "push" /\ Full
  \/ pc[w] = "waiting" /\ \E i \in 1 .. nJobs[w] : pairs[w][i].by = 0
Stuck == /\ \A w \in Workers : pc[w] = "exited" \/ Blocked(w)
         /\ \E w \in Workers : Blocked(w)

(* QueueJob, Wait and the destructor return: no wakeup is lost between the *)
(* two condition variables, and every worker gets its THREAD_STOP.  The    *)
(* one way to hang is that jobs that use the pool themselves have taken    *)
(* all of its workers.                                                     *)
EveryCallReturns ==
  /\ \A c \in Clients : pc[c] \in {"push", "waiting"} ~>
                           pc[c] \in {"idle", "run", "waited"} \/ Stuck
  /\ pc[Owner] = "stop" ~> pc[Owner] = "deleted" \/ Stuck
=============================================================================
