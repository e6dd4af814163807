----------------------------- MODULE Prefetcher -----------------------------
(***************************************************************************)
(* Prefetcher.cpp: the consumer's GetFrame, which reserves frames ahead of *)
(* the one it was asked for and queues a job for each, the workers that    *)
(* make them, and Destroy.                                                 *)
(*                                                                         *)
(* It is a composition: VideoCache is a FrameMemo, which LruCache is shown *)
(* to implement, and the pool's queue a JobFifo, which ThreadPool is shown *)
(* to implement.  In VideoCache a job is a caller like the consumer: the   *)
(* consumer's lookup makes it the producer of its frame, and the worker    *)
(* that takes the job goes on from there.                                  *)
(*                                                                         *)
(* The stride that the pattern detector answers with is any of Strides;    *)
(* PrefetchPattern has the detector.                                       *)
(***************************************************************************)
EXTENDS Integers, Sequences, FiniteSets, SequencesExt

CONSTANTS
  Workers,   \* the pool's threads
  Jobs,      \* storage for PrefetcherJobParams objects
  Consumer,  \* the thread that calls GetFrame
  NumFrames, \* vi.num_frames
  Ahead,     \* nPrefetchFrames: twice the number of threads
  Room,      \* the room in the pool's queue: 6 times the number of threads
  Strides,   \* what the detector may take for the consumer's stride: 1, until locked
  MaxCalls,  \* bound: how often GetFrame is called
  MaxFaults, \* bound: how often the child throws
  None

ASSUME PrefetcherSetsAssumption ==
  /\ IsFiniteSet(Workers) /\ Workers # {}
  /\ IsFiniteSet(Jobs) /\ Consumer \notin Jobs
  /\ None \notin Jobs
ASSUME PrefetcherSizesAssumption ==
  /\ Ahead = 2 * Cardinality(Workers)
  /\ Cardinality(Jobs) >= Ahead + Cardinality(Workers)
  /\ Room \in Nat /\ Room >= Ahead
  /\ NumFrames \in Nat /\ MaxCalls \in Nat /\ MaxFaults \in Nat
  /\ IsFiniteSet(Strides) /\ Strides \subseteq Int \ {0} /\ 1 \in Strides

Clip == 0 .. NumFrames - 1

(* A negative stride leads below zero, and nothing stops it there. *)
Keys == (1 - Ahead - Max(Strides \cup {-s : s \in Strides})) .. NumFrames - 1
Callers == Jobs \cup {Consumer}

VARIABLES
  memo, phase, asked, answer, faults, \* VideoCache
  pending, taken,                     \* the pool's queue, and its workers' jobs
  running,   \* running_workers
  exception, \* worker_exception_present
  at,        \* where the consumer is
  current,   \* GetFrame's argument
  stride,    \* LockedPattern if IsLocked, else 1
  ahead,     \* SchedulePrefetch's n
  pass,      \* which of its two calls GetFrame is in
  job,       \* the job that is being scheduled
  stage,     \* where each worker is
  calls      \* how often GetFrame has been called

Cache == INSTANCE FrameMemo WITH Threads <- Callers
Pool  == INSTANCE JobFifo WITH Capacity <- Room, Messages <- Jobs

cacheVars    == <<memo, phase, asked, answer, faults>>
poolVars     == <<pending, taken>>
scheduleVars == <<current, stride, ahead, pass, job>>
vars == <<cacheVars, poolVars, scheduleVars, running, exception, at, stage, calls>>

(* rollback and its notification, after which the caller's handle is gone. *)
StepBack(c) == \/ Cache!GiveUp(c)
               \/ phase[c] = "leaving" /\ Cache!Leave(c)

(* The consumer: check is before the test of the exception, sched at the   *)
(* head of SchedulePrefetch's loop, count and push before its last two     *)
(* statements, ask before the lookup of the frame, inside between lookup   *)
(* and result, destroying in Destroy's loop.                               *)
(* A worker: job is inside ThreadWorker's try block, record before the     *)
(* catch block's lock, lower after its assignments, unlock at its end.     *)
ConsumerPlaces == {"idle", "check", "sched", "count", "push", "ask", "inside",
                   "destroying", "destroyed"}
Stages == {"idle", "job", "record", "lower", "unlock"}

Init == /\ Cache!MemoInit
        /\ Pool!Init
        /\ running = 0
        /\ exception = FALSE
        /\ at = "idle"
        /\ current = 0 /\ stride = 1 /\ ahead = 0 /\ pass = 1 /\ job = None
        /\ stage = [w \in Workers |-> "idle"]
        /\ calls = 0

-----------------------------------------------------------------------------
(* GetFrame and SchedulePrefetch, by the consumer *)

GetFrame(n, s) ==
  /\ at = "idle" /\ calls < MaxCalls
  /\ at' = "check"
  /\ calls' = calls + 1
  /\ current' = n /\ stride' = s
  /\ UNCHANGED <<cacheVars, poolVars, ahead, pass, job, running, exception, stage>>

(* Under worker_exception_mutex.  What a worker has left there is thrown,  *)
(* in this call and in all that follow.                                    *)
CheckException ==
  /\ at = "check"
  /\ \A w \in Workers : stage[w] \notin {"lower", "unlock"}
  /\ IF exception
     THEN at' = "idle" /\ UNCHANGED <<ahead, pass>>
     ELSE at' = "sched" /\ ahead' = current /\ pass' = 1
  /\ UNCHANGED <<cacheVars, poolVars, current, stride, job, running, exception, stage, calls>>

Distance == IF ahead >= current THEN ahead - current ELSE current - ahead

(* The loop's condition. *)
More == running < Ahead /\ Distance < Ahead

(* The frame is in VideoCache, or somebody is making it. *)
ScheduleNothing ==
  /\ at = "sched" /\ More
  /\ ahead + stride < NumFrames
  /\ memo[ahead + stride] # "absent"
  /\ ahead' = ahead + stride
  /\ UNCHANGED <<cacheVars, poolVars, current, stride, pass, job, running, exception, at, stage, calls>>

(* JobParamsPool gives out an object that is not in use; which one does    *)
(* not matter.                                                             *)
FreeJob == CHOOSE j \in Jobs : j \notin Range(pending) \cup Range(taken)

\* Mutant: the loop is left once the frame is reserved when it was the last
\* one in reach.
ScheduleFrame_Drops ==
  /\ at = "sched" /\ More
  /\ ahead + stride < NumFrames
  /\ ahead' = ahead + stride
  /\ job' = FreeJob
  /\ Cache!AskAbsent(FreeJob, ahead + stride)
  /\ at' = IF ahead + stride = NumFrames - 1 THEN "sched" ELSE "count"
  /\ UNCHANGED <<poolVars, current, stride, pass, running, exception, stage, calls>>

(* It is not, and the lookup has reserved it. *)
ScheduleFrame ==
  /\ at = "sched" /\ More
  /\ ahead + stride < NumFrames
  /\ ahead' = ahead + stride
  /\ job' = FreeJob
  /\ Cache!AskAbsent(FreeJob, ahead + stride)
  /\ at' = "count"
  /\ UNCHANGED <<poolVars, current, stride, pass, running, exception, stage, calls>>

\* Mutant: the count is not raised.
CountJob_Forgotten ==
  /\ at = "count"
  /\ at' = "push"
  /\ UNCHANGED <<cacheVars, poolVars, scheduleVars, running, exception, stage, calls>>

CountJob ==
  /\ at = "count"
  /\ at' = "push"
  /\ running' = running + 1
  /\ UNCHANGED <<cacheVars, poolVars, scheduleVars, exception, stage, calls>>

(* QueueJob blocks when the queue is full. *)
QueueJob ==
  /\ at = "push"
  /\ Pool!Put(job)
  /\ at' = "sched"
  /\ job' = None
  /\ UNCHANGED <<cacheVars, current, stride, ahead, pass, running, exception, stage, calls>>

ScheduleEnds == at = "sched" /\ (~More \/ ahead + stride >= NumFrames)

(* The first SchedulePrefetch returns where it got to. *)
FirstPassEnds ==
  /\ ScheduleEnds /\ pass = 1
  /\ at' = "ask"
  /\ ahead' = IF More THEN ahead + stride ELSE ahead
  /\ UNCHANGED <<cacheVars, poolVars, current, stride, pass, job, running, exception, stage, calls>>

(* The second returns, and so does GetFrame. *)
SecondPassEnds ==
  /\ ScheduleEnds /\ pass = 2
  /\ Cache!Leave(Consumer)
  /\ at' = "idle"
  /\ UNCHANGED <<poolVars, scheduleVars, running, exception, stage, calls>>

LookUp ==
  /\ at = "ask"
  /\ \/ Cache!AskReady(Consumer, current)
     \/ Cache!AskAbandoned(Consumer, current)
     \/ Cache!AskBusy(Consumer, current)
     \/ Cache!AskAbsent(Consumer, current)
  /\ at' = "inside"
  /\ UNCHANGED <<poolVars, scheduleVars, running, exception, stage, calls>>

(* The consumer makes the frame, or waits for the one who does. *)
Inside ==
  /\ at = "inside"
  /\ Cache!Made(Consumer) \/ Cache!Answer(Consumer)
  /\ UNCHANGED <<poolVars, scheduleVars, running, exception, at, stage, calls>>

GotFrame ==
  /\ at = "inside" /\ phase[Consumer] = "answered"
  /\ at' = "sched"
  /\ pass' = 2
  /\ UNCHANGED <<cacheVars, poolVars, current, stride, ahead, job, running, exception, stage, calls>>

ConsumerFails ==
  /\ at = "inside"
  /\ Cache!Fail(Consumer)
  /\ UNCHANGED <<poolVars, scheduleVars, running, exception, at, stage, calls>>

(* rollback, its notification, and the exception goes on to the caller. *)
ConsumerThrows ==
  /\ at = "inside"
  /\ StepBack(Consumer)
  /\ at' = IF phase'[Consumer] = "idle" THEN "idle" ELSE at
  /\ UNCHANGED <<poolVars, scheduleVars, running, exception, stage, calls>>

(* A frame that is waited for has been abandoned. *)
KeepWaiting ==
  /\ \E k \in Keys : Cache!WaitOn(k)
  /\ UNCHANGED <<poolVars, scheduleVars, running, exception, at, stage, calls>>

-----------------------------------------------------------------------------
(* ThreadWorker *)

TakeJob(w) ==
  /\ stage[w] = "idle"
  /\ Pool!Take(w)
  /\ stage' = [stage EXCEPT ![w] = "job"]
  /\ UNCHANGED <<cacheVars, scheduleVars, running, exception, at, calls>>

(* The child returns and the frame is committed. *)
MakeFrame(w) ==
  /\ stage[w] = "job"
  /\ Cache!Made(taken[w]) \/ Cache!Answer(taken[w])
  /\ UNCHANGED <<poolVars, scheduleVars, running, exception, at, stage, calls>>

(* The end of the try block; the handle is given back. *)
JobDone(w) ==
  /\ stage[w] = "job" /\ phase[taken[w]] = "answered"
  /\ Cache!Leave(taken[w])
  /\ running' = running - 1
  /\ stage' = [stage EXCEPT ![w] = "idle"]
  /\ Pool!Finish(w)
  /\ UNCHANGED <<scheduleVars, exception, at, calls>>

JobFails(w) ==
  /\ stage[w] = "job"
  /\ Cache!Fail(taken[w])
  /\ UNCHANGED <<poolVars, scheduleVars, running, exception, at, stage, calls>>

\* Mutant: running_workers is lowered with the rollback, before the
\* exception is kept.
RollbackJob_LowersCount(w) ==
  /\ stage[w] = "job"
  /\ StepBack(taken[w])
  /\ stage' = IF phase'[taken[w]] = "idle" THEN [stage EXCEPT ![w] = "record"] ELSE stage
  /\ running' = IF phase'[taken[w]] = "idle" THEN running - 1 ELSE running
  /\ UNCHANGED <<poolVars, scheduleVars, exception, at, calls>>

(* rollback, and its notification. *)
RollbackJob(w) ==
  /\ stage[w] = "job"
  /\ StepBack(taken[w])
  /\ stage' = IF phase'[taken[w]] = "idle" THEN [stage EXCEPT ![w] = "record"] ELSE stage
  /\ UNCHANGED <<poolVars, scheduleVars, running, exception, at, calls>>

(* Under worker_exception_mutex. *)
RecordException(w) ==
  /\ stage[w] = "record"
  /\ \A v \in Workers : stage[v] \notin {"lower", "unlock"}
  /\ exception' = TRUE
  /\ stage' = [stage EXCEPT ![w] = "lower"]
  /\ UNCHANGED <<cacheVars, poolVars, scheduleVars, running, at, calls>>

\* Mutant: the catch block does not lower the count.
LowerCount_Forgotten(w) ==
  /\ stage[w] = "lower"
  /\ stage' = [stage EXCEPT ![w] = "unlock"]
  /\ UNCHANGED <<cacheVars, poolVars, scheduleVars, running, exception, at, calls>>

LowerCount(w) ==
  /\ stage[w] = "lower"
  /\ running' = running - 1
  /\ stage' = [stage EXCEPT ![w] = "unlock"]
  /\ UNCHANGED <<cacheVars, poolVars, scheduleVars, exception, at, calls>>

Unlock(w) ==
  /\ stage[w] = "unlock"
  /\ stage' = [stage EXCEPT ![w] = "idle"]
  /\ Pool!Finish(w)
  /\ UNCHANGED <<cacheVars, scheduleVars, running, exception, at, calls>>

-----------------------------------------------------------------------------
(* Destroy, when nobody is in GetFrame any more *)

Destroy ==
  /\ at = "idle"
  /\ at' = "destroying"
  /\ UNCHANGED <<cacheVars, poolVars, scheduleVars, running, exception, stage, calls>>

(* Its loop ends, and everything is deleted. *)
Delete ==
  /\ at = "destroying" /\ running = 0
  /\ at' = "destroyed"
  /\ UNCHANGED <<cacheVars, poolVars, scheduleVars, running, exception, stage, calls>>

-----------------------------------------------------------------------------
ConsumerStep == \/ CheckException
                \/ ScheduleNothing \/ ScheduleFrame
                \/ CountJob \/ QueueJob \/ FirstPassEnds \/ SecondPassEnds
                \/ LookUp \/ Inside \/ GotFrame \/ ConsumerThrows
                \/ Delete
WorkerStep(w) == \/ TakeJob(w) \/ MakeFrame(w) \/ JobDone(w)
                 \/ RollbackJob(w) \/ RecordException(w) \/ LowerCount(w) \/ Unlock(w)

Next == \/ \E n \in Clip, s \in Strides : GetFrame(n, s)
        \/ ConsumerStep \/ ConsumerFails \/ KeepWaiting \/ Destroy
        \/ \E w \in Workers : WorkerStep(w) \/ JobFails(w)

Spec == Init /\ [][Next]_vars

(* The consumer and the workers are scheduled and the child's GetFrame     *)
(* ends; nobody has to call GetFrame or Destroy.                           *)
FairSpec == /\ Spec
            /\ WF_vars(ConsumerStep)
            /\ \A w \in Workers : WF_vars(WorkerStep(w))
-----------------------------------------------------------------------------
(* Properties *)

TypeOK == /\ running \in 0 .. Ahead
          /\ exception \in BOOLEAN
          /\ at \in ConsumerPlaces
          /\ current \in Clip \cup {0}
          /\ stride \in Strides
          /\ ahead \in Int
          /\ pass \in {1, 2}
          /\ job \in Jobs \cup {None}
          /\ stage \in [Workers -> Stages]
          /\ pending \in Seq(Jobs) /\ Len(pending) <= Room
          /\ taken \in [Workers -> Jobs \cup {None}]

(* The jobs that running_workers stands for: from the ++ before QueueJob   *)
(* to the -- of the worker, which in the catch block comes last.           *)
Outstanding ==
  (IF at = "push" THEN {job} ELSE {}) \cup Range(pending)
    \cup {taken[w] : w \in {v \in Workers : stage[v] \in {"job", "record", "lower"}}}

(* running_workers, an atomic that the consumer raises and the workers     *)
(* lower, is the number of jobs outstanding, and no job is in two places.  *)
CountIsExact ==
  /\ running = Cardinality(Outstanding)
  /\ IsInjective(pending)
  /\ \A w \in Workers : taken[w] # None => taken[w] \notin Range(pending)
  /\ \A v, w \in Workers : taken[v] = taken[w] /\ taken[v] # None => v = w

(* QueueJob never blocks the consumer inside GetFrame: a queue with room   *)
(* for nPrefetchFrames messages would do, and the pool's has three times   *)
(* as much.                                                                *)
QueueNeverFills == at = "push" => Len(pending) < Ahead

(* running_workers tells the jobs there are, and never lets them be too    *)
(* many for the queue.                                                     *)
JobsAccounted == TypeOK /\ CountIsExact /\ QueueNeverFills

(* When Destroy has left its loop and deletes the cache, the pool and the  *)
(* mutex, no job is queued, and no worker will touch the cache or the      *)
(* exception again.  (One may still be unlocking worker_exception_mutex.)  *)
NobodyLeft ==
  at = "destroyed" =>
    /\ pending = <<>>
    /\ \A w \in Workers : stage[w] \in {"idle", "unlock"}

(* A frame that SchedulePrefetch has reserved in VideoCache, where others  *)
(* will wait for it, is always on its way: somebody is making it, and if   *)
(* that is a job it is in the consumer's hands, queued or with a worker.   *)
(* (Only a frame whose maker failed while the consumer waited is not: see  *)
(* RolledBackIsTakenOver in MCLruCache.)                                   *)
OnItsWay(k) ==
  \E c \in Callers :
    /\ asked[c] = k /\ phase[c] \in {"making", "failed"}
    /\ c # Consumer => \/ at \in {"count", "push"} /\ job = c
                       \/ c \in Range(pending) \cup Range(taken)
ReservedIsOnItsWay ==
  \A k \in Keys : memo[k] = "busy" =>
    OnItsWay(k) \/ (faults > 0 /\ Cache!Waiters(k) # {})

(* GetFrame returns or throws, unless it waits for a frame whose maker has *)
(* failed meanwhile; and Destroy's loop ends, also when jobs fail.         *)
Stranded == /\ at = "inside" /\ phase[Consumer] = "waiting"
            /\ faults > 0 /\ ~OnItsWay(current)
EveryCallReturns ==
  /\ at \notin {"idle", "destroying", "destroyed"} ~> at = "idle" \/ Stranded
  /\ at = "destroying" ~> at = "destroyed"
=============================================================================
