---------------------------- MODULE MessageQueue ----------------------------
(***************************************************************************)
(* mpmc_bounded_queue.h: a ring of fixed size behind a mutex, with one     *)
(* condition variable for the threads that find it full and one for those  *)
(* that find it empty.                                                     *)
(*                                                                         *)
(* A critical section of m_mutex is one action.  notify_one comes after    *)
(* the unlock and is an action of its own; a notification finds whoever is *)
(* asleep then.                                                            *)
(***************************************************************************)
EXTENDS Integers

CONSTANTS Capacity, None

ASSUME CapacityAssumption == Capacity \in Nat \ {0}

VARIABLES
  array, head, tail, size, \* circular_buffer
  notFull,                 \* the threads asleep on m_not_full
  notEmpty                 \* the threads asleep on m_not_empty

ring      == <<array, head, tail, size>>
queueVars == <<array, head, tail, size, notFull, notEmpty>>

Slots == 0 .. Capacity - 1

QueueInit == /\ array = [i \in Slots |-> None]
             /\ head = 0 /\ tail = 0 /\ size = 0
             /\ notFull = {} /\ notEmpty = {}

Full == size = Capacity

Empty == size = 0
Succ(i) == (i + 1) % Capacity

\* Mutant: a push ends up at the end that is read first.
Push_Overtakes(t, m) ==
  LET back == (tail + Capacity - 1) % Capacity
  IN  /\ t \notin notFull
      /\ ~Full
      /\ array' = [array EXCEPT ![back] = m]
      /\ tail' = back
      /\ size' = size + 1
      /\ UNCHANGED <<head, notFull, notEmpty>>

(* push_front up to its unlock, by a thread that finds room. *)
Push(t, m) ==
  /\ t \notin notFull
  /\ ~Full
  /\ array' = [array EXCEPT ![head] = m]
  /\ head' = Succ(head)
  /\ size' = size + 1
  /\ UNCHANGED <<tail, notFull, notEmpty>>

(* The wait of push_front: the mutex is released in the same step. *)
SleepWhileFull(t) ==
  /\ t \notin notFull
  /\ Full
  /\ notFull' = notFull \cup {t}
  /\ UNCHANGED <<ring, notEmpty>>

\* Mutant: pop_back leaves tail where it is.
Pop_Again(t, m) ==
  /\ t \notin notEmpty
  /\ ~Empty
  /\ m = array[tail]
  /\ size' = size - 1
  /\ UNCHANGED <<array, head, tail, notFull, notEmpty>>

(* pop_back up to its unlock, by a thread that finds the message m. *)
Pop(t, m) ==
  /\ t \notin notEmpty
  /\ ~Empty
  /\ m = array[tail]
  /\ tail' = Succ(tail)
  /\ size' = size - 1
  /\ UNCHANGED <<array, head, notFull, notEmpty>>

SleepWhileEmpty(t) ==
  /\ t \notin notEmpty
  /\ Empty
  /\ notEmpty' = notEmpty \cup {t}
  /\ UNCHANGED <<ring, notFull>>

\* Mutant: no notification.
NotifyNotEmpty_Forgotten == UNCHANGED queueVars

(* m_not_empty.notify_one, after a push. *)
NotifyNotEmpty ==
  /\ UNCHANGED <<ring, notFull>>
  /\ \/ notEmpty = {} /\ UNCHANGED notEmpty
     \/ \E u \in notEmpty : notEmpty' = notEmpty \ {u}

(* m_not_full.notify_one, after a pop. *)
NotifyNotFull ==
  /\ UNCHANGED <<ring, notEmpty>>
  /\ \/ notFull = {} /\ UNCHANGED notFull
     \/ \E u \in notFull : notFull' = notFull \ {u}

(* A condition variable may wake a thread up for no reason. *)
SpuriousWakeup ==
  /\ UNCHANGED ring
  /\ \/ \E u \in notEmpty : notEmpty' = notEmpty \ {u} /\ UNCHANGED notFull
     \/ \E u \in notFull : notFull' = notFull \ {u} /\ UNCHANGED notEmpty

(* The messages in the ring, the oldest first. *)
Contents == [i \in 1 .. size |-> array[(tail + i - 1) % Capacity]]

(* circular_buffer's fields agree: assert(size <= max_size), and size      *)
(* messages lie between tail and head.                                     *)
RingOK == /\ head \in Slots /\ tail \in Slots /\ size \in 0 .. Capacity
          /\ head = (tail + size) % Capacity
=============================================================================
