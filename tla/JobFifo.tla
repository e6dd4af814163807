------------------------------ MODULE JobFifo ------------------------------
(***************************************************************************)
(* What a ThreadPool promises, without ring, mutex or condition variables: *)
(* messages are handed to the workers in the order in which they were put, *)
(* each to one worker, and never more than Capacity of them are pending.   *)
(***************************************************************************)
EXTENDS Naturals, Sequences

CONSTANTS Capacity, Messages, Workers, None

VARIABLES
  pending, \* the messages that no worker has taken
  taken    \* the message each worker is busy with

fifoVars == <<pending, taken>>

Init == pending = <<>> /\ taken = [w \in Workers |-> None]

Put(m) == /\ Len(pending) < Capacity
          /\ pending' = Append(pending, m)
          /\ UNCHANGED taken

Take(w) == /\ taken[w] = None
           /\ pending # <<>>
           /\ taken' = [taken EXCEPT ![w] = Head(pending)]
           /\ pending' = Tail(pending)

Finish(w) == /\ taken[w] # None
             /\ taken' = [taken EXCEPT ![w] = None]
             /\ UNCHANGED pending

Next == \/ \E m \in Messages : Put(m)
        \/ \E w \in Workers : Take(w) \/ Finish(w)

Spec == Init /\ [][Next]_fifoVars
=============================================================================
