----------------------------- MODULE CacheAudio -----------------------------
(***************************************************************************)
(* Cache::GetAudio: a caller may ask for samples before the beginning and  *)
(* after the end of the clip; those are silence, and the child is asked    *)
(* for the others only.  The call's arguments are clipped on one side      *)
(* after the other, with the buffer pointer moved along.                   *)
(***************************************************************************)
EXTENDS Integers

CONSTANTS Lengths, Starts, Counts \* num_audio_samples, and GetAudio's arguments

ASSUME AudioAssumption ==
  Lengths \subseteq Nat /\ Starts \subseteq Int /\ Counts \subseteq Int

VARIABLES
  length, \* num_audio_samples; 0 when the clip has no audio
  call,   \* the arguments of the call: start and count
  start, count,
  buf,    \* how far the buffer pointer has moved
  silent, \* the samples of the caller's buffer that were filled with zeros
  filled, \* those that the child was asked to fill
  pc

vars == <<length, call, start, count, buf, silent, filled, pc>>

Init == /\ length = 0
        /\ call = [start |-> 0, count |-> 0]
        /\ start = 0 /\ count = 0
        /\ buf = 0
        /\ silent = {} /\ filled = {}
        /\ pc = "idle"

(* Someone asks a clip of some length for samples. *)
Begin ==
  /\ pc = "idle" /\ pc' = "enter"
  /\ length' \in Lengths
  /\ call' \in [start : Starts, count : Counts]
  /\ start' = call'.start /\ count' = call'.count
  /\ UNCHANGED <<buf, silent, filled>>

(* FillAudioZeros. *)
Zeros(offset, n) == silent \cup (buf + offset .. buf + offset + n - 1)

(* Nothing of what is asked for is in the clip. *)
Outside == length = 0 \/ start + count <= 0 \/ start >= length

Enter ==
  /\ pc = "enter"
  /\ IF count <= 0
     THEN pc' = "return" /\ UNCHANGED silent
     ELSE IF Outside
     THEN pc' = "return" /\ silent' = Zeros(0, count)
     ELSE pc' = "front" /\ UNCHANGED silent
  /\ UNCHANGED <<length, call, start, count, buf, filled>>

\* Mutant: the buffer pointer is not moved.
ClipFront_SameBuffer ==
  /\ pc = "front"
  /\ IF start < 0
     THEN /\ silent' = Zeros(0, -start)
          /\ count' = count + start
          /\ start' = 0
     ELSE UNCHANGED <<silent, count, start>>
  /\ pc' = "end"
  /\ UNCHANGED <<length, call, buf, filled>>

ClipFront ==
  /\ pc = "front"
  /\ IF start < 0
     THEN /\ silent' = Zeros(0, -start)
          /\ count' = count + start
          /\ buf' = buf - start
          /\ start' = 0
     ELSE UNCHANGED <<silent, count, buf, start>>
  /\ pc' = "end"
  /\ UNCHANGED <<length, call, filled>>

ClipEnd ==
  /\ pc = "end"
  /\ IF start + count > length
     THEN /\ silent' = Zeros(length - start, count - (length - start))
          /\ count' = length - start
     ELSE UNCHANGED <<silent, count>>
  /\ pc' = "child"
  /\ UNCHANGED <<length, call, start, buf, filled>>

AskChild ==
  /\ pc = "child"
  /\ filled' = buf .. buf + count - 1
  /\ pc' = "return"
  /\ UNCHANGED <<length, call, start, count, buf, silent>>

Next == Begin \/ Enter \/ ClipFront \/ ClipEnd \/ AskChild

Spec == Init /\ [][Next]_vars
-----------------------------------------------------------------------------
(* Properties *)

(* The positions of the caller's buffer, those whose sample is in the clip *)
(* and those whose sample is not.                                          *)
Asked  == 0 .. call.count - 1
InClip == {i \in Asked : call.start + i \in 0 .. length - 1}

(* When GetAudio returns, every sample of the buffer has been written      *)
(* once, and none outside it: those in the clip by the child, the others   *)
(* with silence.                                                           *)
EverySampleOnce ==
  pc = "return" => silent = Asked \ InClip /\ filled = InClip
=============================================================================
