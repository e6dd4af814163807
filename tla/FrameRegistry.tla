---------------------------- MODULE FrameRegistry ----------------------------
(***************************************************************************)
(* How ScriptEnvironment hands out video frames and gets them back.        *)
(*                                                                         *)
(* A VideoFrame is a view of a VideoFrameBuffer; several frames may share  *)
(* one buffer (Subframe).  Both are reference counted: a frame by the      *)
(* PVideoFrames that point at it, a buffer by the frames in use.  Nothing  *)
(* is freed when a count reaches zero: FrameRegistry2 keeps every buffer   *)
(* with its frames, and GetNewFrame, under memory_mutex, gives out again   *)
(* those with no reference left, or deletes them.                          *)
(*                                                                         *)
(* The counts are changed without any mutex.  Each atomic operation on one *)
(* of them is an action; so is each critical section of memory_mutex.      *)
(*                                                                         *)
(* Local PVideoFrames are a thread's own; the cached ones stand for the    *)
(* entries of the frame caches, read and reset under the cache's mutex.    *)
(***************************************************************************)
EXTENDS Integers, FiniteSets, FiniteSetsExt

CONSTANTS
  Threads,
  Locals,  \* how many PVideoFrame variables a thread has
  Cached,  \* the PVideoFrames in cache entries
  Frames,  \* storage for VideoFrame objects
  Buffers, \* storage for VideoFrameBuffer objects
  Sizes,   \* the buffer sizes that are asked for
  None     \* a null pointer

Own(t) == {t} \X (1 .. Locals)
Handles == (Threads \X (1 .. Locals)) \cup Cached

ASSUME FrameSetsAssumption ==
  /\ IsFiniteSet(Threads) /\ IsFiniteSet(Cached) /\ IsFiniteSet(Frames)
  /\ IsFiniteSet(Buffers) /\ Locals \in Nat
  /\ Cached \cap (Threads \X (1 .. Locals)) = {}
  /\ None \notin Frames \cup Buffers \cup Handles
ASSUME FrameSizesAssumption == Sizes \subseteq Nat \ {0}

VARIABLES
  size,       \* the data_size of each buffer, 0 for storage that is free
  vrc,        \* the refcount of each buffer
  of,         \* the buffer of each frame, None for storage that is free
  frc,        \* the refcount of each frame
  registered, \* the frames in FrameRegistry2
  memoryUsed, \* memory_used
  ref,        \* what each PVideoFrame points at
  pc,         \* where each thread is
  raw,        \* the frame each thread has a plain pointer to
  owes,       \* the buffer each thread is about to lower the count of
  dst         \* the PVideoFrame each thread is working on

objects == <<size, vrc, of, frc, registered, memoryUsed>>
locals  == <<pc, raw, owes, dst>>
vars    == <<objects, ref, locals>>

(* The places of a thread.                                                 *)
(*   new    GetNewFrame has returned a frame, no PVideoFrame points at it  *)
(*   sub    VideoFrame::Subframe has returned, the frame not registered    *)
(*   check  IsWritable has found the frame's count to be 1                 *)
(*   copy   MakeWritable has to copy                                       *)
(*   fresh  MakeWritable has the frame to copy to                          *)
(*   drop   PVideoFrame::Set is about to release what it pointed at        *)
(*   last   Release has taken a frame's count to 0, not yet the buffer's   *)
(*   write  the frame is being written to                                  *)
Places == {"idle", "new", "sub", "check", "copy", "fresh", "drop", "last", "write"}

Init == /\ size = [b \in Buffers |-> 0]
        /\ vrc = [b \in Buffers |-> 0]
        /\ of = [f \in Frames |-> None]
        /\ frc = [f \in Frames |-> 0]
        /\ registered = {}
        /\ memoryUsed = 0
        /\ ref = [h \in Handles |-> None]
        /\ pc = [t \in Threads |-> "idle"]
        /\ raw = [t \in Threads |-> None]
        /\ owes = [t \in Threads |-> None]
        /\ dst = [t \in Threads |-> None]

Buffered == {b \in Buffers : size[b] > 0}
Listed(b) == {f \in registered : of[f] = b}
Unused == {b \in Buffered : vrc[b] = 0}

-----------------------------------------------------------------------------
(* GetNewFrame, one critical section of memory_mutex *)

(* Where an unused buffer may be taken from: the smallest that has room,   *)
(* if it is not more than half as large again.                             *)
Fits(s) == {b \in Unused : size[b] >= s /\ 2 * size[b] <= 3 * s /\ Listed(b) # {}}
Smallest(B) == {b \in B : \A c \in B : size[b] <= size[c]}

\* Mutant: the other frames leave the list without being deleted.
Reuse_NoDelete(t, s, place) ==
  \E b \in Smallest(Fits(s)) : \E f \in Listed(b) :
    LET others == Listed(b) \ {f}
    IN  /\ vrc' = [vrc EXCEPT ![b] = @ + 1]
        /\ registered' = registered \ others
        /\ raw' = [raw EXCEPT ![t] = f]
        /\ pc' = [pc EXCEPT ![t] = place]
        /\ UNCHANGED <<size, of, frc, memoryUsed>>

(* An unused buffer is given out again with one of its frames; its other   *)
(* frames are deleted.                                                     *)
Reuse(t, s, place) ==
  \E b \in Smallest(Fits(s)) : \E f \in Listed(b) :
    LET others == Listed(b) \ {f}
    IN  /\ vrc' = [vrc EXCEPT ![b] = @ + 1]
        /\ of' = [g \in Frames |-> IF g \in others THEN None ELSE of[g]]
        /\ registered' = registered \ others
        /\ raw' = [raw EXCEPT ![t] = f]
        /\ pc' = [pc EXCEPT ![t] = place]
        /\ UNCHANGED <<size, frc, memoryUsed>>

(* What is deleted before an allocation: nothing; every unused buffer when *)
(* EnsureMemoryLimit has shrunk caches; those that are not larger than the *)
(* request when a first allocation has failed.                             *)
Collections(s) == {{}, Unused, {b \in Unused : size[b] <= s}}

MemoryAfter(D) == memoryUsed - MapThenSumSet(LAMBDA b : size[b], D)

Deleted(D) == {f \in registered : of[f] \in D}

(* No buffer fits: D is deleted, then a buffer and its first frame are     *)
(* allocated.                                                              *)
Allocate(t, s, place) ==
  /\ Fits(s) = {}
  /\ \E D \in Collections(s) :
       \E b \in (Buffers \ Buffered) \cup D, f \in {g \in Frames : of[g] = None} \cup Deleted(D) :
         /\ size' = [c \in Buffers |-> IF c = b THEN s ELSE IF c \in D THEN 0 ELSE size[c]]
         /\ vrc' = [vrc EXCEPT ![b] = 1]
         /\ of' = [g \in Frames |-> IF g = f THEN b ELSE IF g \in Deleted(D) THEN None ELSE of[g]]
         /\ frc' = [frc EXCEPT ![f] = 0]
         /\ registered' = (registered \ Deleted(D)) \cup {f}
         /\ memoryUsed' = MemoryAfter(D) + s
         /\ raw' = [raw EXCEPT ![t] = f]
  /\ pc' = [pc EXCEPT ![t] = place]

(* Both allocations fail, and GetNewFrame throws. *)
OutOfMemory(t, s) ==
  /\ Fits(s) = {}
  /\ \E D \in {Unused, {b \in Unused : size[b] <= s}} :
       /\ size' = [c \in Buffers |-> IF c \in D THEN 0 ELSE size[c]]
       /\ of' = [g \in Frames |-> IF g \in Deleted(D) THEN None ELSE of[g]]
       /\ registered' = registered \ Deleted(D)
       /\ memoryUsed' = MemoryAfter(D)
  /\ pc' = [pc EXCEPT ![t] = "idle"]
  /\ dst' = [dst EXCEPT ![t] = None]
  /\ UNCHANGED <<vrc, frc, raw>>

(* NewVideoFrame up to the return of GetNewFrame. *)
NewVideoFrame(t, h) ==
  /\ pc[t] = "idle" /\ ref[h] = None
  /\ \E s \in Sizes : \/ Reuse(t, s, "new") /\ dst' = [dst EXCEPT ![t] = h]
                      \/ Allocate(t, s, "new") /\ dst' = [dst EXCEPT ![t] = h]
                      \/ OutOfMemory(t, s)
  /\ UNCHANGED <<ref, owes>>

(* PVideoFrame(res): the new frame gets its first reference. *)
FirstReference(t) ==
  /\ pc[t] = "new"
  /\ frc' = [frc EXCEPT ![raw[t]] = @ + 1]
  /\ ref' = [ref EXCEPT ![dst[t]] = raw[t]]
  /\ pc' = [pc EXCEPT ![t] = "idle"]
  /\ raw' = [raw EXCEPT ![t] = None]
  /\ dst' = [dst EXCEPT ![t] = None]
  /\ UNCHANGED <<size, vrc, of, registered, memoryUsed, owes>>

-----------------------------------------------------------------------------
(* Subframe *)

(* VideoFrame::Subframe: another frame on the buffer of src, before the    *)
(* mutex is taken.                                                         *)
NewSubframe(t, from, to) ==
  /\ pc[t] = "idle" /\ ref[from] # None /\ ref[to] = None
  /\ \E f \in Frames :
       /\ of[f] = None
       /\ of' = [of EXCEPT ![f] = of[ref[from]]]
       /\ frc' = [frc EXCEPT ![f] = 0]
       /\ vrc' = [vrc EXCEPT ![of[ref[from]]] = @ + 1]
       /\ raw' = [raw EXCEPT ![t] = f]
  /\ pc' = [pc EXCEPT ![t] = "sub"]
  /\ dst' = [dst EXCEPT ![t] = to]
  /\ UNCHANGED <<size, registered, memoryUsed, ref, owes>>

(* The frame is registered; the PVideoFrame is made before the mutex is    *)
(* released.                                                               *)
RegisterSubframe(t) ==
  /\ pc[t] = "sub"
  /\ registered' = registered \cup {raw[t]}
  /\ frc' = [frc EXCEPT ![raw[t]] = @ + 1]
  /\ ref' = [ref EXCEPT ![dst[t]] = raw[t]]
  /\ pc' = [pc EXCEPT ![t] = "idle"]
  /\ raw' = [raw EXCEPT ![t] = None]
  /\ dst' = [dst EXCEPT ![t] = None]
  /\ UNCHANGED <<size, vrc, of, memoryUsed, owes>>

-----------------------------------------------------------------------------
(* PVideoFrame and VideoFrame::Release *)

(* The copy constructor. *)
Copy(t, from, to) ==
  /\ pc[t] = "idle" /\ ref[from] # None /\ ref[to] = None
  /\ frc' = [frc EXCEPT ![ref[from]] = @ + 1]
  /\ ref' = [ref EXCEPT ![to] = ref[from]]
  /\ UNCHANGED <<size, vrc, of, registered, memoryUsed, locals>>

(* PVideoFrame::Set: AddRef for the new frame comes before the old one's   *)
(* Release.                                                                *)
Assign(t, from, to) ==
  /\ pc[t] = "idle" /\ ref[from] # None /\ ref[to] # None
  /\ frc' = [frc EXCEPT ![ref[from]] = @ + 1]
  /\ ref' = [ref EXCEPT ![to] = ref[from]]
  /\ raw' = [raw EXCEPT ![t] = ref[to]]
  /\ pc' = [pc EXCEPT ![t] = "drop"]
  /\ UNCHANGED <<size, vrc, of, registered, memoryUsed, owes, dst>>

(* Where a thread goes on after a Release: into the write that it has      *)
(* prepared, if any.                                                       *)
Resumes(t) == IF dst[t] = None THEN "idle" ELSE "write"

\* Mutant: off by one, a frame with one reference left counts as released
\* by everybody.
Released_LateTest(t, f) ==
  /\ frc' = [frc EXCEPT ![f] = @ - 1]
  /\ IF frc[f] <= 2
     THEN /\ pc' = [pc EXCEPT ![t] = "last"]
          /\ owes' = [owes EXCEPT ![t] = of[f]]
     ELSE /\ pc' = [pc EXCEPT ![t] = Resumes(t)]
          /\ UNCHANGED owes

(* VideoFrame::Release up to its second decrement. *)
Released(t, f) ==
  /\ frc' = [frc EXCEPT ![f] = @ - 1]
  /\ IF frc[f] = 1
     THEN /\ pc' = [pc EXCEPT ![t] = "last"]
          /\ owes' = [owes EXCEPT ![t] = of[f]]
     ELSE /\ pc' = [pc EXCEPT ![t] = Resumes(t)]
          /\ UNCHANGED owes

(* A PVideoFrame is destructed, or reset to null. *)
Release(t, h) ==
  /\ pc[t] = "idle" /\ ref[h] # None
  /\ ref' = [ref EXCEPT ![h] = None]
  /\ Released(t, ref[h])
  /\ UNCHANGED <<size, vrc, of, registered, memoryUsed, raw, dst>>

(* The Release inside PVideoFrame::Set. *)
ReleaseOld(t) ==
  /\ pc[t] = "drop"
  /\ Released(t, raw[t])
  /\ raw' = [raw EXCEPT ![t] = None]
  /\ UNCHANGED <<size, vrc, of, registered, memoryUsed, ref, dst>>

(* Release's second decrement. *)
ReleaseBuffer(t) ==
  /\ pc[t] = "last"
  /\ vrc' = [vrc EXCEPT ![owes[t]] = @ - 1]
  /\ owes' = [owes EXCEPT ![t] = None]
  /\ pc' = [pc EXCEPT ![t] = Resumes(t)]
  /\ UNCHANGED <<size, of, frc, registered, memoryUsed, ref, raw, dst>>

-----------------------------------------------------------------------------
(* MakeWritable *)

(* IsWritable's first test. *)
MakeWritable(t, h) ==
  /\ pc[t] = "idle" /\ ref[h] # None
  /\ dst' = [dst EXCEPT ![t] = h]
  /\ pc' = [pc EXCEPT ![t] = IF frc[ref[h]] = 1 THEN "check" ELSE "copy"]
  /\ UNCHANGED <<objects, ref, raw, owes>>

\* Mutant: IsWritable looks at the frame's count only.
CheckBuffer_Skipped(t) ==
  /\ pc[t] = "check"
  /\ pc' = [pc EXCEPT ![t] = "write"]
  /\ UNCHANGED <<objects, ref, raw, owes, dst>>

(* Its second. *)
CheckBuffer(t) ==
  /\ pc[t] = "check"
  /\ pc' = [pc EXCEPT ![t] = IF vrc[of[ref[dst[t]]]] = 1 THEN "write" ELSE "copy"]
  /\ UNCHANGED <<objects, ref, raw, owes, dst>>

(* The NewVideoFrame of MakeWritable, for a frame of the same size. *)
NewCopy(t) ==
  /\ pc[t] = "copy"
  /\ LET s == size[of[ref[dst[t]]]]
     IN  \/ Reuse(t, s, "fresh") /\ UNCHANGED dst
         \/ Allocate(t, s, "fresh") /\ UNCHANGED dst
         \/ OutOfMemory(t, s)
  /\ UNCHANGED <<ref, owes>>

(* The data are copied and the caller's PVideoFrame set to the copy, whose *)
(* references by local variables have come and gone.                       *)
SetToCopy(t) ==
  /\ pc[t] = "fresh"
  /\ frc' = [frc EXCEPT ![raw[t]] = @ + 1]
  /\ ref' = [ref EXCEPT ![dst[t]] = raw[t]]
  /\ raw' = [raw EXCEPT ![t] = ref[dst[t]]]
  /\ pc' = [pc EXCEPT ![t] = "drop"]
  /\ UNCHANGED <<size, vrc, of, registered, memoryUsed, owes, dst>>

Written(t) ==
  /\ pc[t] = "write"
  /\ pc' = [pc EXCEPT ![t] = "idle"]
  /\ dst' = [dst EXCEPT ![t] = None]
  /\ UNCHANGED <<objects, ref, raw, owes>>

-----------------------------------------------------------------------------
Next ==
  \E t \in Threads :
    \/ \E h \in Own(t) : NewVideoFrame(t, h) \/ MakeWritable(t, h)
    \/ \E h \in Own(t) \cup Cached : Release(t, h)
    \/ \E from \in Own(t) \cup Cached, to \in Own(t) :
         from # to /\ (Copy(t, from, to) \/ Assign(t, from, to))
    \/ \E from \in Own(t), to \in Own(t) : NewSubframe(t, from, to)
    \/ \E from \in Own(t), to \in Cached : Copy(t, from, to)
    \/ FirstReference(t) \/ RegisterSubframe(t)
    \/ ReleaseOld(t) \/ ReleaseBuffer(t)
    \/ CheckBuffer(t) \/ NewCopy(t) \/ SetToCopy(t) \/ Written(t)

Spec == Init /\ [][Next]_vars
-----------------------------------------------------------------------------
(* Properties *)

TypeOK == /\ size \in [Buffers -> Nat]
          /\ vrc \in [Buffers -> Nat]
          /\ of \in [Frames -> Buffers \cup {None}]
          /\ frc \in [Frames -> Nat]
          /\ registered \subseteq Frames
          /\ ref \in [Handles -> Frames \cup {None}]
          /\ pc \in [Threads -> Places]
          /\ raw \in [Threads -> Frames \cup {None}]
          /\ owes \in [Threads -> Buffers \cup {None}]
          /\ dst \in [Threads -> Handles \cup {None}]

(* What points at a frame: PVideoFrames, and a Set between its AddRef and  *)
(* its Release.                                                            *)
References(f) == {h \in Handles : ref[h] = f}
Dropping(f) == {t \in Threads : pc[t] = "drop" /\ raw[t] = f}

(* What holds on to a buffer: its frames in use, a frame that has no       *)
(* reference yet, and a Release between its two decrements.                *)
InUse(b) == {f \in Frames : of[f] = b /\ frc[f] > 0}
Starting(b) == {t \in Threads : pc[t] \in {"new", "sub", "fresh"} /\ of[raw[t]] = b}
Finishing(b) == {t \in Threads : pc[t] = "last" /\ owes[t] = b}

(* The two reference counts, changed one after the other and by several    *)
(* threads at a time, are exact at every moment: a frame's is the number   *)
(* of its references, a buffer's that of its frames in use and of the      *)
(* operations in progress.                                                 *)
CountsExact ==
  /\ \A f \in Frames : of[f] # None =>
       frc[f] = Cardinality(References(f)) + Cardinality(Dropping(f))
  /\ \A b \in Buffered :
       vrc[b] = Cardinality(InUse(b)) + Cardinality(Starting(b)) + Cardinality(Finishing(b))

(* GetNewFrame asserts that the frames of an unused buffer are unused, and *)
(* gives out or deletes them at once.                                      *)
UnusedMeansUnused ==
  \A b \in Unused : \A f \in Frames : of[f] = b =>
    /\ frc[f] = 0 /\ References(f) = {}
    /\ \A t \in Threads : raw[t] # f

(* No object is deleted or given to somebody else while anyone can still   *)
(* reach it: through a PVideoFrame, through a plain pointer between two    *)
(* steps, or in Release's second decrement, which touches a buffer that    *)
(* its caller no longer holds a reference to.                              *)
NothingDangles ==
  /\ \A h \in Handles : ref[h] # None => of[ref[h]] \in Buffered
  /\ \A t \in Threads : /\ raw[t] # None => of[raw[t]] \in Buffered
                        /\ owes[t] # None => owes[t] \in Buffered

(* Together: the counts are right, GetNewFrame may believe them, and       *)
(* nothing dangles.                                                        *)
CountsSound == TypeOK /\ CountsExact /\ UnusedMeansUnused /\ NothingDangles

(* A thread that MakeWritable has let write to a frame is alone with its   *)
(* buffer: no other PVideoFrame of any thread or cache shows its data.     *)
WriterIsAlone ==
  \A t \in Threads : pc[t] = "write" =>
    \A h \in Handles \ {dst[t]} : ref[h] # None => of[ref[h]] # of[ref[dst[t]]]

(* memory_used is the size of the buffers that exist, which is what the    *)
(* limit of SetMemoryMax is held against.                                  *)
MemoryAccounted == memoryUsed \in Nat /\ memoryUsed = MapThenSumSet(LAMBDA b : size[b], Buffered)

(* Everything that was allocated can be found again: each buffer is in the *)
(* registry with a frame, and each frame but those on their way in.        *)
NothingLeaks ==
  /\ \A b \in Buffered : Listed(b) # {}
  /\ \A f \in Frames : of[f] # None /\ f \notin registered =>
       \E t \in Threads : pc[t] = "sub" /\ raw[t] = f

(* memory_used tells what the environment owns, and it can be collected.   *)
MemorySound == MemoryAccounted /\ NothingLeaks
=============================================================================
