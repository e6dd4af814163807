--------------------------- MODULE PrefetchPattern ---------------------------
(***************************************************************************)
(* The access-pattern detector of Prefetcher::GetFrame: from the distances *)
(* between the frames that are requested it decides which frames to        *)
(* prefetch.  While it is locked, SchedulePrefetch steps by LockedPattern, *)
(* otherwise by 1.                                                         *)
(*                                                                         *)
(* Only the consumer of the clip calls GetFrame, one call at a time, so    *)
(* that a call is one action.                                              *)
(***************************************************************************)
EXTENDS Integers

CONSTANTS
  Frames,      \* the frame numbers that are requested
  LockLength,  \* PATTERN_LOCK_LENGTH
  MaxMisses,   \* bound: PatternMisses stops counting here
  MaxStreak    \* bound: streak stops counting here

ASSUME FramesAssumption == Frames \subseteq Int
ASSUME LengthAssumption == /\ LockLength \in Nat \ {0}
                           /\ MaxMisses \in Nat /\ MaxMisses >= LockLength
                           /\ MaxStreak \in Nat \ {0}

VARIABLES
  isLocked,       \* IsLocked
  lockedPattern,  \* LockedPattern
  pattern,        \* Pattern
  hits,           \* PatternHits
  misses,         \* PatternMisses
  last,           \* LastRequestedFrame
  recent,         \* history: the last LockLength strides, the newest last
  streak          \* history: how often the newest stride has come in a row

detector == <<isLocked, lockedPattern, pattern, hits, misses, last>>
patternVars == <<isLocked, lockedPattern, pattern, hits, misses, last, recent, streak>>

PatternInit == /\ isLocked = FALSE
               /\ lockedPattern = 1
               /\ pattern = 1
               /\ hits = 0
               /\ misses = 0
               /\ last = 0
               /\ recent = [i \in 1 .. LockLength |-> 1]
               /\ streak = 0

(* The distance to the last request; asking again counts as going on. *)
Stride(n) == IF n = last THEN 1 ELSE n - last

(* PatternMisses + 1.  Past the lock length its value makes no difference. *)
OneMore(m) == IF m < MaxMisses THEN m + 1 ELSE m

\* Mutant: a miss of the locked pattern that hits no other is not counted.
MissesOf_Forgetful(s) == IF s = lockedPattern THEN 0
                         ELSE IF s = pattern THEN OneMore(misses) ELSE misses

(* What PatternHits and PatternMisses become while locked, on stride s:    *)
(* the hits track Pattern, the misses LockedPattern.                       *)
MissesOf(s) == IF s = lockedPattern THEN 0 ELSE OneMore(misses)

\* Mutant: the first of a new pattern counts as a repetition.
HitsOf_Eager(s) == IF s = lockedPattern THEN 0
                   ELSE IF s = pattern THEN hits + 1 ELSE 1

HitsOf(s) == IF s # lockedPattern /\ s = pattern THEN hits + 1 ELSE 0

(* GetFrame while locked.  Too many misses give up the locked pattern, for *)
(* the new one if that has repeated itself often enough.                   *)
RequestLocked(s) ==
  LET gone == MissesOf(s) >= LockLength
      next == HitsOf(s) >= LockLength
  IN  /\ isLocked
      /\ pattern' = s
      /\ isLocked' = (gone => next)
      /\ IF gone /\ next
         THEN lockedPattern' = s /\ hits' = 0 /\ misses' = 0
         ELSE lockedPattern' = lockedPattern /\ hits' = HitsOf(s) /\ misses' = MissesOf(s)

\* Mutant: PatternHits is not reset by a different stride.
RequestUnlocked_KeepsHits(s) ==
  LET h == IF s = pattern THEN hits + 1 ELSE hits
      lock == h >= LockLength
  IN  /\ ~isLocked
      /\ hits' = h
      /\ misses' = IF s = pattern \/ lock THEN 0 ELSE OneMore(misses)
      /\ isLocked' = lock
      /\ lockedPattern' = IF lock THEN s ELSE lockedPattern
      /\ UNCHANGED pattern

(* GetFrame while not locked: Pattern itself stays what it is. *)
RequestUnlocked(s) ==
  LET h == IF s = pattern THEN hits + 1 ELSE 0
      lock == h >= LockLength
  IN  /\ ~isLocked
      /\ hits' = h
      /\ misses' = IF s = pattern \/ lock THEN 0 ELSE OneMore(misses)
      /\ isLocked' = lock
      /\ lockedPattern' = IF lock THEN s ELSE lockedPattern
      /\ UNCHANGED pattern

Request(n) ==
  LET s == Stride(n)
  IN  /\ last' = n
      /\ RequestLocked(s) \/ RequestUnlocked(s)
      /\ recent' = [i \in 1 .. LockLength |-> IF i = LockLength THEN s ELSE recent[i + 1]]
      /\ streak' = IF s # recent[LockLength] THEN 1
                   ELSE IF streak < MaxStreak THEN streak + 1 ELSE streak

PatternNext == \E n \in Frames : Request(n)

PatternSpec == PatternInit /\ [][PatternNext]_patternVars

-----------------------------------------------------------------------------
(* Properties *)

(* The counters stay small: PatternHits never runs away while no pattern   *)
(* is found.                                                               *)
PatternTypeOK == /\ isLocked \in BOOLEAN
                 /\ lockedPattern \in Int
                 /\ pattern \in Int
                 /\ hits \in 0 .. LockLength
                 /\ misses \in 0 .. MaxMisses
                 /\ last \in Int
                 /\ recent \in [1 .. LockLength -> Int]
                 /\ streak \in 0 .. MaxStreak

(* A pattern that is locked on has been seen within the last LockLength    *)
(* requests: prefetching never keeps following a pattern the consumer has  *)
(* left for longer.                                                        *)
LockedIsRecent ==
  isLocked => \E i \in 1 .. LockLength : recent[i] = lockedPattern

(* The detector locks only on a stride that the last LockLength requests   *)
(* all had, so never on an interrupted one.                                *)
LocksOnStreak ==
  [][~isLocked /\ isLocked' => \A i \in 1 .. LockLength : recent'[i] = lockedPattern']_patternVars

(* The code that moves a lock from one pattern straight to another never   *)
(* runs: a new pattern always has fewer hits than the old one has misses,  *)
(* so that the lock is given up first.                                     *)
NoDirectSwitch ==
  [][isLocked /\ isLocked' => lockedPattern' = lockedPattern]_patternVars

(* "The number of intervals a pattern has to repeat itself to become       *)
(* (un)locked": a stride that has repeated itself that often, and more, is *)
(* locked on.  Refuted: Pattern is not updated while nothing is locked.    *)
SteadyStrideLocks ==
  streak = MaxStreak => isLocked /\ lockedPattern = recent[LockLength]

-----------------------------------------------------------------------------
(* The inductive invariant behind the theorems. *)

(* No pattern is locked: the last strides are the hits that were counted.  *)
HitsAreRecent ==
  /\ hits < LockLength
  /\ \A i \in 1 .. LockLength : i > LockLength - hits => recent[i] = pattern

(* A pattern is locked: it was hit `misses` strides ago, and the hits of   *)
(* the new pattern all came after that.                                    *)
MissesAreRecent ==
  /\ misses < LockLength
  /\ recent[LockLength - misses] = lockedPattern
  /\ pattern = recent[LockLength]
  /\ misses > 0 => /\ hits < misses
                   /\ \A i \in 1 .. LockLength :
                        i >= LockLength - hits => recent[i] = pattern

CountersMatchHistory == IF isLocked THEN MissesAreRecent ELSE HitsAreRecent

(* The counters tell what the last requests were, whatever the requests    *)
(* before them.                                                            *)
PatternInv == PatternTypeOK /\ CountersMatchHistory
=============================================================================
