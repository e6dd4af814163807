-------------------------- MODULE PrefetcherProofs ---------------------------
(***************************************************************************)
(* Theorems about Prefetcher.cpp, for every number of threads, of frames   *)
(* and of failures: about the pattern detector, for every lock length and  *)
(* every sequence of requests, and about the jobs, for every stride that a *)
(* detector might answer with.                                             *)
(***************************************************************************)
EXTENDS Prefetcher, PrefetchPattern, FiniteSetTheorems, WellFoundedInduction, TLAPS

-----------------------------------------------------------------------------
(* The pattern detector *)

(* The stride of a request is an integer whatever was requested before.    *)
LEMMA StrideType ==
  ASSUME PatternTypeOK, NEW n \in Frames
  PROVE  Stride(n) \in Int /\ n \in Int
BY FramesAssumption DEF PatternTypeOK, Stride

(* Counting a miss stays within the bound, and is exact below it.          *)
LEMMA OneMoreBounds ==
  ASSUME NEW m \in 0 .. MaxMisses
  PROVE  /\ OneMore(m) \in 0 .. MaxMisses
         /\ m < LockLength => OneMore(m) = m + 1
BY LengthAssumption DEF OneMore

(* A request shifts the history by one stride.                             *)
LEMMA Shift ==
  ASSUME PatternTypeOK, NEW n \in Frames, Request(n)
  PROVE  /\ recent' \in [1 .. LockLength -> Int]
         /\ recent'[LockLength] = Stride(n)
         /\ \A i \in 1 .. LockLength : i < LockLength => recent'[i] = recent[i + 1]
<1>1. Stride(n) \in Int BY StrideType
<1>2. recent' = [i \in 1 .. LockLength |->
                   IF i = LockLength THEN Stride(n) ELSE recent[i + 1]]
  BY DEF Request
<1>3. \A i \in 1 .. LockLength : i < LockLength => i + 1 \in 1 .. LockLength
  BY LengthAssumption
<1>4. LockLength \in 1 .. LockLength BY LengthAssumption
<1> QED BY <1>1, <1>2, <1>3, <1>4 DEF PatternTypeOK

(* What a request does to the counters while a pattern is locked and the   *)
(* new one has not been hit LockLength times.                              *)
LEMMA LockedCases ==
  ASSUME NEW s, RequestLocked(s), ~(HitsOf(s) >= LockLength)
  PROVE  /\ pattern' = s /\ lockedPattern' = lockedPattern
         /\ hits' = HitsOf(s) /\ misses' = MissesOf(s)
         /\ MissesOf(s) >= LockLength => ~isLocked' /\ isLocked' \in BOOLEAN
         /\ ~(MissesOf(s) >= LockLength) => isLocked' /\ isLocked' \in BOOLEAN
BY Zenon DEF RequestLocked

(* What a request does while no pattern is locked.                         *)
LEMMA UnlockedCases ==
  ASSUME NEW s, NEW h, RequestUnlocked(s), h = IF s = pattern THEN hits + 1 ELSE 0
  PROVE  /\ pattern' = pattern /\ hits' = h
         /\ h >= LockLength => /\ isLocked' /\ isLocked' \in BOOLEAN
                               /\ lockedPattern' = s /\ misses' = 0
         /\ ~(h >= LockLength) =>
              /\ ~isLocked' /\ isLocked' \in BOOLEAN
              /\ lockedPattern' = lockedPattern
              /\ misses' = IF s = pattern THEN 0 ELSE OneMore(misses)
<1>1. /\ pattern' = pattern /\ hits' = h
      /\ misses' = IF s = pattern \/ h >= LockLength THEN 0 ELSE OneMore(misses)
      /\ isLocked' = (h >= LockLength)
      /\ lockedPattern' = IF h >= LockLength THEN s ELSE lockedPattern
  BY DEF RequestUnlocked
<1>2. CASE h >= LockLength
  <2>1. isLocked' = TRUE BY <1>1, <1>2, Zenon
  <2> QED BY <1>1, <1>2, <2>1, Zenon
<1>3. CASE ~(h >= LockLength)
  <2>1. isLocked' = FALSE
    <3>1. (h >= LockLength) = FALSE BY <1>3
    <3> QED BY <1>1, <3>1, Zenon
  <2>2. misses' = IF s = pattern THEN 0 ELSE OneMore(misses) BY <1>1, <1>3, Zenon
  <2> QED BY <1>1, <1>3, <2>1, <2>2, Zenon
<1> QED BY <1>2, <1>3, Zenon

(* The rest of the type invariant: what a request does to the variables    *)
(* that do not depend on whether a pattern is locked.                      *)
LEMMA TypeStep ==
  ASSUME PatternTypeOK, NEW n \in Frames, Request(n),
         isLocked' \in BOOLEAN, lockedPattern' \in Int, pattern' \in Int,
         hits' \in 0 .. LockLength, misses' \in 0 .. MaxMisses
  PROVE  PatternTypeOK'
<1>1. last' \in Int BY StrideType DEF Request
<1>2. recent' \in [1 .. LockLength -> Int] BY Shift
<1>3. streak' \in 0 .. MaxStreak BY LengthAssumption DEF Request, PatternTypeOK
<1> QED BY <1>1, <1>2, <1>3, Zenon DEF PatternTypeOK

(* A request while a pattern is locked keeps the invariant.                *)
LEMMA LockedStep ==
  ASSUME PatternInv, NEW n \in Frames, Request(n), NEW s, s = Stride(n), RequestLocked(s)
  PROVE  /\ PatternInv'
         /\ lockedPattern' = lockedPattern
<1>1. s \in Int BY StrideType DEF PatternInv
<1>2. /\ recent' \in [1 .. LockLength -> Int]
      /\ recent'[LockLength] = s
      /\ \A i \in 1 .. LockLength : i < LockLength => recent'[i] = recent[i + 1]
  BY Shift DEF PatternInv
<1>3. MissesAreRecent BY DEF PatternInv, CountersMatchHistory, RequestLocked
<1>4. /\ LockLength \in Nat /\ LockLength > 0
      /\ MaxMisses \in Nat /\ MaxMisses >= LockLength
  BY LengthAssumption
<1>5. /\ hits \in 0 .. LockLength /\ misses \in 0 .. MaxMisses
      /\ lockedPattern \in Int /\ pattern \in Int /\ recent \in [1 .. LockLength -> Int]
  BY DEF PatternInv, PatternTypeOK
<1>6. /\ misses < LockLength
      /\ recent[LockLength - misses] = lockedPattern
      /\ pattern = recent[LockLength]
      /\ misses > 0 => hits < misses
      /\ misses > 0 => \A i \in 1 .. LockLength :
                         i >= LockLength - hits => recent[i] = pattern
  BY <1>3 DEF MissesAreRecent
<1>7. OneMore(misses) = misses + 1 BY <1>5, <1>6, OneMoreBounds
<1>8. CASE s = lockedPattern
  <2>1. MissesOf(s) = 0 /\ HitsOf(s) = 0 BY <1>8 DEF MissesOf, HitsOf
  <2>2. ~(MissesOf(s) >= LockLength) /\ ~(HitsOf(s) >= LockLength) BY <1>4, <2>1
  <2>3. /\ isLocked' /\ isLocked' \in BOOLEAN
        /\ lockedPattern' = lockedPattern /\ pattern' = s
        /\ hits' = 0 /\ misses' = 0
    BY <2>1, <2>2, LockedCases, Zenon
  <2>4. 0 \in 0 .. LockLength /\ 0 \in 0 .. MaxMisses BY <1>4
  <2>5. PatternTypeOK' BY <1>1, <1>5, <2>3, <2>4, TypeStep, Zenon DEF PatternInv
  <2>6. MissesAreRecent' BY <1>2, <1>4, <1>8, <2>3 DEF MissesAreRecent
  <2> QED BY <2>3, <2>5, <2>6, Zenon DEF PatternInv, CountersMatchHistory
<1>9. CASE s # lockedPattern
  <2> DEFINE h == IF s = pattern THEN hits + 1 ELSE 0
  <2>1. MissesOf(s) = misses + 1 /\ HitsOf(s) = h
    BY <1>7, <1>9 DEF MissesOf, HitsOf
  (* The hits are counted after the last stride that hit the lock: when    *)
  (* there was no miss yet, Pattern is the locked pattern itself.          *)
  <2>2. h \in 0 .. misses
    <3>1. misses = 0 => pattern = lockedPattern BY <1>4, <1>5, <1>6
    <3> QED BY <1>5, <1>6, <1>9, <3>1
  <2>3. \A i \in 1 .. LockLength : i >= LockLength - h => recent'[i] = s
    <3> SUFFICES ASSUME NEW i \in 1 .. LockLength, i >= LockLength - h
                 PROVE  recent'[i] = s
      OBVIOUS
    <3>1. CASE i = LockLength BY <1>2, <3>1
    <3>2. CASE i # LockLength
      <4>1. i < LockLength /\ s = pattern /\ misses > 0 /\ h = hits + 1
        BY <1>4, <1>5, <2>2, <3>2
      <4>2. i + 1 \in 1 .. LockLength /\ i + 1 >= LockLength - hits
        BY <1>4, <1>5, <4>1
      <4>3. recent[i + 1] = pattern BY <1>6, <4>1, <4>2
      <4> QED BY <1>2, <4>1, <4>3
    <3> QED BY <3>1, <3>2
  <2>4. ~(h >= LockLength) /\ h \in 0 .. LockLength /\ misses + 1 \in 0 .. MaxMisses
    BY <1>4, <1>5, <1>6, <2>2
  <2>5. /\ lockedPattern' = lockedPattern /\ pattern' = s
        /\ hits' = h /\ misses' = misses + 1
        /\ misses + 1 >= LockLength => ~isLocked' /\ isLocked' \in BOOLEAN
        /\ ~(misses + 1 >= LockLength) => isLocked' /\ isLocked' \in BOOLEAN
    <3> HIDE DEF h
    <3> QED BY <2>1, <2>4, LockedCases, Zenon
  <2>6. PatternTypeOK'
    <3> HIDE DEF h
    <3> QED BY <1>1, <1>5, <2>4, <2>5, TypeStep, Zenon DEF PatternInv
  <2>7. CASE misses + 1 >= LockLength
    <3>1. HitsAreRecent' BY <1>4, <2>3, <2>4, <2>5 DEF HitsAreRecent
    <3> QED BY <2>5, <2>6, <2>7, <3>1, Zenon DEF PatternInv, CountersMatchHistory
  <2>8. CASE ~(misses + 1 >= LockLength)
    <3>1. recent'[LockLength - (misses + 1)] = lockedPattern
      <4>1. /\ LockLength - (misses + 1) \in 1 .. LockLength
            /\ LockLength - (misses + 1) < LockLength
            /\ (LockLength - (misses + 1)) + 1 = LockLength - misses
        BY <1>4, <1>5, <2>8
      <4> QED BY <1>2, <1>6, <4>1
    <3>2. h < misses + 1 /\ misses + 1 < LockLength BY <1>4, <1>5, <2>2, <2>8
    <3>3. MissesAreRecent'
      <4> HIDE DEF h
      <4> QED BY <1>2, <2>3, <2>5, <3>1, <3>2 DEF MissesAreRecent
    <3> QED BY <2>5, <2>6, <2>8, <3>3, Zenon DEF PatternInv, CountersMatchHistory
  <2> QED BY <2>7, <2>8
<1> QED BY <1>8, <1>9

(* A request while no pattern is locked keeps the invariant, and when it   *)
(* locks one, every recent stride is that pattern.                         *)
LEMMA UnlockedStep ==
  ASSUME PatternInv, NEW n \in Frames, Request(n), NEW s, s = Stride(n), RequestUnlocked(s)
  PROVE  /\ PatternInv'
         /\ isLocked' => \A i \in 1 .. LockLength : recent'[i] = lockedPattern'
<1> DEFINE h == IF s = pattern THEN hits + 1 ELSE 0
<1>1. s \in Int BY StrideType DEF PatternInv
<1>2. /\ recent' \in [1 .. LockLength -> Int]
      /\ recent'[LockLength] = s
      /\ \A i \in 1 .. LockLength : i < LockLength => recent'[i] = recent[i + 1]
  BY Shift DEF PatternInv
<1>3. HitsAreRecent BY DEF PatternInv, CountersMatchHistory, RequestUnlocked
<1>4. /\ LockLength \in Nat /\ LockLength > 0 /\ MaxMisses \in Nat
  BY LengthAssumption
<1>5. /\ hits \in 0 .. LockLength /\ misses \in 0 .. MaxMisses
      /\ lockedPattern \in Int /\ pattern \in Int /\ recent \in [1 .. LockLength -> Int]
  BY DEF PatternInv, PatternTypeOK
<1>6. /\ hits < LockLength
      /\ \A i \in 1 .. LockLength : i > LockLength - hits => recent[i] = pattern
  BY <1>3 DEF HitsAreRecent
<1>7. OneMore(misses) \in 0 .. MaxMisses BY <1>5, OneMoreBounds
<1>8. h \in 0 .. LockLength /\ (h >= LockLength => h = LockLength /\ s = pattern)
  BY <1>4, <1>5, <1>6
<1>9. \A i \in 1 .. LockLength : i > LockLength - h => recent'[i] = pattern
  <2> SUFFICES ASSUME NEW i \in 1 .. LockLength, i > LockLength - h
               PROVE  recent'[i] = pattern
    OBVIOUS
  <2>1. s = pattern /\ h = hits + 1 BY <1>4, <1>5
  <2>2. CASE i = LockLength BY <1>2, <2>1, <2>2
  <2>3. CASE i # LockLength
    <3>1. i < LockLength /\ i + 1 \in 1 .. LockLength /\ i + 1 > LockLength - hits
      BY <1>4, <1>5, <2>1, <2>3
    <3> QED BY <1>2, <1>6, <3>1
  <2> QED BY <2>2, <2>3
<1>10. /\ pattern' = pattern /\ hits' = h
       /\ h >= LockLength => /\ isLocked' /\ isLocked' \in BOOLEAN
                             /\ lockedPattern' = s /\ misses' = 0
       /\ ~(h >= LockLength) =>
            /\ ~isLocked' /\ isLocked' \in BOOLEAN
            /\ lockedPattern' = lockedPattern
            /\ misses' = IF s = pattern THEN 0 ELSE OneMore(misses)
  BY UnlockedCases, Zenon
<1> HIDE DEF h
<1>11. CASE h >= LockLength
  <2>1. 0 \in 0 .. MaxMisses BY <1>4
  <2>2. PatternTypeOK' BY <1>1, <1>5, <1>8, <1>10, <1>11, <2>1, TypeStep, Zenon DEF PatternInv
  <2>3. \A i \in 1 .. LockLength : recent'[i] = s BY <1>4, <1>8, <1>9, <1>11
  <2>4. lockedPattern' = s /\ pattern' = s /\ misses' = 0 BY <1>8, <1>10, <1>11, Zenon
  <2>5. MissesAreRecent' BY <1>2, <1>4, <2>4 DEF MissesAreRecent
  <2> QED BY <1>10, <1>11, <2>2, <2>3, <2>4, <2>5, Zenon DEF PatternInv, CountersMatchHistory
<1>12. CASE ~(h >= LockLength)
  <2>1. 0 \in 0 .. MaxMisses BY <1>4
  <2>2. misses' \in 0 .. MaxMisses BY <1>7, <1>10, <1>12, <2>1, Zenon
  <2>3. PatternTypeOK' BY <1>5, <1>8, <1>10, <1>12, <2>2, TypeStep, Zenon DEF PatternInv
  <2>4. pattern' = pattern /\ hits' = h BY <1>10
  <2>5. HitsAreRecent' BY <1>4, <1>8, <1>9, <1>12, <2>4 DEF HitsAreRecent
  <2> QED BY <1>10, <1>12, <2>3, <2>5, Zenon DEF PatternInv, CountersMatchHistory
<1> QED BY <1>11, <1>12

(* The counters of Prefetcher::GetFrame always describe the last strides.  *)
THEOREM PatternInvariance == PatternSpec => []PatternInv
<1>1. PatternInit => PatternInv
  <2> SUFFICES ASSUME PatternInit PROVE PatternInv
    OBVIOUS
  <2>1. PatternTypeOK
    <3>1. isLocked \in BOOLEAN BY Zenon DEF PatternInit
    <3>2. /\ lockedPattern \in Int /\ pattern \in Int /\ last \in Int
          /\ hits \in 0 .. LockLength /\ misses \in 0 .. MaxMisses
          /\ streak \in 0 .. MaxStreak
      BY LengthAssumption DEF PatternInit
    <3>3. recent \in [1 .. LockLength -> Int] BY DEF PatternInit
    <3> QED BY <3>1, <3>2, <3>3, Zenon DEF PatternTypeOK
  <2>2. HitsAreRecent
    <3>1. hits = 0 BY DEF PatternInit
    <3> QED BY <3>1, LengthAssumption DEF HitsAreRecent
  <2>3. ~isLocked BY Zenon DEF PatternInit
  <2> QED BY <2>1, <2>2, <2>3, Zenon DEF PatternInv, CountersMatchHistory
<1>2. PatternInv /\ [PatternNext]_patternVars => PatternInv'
  <2> SUFFICES ASSUME PatternInv, [PatternNext]_patternVars PROVE PatternInv'
    OBVIOUS
  <2>1. CASE PatternNext
    <3>1. PICK n \in Frames : Request(n) BY <2>1 DEF PatternNext
    <3>2. CASE RequestLocked(Stride(n)) BY <3>1, <3>2, LockedStep
    <3>3. CASE RequestUnlocked(Stride(n)) BY <3>1, <3>3, UnlockedStep
    <3> QED BY <3>1, <3>2, <3>3 DEF Request
  <2>2. CASE UNCHANGED patternVars
    BY <2>2 DEF patternVars, PatternInv, PatternTypeOK, CountersMatchHistory, HitsAreRecent, MissesAreRecent
  <2> QED BY <2>1, <2>2
<1> QED BY <1>1, <1>2, PTL DEF PatternSpec

(* PatternHits and PatternMisses stay within the lock length and the model *)
(* bound, for every sequence of requests to Prefetcher::GetFrame.          *)
THEOREM PatternTypeCorrect == PatternSpec => []PatternTypeOK
<1>1. PatternInv => PatternTypeOK BY DEF PatternInv
<1> QED BY <1>1, PatternInvariance, PTL

(* A locked pattern has been requested within the last LockLength strides: *)
(* Prefetcher::GetFrame never follows an abandoned pattern for longer.     *)
THEOREM FollowsRecentPattern == PatternSpec => []LockedIsRecent
<1>1. PatternInv => LockedIsRecent
  <2> SUFFICES ASSUME PatternInv, isLocked
               PROVE  \E i \in 1 .. LockLength : recent[i] = lockedPattern
    BY DEF LockedIsRecent
  <2>1. MissesAreRecent BY Zenon DEF PatternInv, CountersMatchHistory
  <2>2. misses \in 0 .. MaxMisses BY DEF PatternInv, PatternTypeOK
  <2>3. LockLength - misses \in 1 .. LockLength
    BY <2>1, <2>2, LengthAssumption DEF MissesAreRecent
  <2> QED BY <2>1, <2>3 DEF MissesAreRecent
<1> QED BY <1>1, PatternInvariance, PTL

(* Prefetcher::GetFrame locks on a pattern only after LockLength strides   *)
(* in a row that all had it.                                               *)
THEOREM LocksOnlyOnStreak == PatternSpec => LocksOnStreak
<1>1. PatternInv /\ [PatternNext]_patternVars =>
        [~isLocked /\ isLocked' => \A i \in 1 .. LockLength : recent'[i] = lockedPattern']_patternVars
  <2> SUFFICES ASSUME PatternInv, PatternNext, ~isLocked, isLocked'
               PROVE  \A i \in 1 .. LockLength : recent'[i] = lockedPattern'
    OBVIOUS
  <2>1. PICK n \in Frames : Request(n) BY DEF PatternNext
  <2>2. RequestUnlocked(Stride(n)) BY <2>1, Zenon DEF Request, RequestLocked
  <2> QED BY <2>1, <2>2, UnlockedStep
<1> QED BY <1>1, PatternInvariance, PTL DEF PatternSpec, LocksOnStreak

(* The branch of Prefetcher::GetFrame that replaces one locked pattern by  *)
(* another is dead: PatternHits stays below PatternMisses.                 *)
THEOREM NeverSwitchesDirectly == PatternSpec => NoDirectSwitch
<1>1. PatternInv /\ [PatternNext]_patternVars =>
        [isLocked /\ isLocked' => lockedPattern' = lockedPattern]_patternVars
  <2> SUFFICES ASSUME PatternInv, PatternNext, isLocked
               PROVE  lockedPattern' = lockedPattern
    OBVIOUS
  <2>1. PICK n \in Frames : Request(n) BY DEF PatternNext
  <2>2. RequestLocked(Stride(n)) BY <2>1, Zenon DEF Request, RequestUnlocked
  <2> QED BY <2>1, <2>2, LockedStep
<1> QED BY <1>1, PatternInvariance, PTL DEF PatternSpec, NoDirectSwitch

-----------------------------------------------------------------------------
(* The jobs *)

(* The cache's part: what is known of frames and requests, whoever makes   *)
(* the requests.                                                           *)
Busy == {"making", "made", "answered", "failed", "leaving"}

CacheTyped == /\ memo \in [Keys -> {"absent", "busy", "ready", "abandoned"}]
              /\ phase \in [Callers -> Busy \cup {"idle", "waiting"}]
              /\ DOMAIN asked = Callers
              /\ faults \in Nat

AskedSound ==
  \A c \in Callers : phase[c] \in {"making", "made", "failed", "waiting"} => asked[c] \in Keys

FaultsSound ==
  faults = 0 => /\ \A c \in Callers : phase[c] # "failed"
                /\ \A k \in Keys : memo[k] # "abandoned"

(* Each frame that is being made has its maker, or has lost it.            *)
Making(k) == \E c \in Callers : asked[c] = k /\ phase[c] \in {"making", "failed"}
BusyIsMade ==
  \A k \in Keys : memo[k] = "busy" => Making(k) \/ (faults > 0 /\ Cache!Waiters(k) # {})

CacheSound == CacheTyped /\ AskedSound /\ FaultsSound /\ BusyIsMade

CacheMove(c) ==
  \/ Cache!Made(c) \/ Cache!Answer(c) \/ Cache!Leave(c) \/ Cache!Fail(c) \/ Cache!GiveUp(c)
  \/ \E k \in Keys :
       \/ Cache!AskReady(c, k) \/ Cache!AskAbandoned(c, k) \/ Cache!AskBusy(c, k)
       \/ Cache!AskAbsent(c, k) \/ Cache!WaitOn(k)

(* No move in VideoCache leaves a frame busy that nobody makes, unless its *)
(* maker failed while others waited.                                       *)
LEMMA MakersStay ==
  ASSUME CacheSound, NEW c \in Callers, CacheMove(c)
  PROVE  CacheSound'
<1> USE DEF CacheSound
<1>1. ASSUME NEW k \in Keys, Cache!AskReady(c, k) \/ Cache!AskAbandoned(c, k) \/ Cache!AskBusy(c, k)
      PROVE  CacheSound'
  BY <1>1 DEF Cache!AskReady, Cache!AskAbandoned, Cache!AskBusy, Cache!Request, CacheTyped,
     AskedSound, FaultsSound, BusyIsMade, Busy, Making, Cache!Waiters
<1>2. ASSUME NEW k \in Keys, Cache!AskAbsent(c, k)
      PROVE  CacheSound'
  <2> PICK D \in SUBSET Cache!Forgettable : memo' = [Cache!MemoWithout(D) EXCEPT ![k] = "busy"]
    BY <1>2 DEF Cache!AskAbsent
  <2> QED
    BY <1>2 DEF Cache!AskAbsent, Cache!Request, CacheTyped, Cache!MemoWithout,
     AskedSound, FaultsSound, BusyIsMade, Busy, Making, Cache!Waiters
<1>3. CASE Cache!Made(c)
  BY <1>3 DEF Cache!Made, CacheTyped,
     AskedSound, FaultsSound, BusyIsMade, Busy, Making, Cache!Waiters
<1>4. CASE Cache!Answer(c)
  BY <1>4 DEF Cache!Answer, CacheTyped,
     AskedSound, FaultsSound, BusyIsMade, Busy, Making, Cache!Waiters
<1>5. CASE Cache!Leave(c)
  BY <1>5 DEF Cache!Leave, CacheTyped,
     AskedSound, FaultsSound, BusyIsMade, Busy, Making, Cache!Waiters
<1>6. CASE Cache!Fail(c)
  BY <1>6 DEF Cache!Fail, CacheTyped,
     AskedSound, FaultsSound, BusyIsMade, Busy, Making, Cache!Waiters
<1>7. CASE Cache!GiveUp(c)
  BY <1>7 DEF Cache!GiveUp, CacheTyped,
     AskedSound, FaultsSound, BusyIsMade, Busy, Making, Cache!Waiters
<1>8. ASSUME NEW k \in Keys, Cache!WaitOn(k)
      PROVE  CacheSound'
  BY <1>8 DEF Cache!WaitOn, CacheTyped,
     AskedSound, FaultsSound, BusyIsMade, Busy, Making, Cache!Waiters
<1> QED
  BY <1>1, <1>2, <1>3, <1>4, <1>5, <1>6, <1>7, <1>8 DEF CacheMove

-----------------------------------------------------------------------------
Innermost(T, B) == \A U \in B \ {T} : ~(U \subseteq T)

(* Induction over the subsets of a finite set: a set of them that is not   *)
(* empty has one that contains no other.                                   *)
LEMMA InnermostSet ==
  ASSUME NEW S, IsFiniteSet(S), NEW B, B \in SUBSET (SUBSET S), B # {}
  PROVE  \E T \in B : Innermost(T, B)
<1>1. IsWellFoundedOn(StrictSubsetOrdering(S), SUBSET S)
  BY FS_StrictSubsetOrderingWellFounded, FS_FiniteSubsetsOfFinite
<1>2. PICK x \in B : \A y \in B : ~ (<<y, x>> \in StrictSubsetOrdering(S))
  BY <1>1, WFMin
<1> QED
  BY <1>2 DEF StrictSubsetOrdering, Innermost

(* What CHOOSE finds for the largest stride.                               *)
LEMMA MaxExists ==
  ASSUME NEW S \in SUBSET Int, IsFiniteSet(S), S # {}
  PROVE  Max(S) \in S /\ \A x \in S : x <= Max(S)
<1> DEFINE HasMax(T) == \E x \in T : \A y \in T : x >= y
           B == {T \in SUBSET S : T # {} /\ ~HasMax(T)}
<1>1. B = {}
  <2>1. SUFFICES ASSUME B # {} PROVE FALSE
    OBVIOUS
  <2>2. B \in SUBSET (SUBSET S)
    OBVIOUS
  <2>a. \E T \in B : Innermost(T, B)
    <3> HIDE DEF B
    <3> QED BY <2>1, <2>2, InnermostSet
  <2>b. PICK T \in B : \A U \in B \ {T} : ~(U \subseteq T)
    BY <2>a DEF Innermost
  <2>3. PICK x \in T : TRUE
    OBVIOUS
  <2>4. T \ {x} = {} \/ HasMax(T \ {x})
    <3>1. T \ {x} # T /\ T \ {x} \subseteq T
      BY <2>3
    <3>2. T \ {x} \notin B
      BY <2>b, <3>1, Zenon
    <3> QED
      BY <3>2
  <2>5. CASE T \ {x} = {}
    BY <2>5, <2>b, <2>3
  <2>6. CASE HasMax(T \ {x})
    <3>1. PICK m \in T \ {x} : \A y \in T \ {x} : m >= y
      BY <2>6
    <3>2. m \in Int /\ x \in Int /\ T \in SUBSET Int
      BY <2>b, <2>3, <3>1
    <3>3. CASE m >= x
      BY <3>1, <3>2, <3>3, <2>b
    <3>4. CASE x >= m
      <4>1. \A y \in T : x >= y
        BY <3>1, <3>2, <3>4
      <4> QED
        BY <4>1, <2>b, <2>3
    <3> QED
      BY <3>2, <3>3, <3>4
  <2> QED
    BY <2>4, <2>5, <2>6
<1>2. HasMax(S)
  BY <1>1
<1> QED
  BY <1>2 DEF Max

(* No stride leads out of Keys. *)
LEMMA Reach ==
  /\ Ahead \in Nat \ {0} /\ Clip \subseteq Keys /\ Keys \subseteq Int
  /\ \A n \in Clip, a \in Int, s \in Strides :
       /\ a >= n => a - n < Ahead
       /\ a < n => n - a < Ahead
       /\ a + s < NumFrames
       => a + s \in Keys
<1> DEFINE S == Strides \cup {-s : s \in Strides}
<1>1. IsFiniteSet({-s : s \in Strides})
  <2> DEFINE f == [s \in Strides |-> -s]
  <2>1. f \in Surjection(Strides, {-s : s \in Strides})
    BY PrefetcherSizesAssumption DEF Surjection
  <2> QED
    BY <2>1, FS_Surjection, PrefetcherSizesAssumption
<1>2. IsFiniteSet(S) /\ S \in SUBSET Int /\ S # {} /\ 1 \in S
  <2>1. IsFiniteSet(S)
    BY <1>1, FS_Union, PrefetcherSizesAssumption
  <2>2. \A s \in Strides : s \in Int /\ -s \in Int
    BY PrefetcherSizesAssumption
  <2>3. S \subseteq Int /\ 1 \in S
    BY <2>2, PrefetcherSizesAssumption
  <2> QED BY <2>1, <2>3
<1>3. Max(S) \in Int /\ \A x \in S : x <= Max(S)
  <2> HIDE DEF S
  <2> QED BY <1>2, MaxExists
<1>4. Cardinality(Workers) \in Nat \ {0}
  BY PrefetcherSetsAssumption, FS_CardinalityType, FS_EmptySet
<1>5. \A s \in Strides : s \in Int /\ -s <= Max(S) /\ s <= Max(S)
  BY <1>3, PrefetcherSizesAssumption
<1>6. Keys = (1 - Ahead - Max(S)) .. NumFrames - 1
  BY DEF Keys
<1> DEFINE M == Max(S)
<1>7. 1 <= M /\ M \in Int /\ \A s \in Strides : s \in Int /\ -s <= M
  BY <1>2, <1>3, <1>5
<1>8. Ahead \in Nat \ {0} /\ NumFrames \in Nat /\ Clip = 0 .. NumFrames - 1
  BY <1>4, PrefetcherSizesAssumption DEF Clip
<1>9. Keys = (1 - Ahead - M) .. NumFrames - 1
  BY <1>6
<1> HIDE DEF S, M
<1>10. Clip \subseteq Keys /\ Keys \subseteq Int
  BY <1>7, <1>8, <1>9
<1>11. ASSUME NEW n \in Clip, NEW a \in Int, NEW s \in Strides,
              a >= n => a - n < Ahead, a < n => n - a < Ahead, a + s < NumFrames
       PROVE  a + s \in Keys
  <2>1. n \in Int /\ 0 <= n /\ s \in Int /\ -s <= M
    BY <1>7, <1>8
  <2>2. 1 - Ahead <= a
    BY <2>1, <1>8, <1>11
  <2>3. a + s \in Int /\ 1 - Ahead - M <= a + s /\ a + s <= NumFrames - 1
    BY <2>1, <2>2, <1>7, <1>8, <1>11
  <2> QED
    BY <2>3, <1>7, <1>8, <1>9
<1> QED
  BY <1>8, <1>10, <1>11
-----------------------------------------------------------------------------
Typed == /\ TypeOK /\ CacheTyped
         /\ at \notin {"idle", "destroying", "destroyed"} => current \in Clip

(* The consumer has a job in hand. *)
Scheduling == at \in {"count", "push"}

Held   == {taken[w] : w \in {v \in Workers : stage[v] # "idle"}}
Placed == (IF Scheduling THEN {job} ELSE {}) \cup Range(pending) \cup Held

(* A job is in one place at a time. *)
JobsPlaced ==
  /\ Scheduling => job \in Jobs /\ job \notin Range(pending) \cup Held
  /\ IsInjective(pending)
  /\ \A w \in Workers : /\ taken[w] \notin Range(pending)
                        /\ stage[w] = "idle" <=> taken[w] = None
  /\ \A v, w \in Workers : taken[v] = taken[w] /\ taken[v] # None => v = w

(* Its request of the cache goes with its place. *)
JobPhases ==
  /\ \A j \in Jobs \ Placed : phase[j] = "idle"
  /\ Scheduling => phase[job] = "making"
  /\ \A j \in Range(pending) : phase[j] = "making"
  /\ \A w \in Workers :
       /\ stage[w] = "job" => phase[taken[w]] \in Busy
       /\ stage[w] \in {"record", "lower", "unlock"} => phase[taken[w]] = "idle"

ConsumerPhases ==
  /\ at \in {"idle", "check", "ask", "destroying", "destroyed"} => phase[Consumer] = "idle"
  /\ Scheduling \/ at = "sched" => phase[Consumer] = IF pass = 1 THEN "idle" ELSE "answered"
  /\ at = "inside" => phase[Consumer] # "idle"

CountSound ==
  /\ running = Cardinality(Outstanding)
  /\ at = "count" => running < Ahead
  /\ at = "destroyed" => running = 0

IInv == Typed /\ CacheSound /\ JobsPlaced /\ JobPhases /\ ConsumerPhases /\ CountSound

-----------------------------------------------------------------------------
(* A job is put at the end of the queue.                                   *)
LEMMA Appended ==
  ASSUME NEW s \in Seq(Jobs), NEW j \in Jobs
  PROVE  /\ Append(s, j) \in Seq(Jobs) /\ Len(Append(s, j)) = Len(s) + 1
         /\ Range(Append(s, j)) = Range(s) \cup {j}
         /\ IsInjective(s) /\ j \notin Range(s) => IsInjective(Append(s, j))
<1>1. /\ Append(s, j) \in Seq(Jobs) /\ Len(Append(s, j)) = Len(s) + 1
      /\ \A i \in 1 .. Len(s) + 1 : Append(s, j)[i] = IF i <= Len(s) THEN s[i] ELSE j
  OBVIOUS
<1> DEFINE a == Append(s, j)
<1>2. DOMAIN a = 1 .. Len(s) + 1 /\ DOMAIN s = 1 .. Len(s) /\ Len(s) \in Nat
  BY <1>1
<1>3. Range(a) = Range(s) \cup {j}
  <2> HIDE DEF a
  <2>1. /\ \A i \in 1 .. Len(s) : a[i] = s[i]
        /\ a[Len(s) + 1] = j
    BY <1>1, <1>2 DEF a
  <2> QED
    BY <1>2, <2>1 DEF Range
<1>4. IsInjective(s) /\ j \notin Range(s) => IsInjective(a)
  BY <1>1, <1>2 DEF Range, IsInjective
<1> QED
  BY <1>1, <1>3, <1>4

(* A job is taken from its front.                                          *)
LEMMA Shortened ==
  ASSUME NEW s \in Seq(Jobs), s # <<>>, IsInjective(s)
  PROVE  /\ Head(s) \in Jobs /\ Tail(s) \in Seq(Jobs) /\ Len(Tail(s)) = Len(s) - 1
         /\ Range(s) = Range(Tail(s)) \cup {Head(s)} /\ Head(s) \notin Range(Tail(s))
         /\ IsInjective(Tail(s))
<1> DEFINE r == Tail(s)
<1>1. /\ r \in Seq(Jobs) /\ Len(r) = Len(s) - 1 /\ Len(s) \in Nat \ {0}
      /\ \A i \in 1 .. Len(s) - 1 : r[i] = s[i + 1]
      /\ Head(s) = s[1] /\ Head(s) \in Jobs
  OBVIOUS
<1>2. DOMAIN r = 1 .. Len(s) - 1 /\ DOMAIN s = 1 .. Len(s)
  BY <1>1
<1> HIDE DEF r
<1> DEFINE n == Len(s)
           m == Len(s) - 1
<1>a. n \in Nat \ {0} /\ m \in Nat /\ n = m + 1
  BY <1>1
<1>b. /\ DOMAIN r = 1 .. m /\ DOMAIN s = 1 .. n /\ Head(s) = s[1]
      /\ \A i \in 1 .. m : r[i] = s[i + 1] /\ i + 1 \in 1 .. n /\ i + 1 # 1
      /\ \A i \in 1 .. n : i = 1 \/ (i - 1 \in 1 .. m /\ s[i] = r[i - 1])
      /\ 1 \in 1 .. n
  BY <1>1, <1>2, <1>a
<1> HIDE DEF n, m
<1>4. Range(s) = Range(r) \cup {Head(s)}
  BY <1>b DEF Range
<1>5. Head(s) \notin Range(r)
  BY <1>b DEF Range, IsInjective
<1>6. IsInjective(r)
  <2>1. SUFFICES ASSUME NEW a \in 1 .. m, NEW b \in 1 .. m, r[a] = r[b] PROVE a = b
    BY <1>b DEF IsInjective
  <2>2. a + 1 = b + 1
    BY <2>1, <1>b DEF IsInjective
  <2> QED
    BY <2>2, <1>a
<1> QED
  BY <1>1, <1>4, <1>5, <1>6 DEF r

(* A queue without repetitions is as long as it has jobs.                  *)
LEMMA RangeCounts ==
  ASSUME NEW s \in Seq(Jobs), IsInjective(s)
  PROVE  IsFiniteSet(Range(s)) /\ Cardinality(Range(s)) = Len(s) /\ Range(s) \subseteq Jobs
<1>1. s \in [1 .. Len(s) -> Jobs] /\ Len(s) \in Nat /\ DOMAIN s = 1 .. Len(s)
  OBVIOUS
<1>2. s \in Bijection(1 .. Len(s), Range(s))
  BY <1>1 DEF Bijection, Surjection, Injection, IsInjective, Range
<1>3. IsFiniteSet(1 .. Len(s)) /\ Cardinality(1 .. Len(s)) = Len(s)
  <2>1. \A n \in Nat : IsFiniteSet(1 .. n) /\ Cardinality(1 .. n) = n
    BY FS_Interval
  <2> QED
    BY <1>1, <2>1
<1> QED
  BY <1>1, <1>2, <1>3, FS_Bijection DEF ExistsBijection, Range
-----------------------------------------------------------------------------
(* The numbers that SchedulePrefetch computes with.                        *)
LEMMA Numbers ==
  ASSUME IInv
  PROVE  /\ stride \in Int /\ current \in Int /\ ahead \in Int
         /\ Ahead \in Nat /\ running \in Nat /\ running <= Ahead
<1>1. Clip \subseteq Int /\ Strides \subseteq Int /\ Ahead \in Nat
  BY Reach, PrefetcherSizesAssumption
<1> QED
  BY <1>1 DEF IInv, Typed, TypeOK

(* The places of the jobs do not change when neither the pool does nor the *)
(* consumer takes a job into its hands.                                    *)
LEMMA OnlyConsumerMoves ==
  ASSUME IInv, UNCHANGED <<poolVars, stage, running>>, \A j \in Jobs : phase'[j] = phase[j],
         ~Scheduling, at' \notin {"count", "push"}, at' = "destroyed" => running = 0
  PROVE  JobsPlaced' /\ JobPhases' /\ CountSound'
<1>2. Held' = Held /\ Placed' = Placed /\ Outstanding' = Outstanding
  BY DEF Held, Placed, Outstanding, poolVars, Scheduling
<1>3. JobsPlaced'
  BY <1>2 DEF IInv, JobsPlaced, poolVars, Scheduling
<1>4. JobPhases'
  <2>1. /\ \A j \in Range(pending) : j \in Jobs
        /\ \A w \in Workers : stage[w] # "idle" => taken[w] \in Jobs
    BY RangeCounts DEF IInv, Typed, TypeOK, JobsPlaced
  <2> QED
    BY <1>2, <2>1 DEF IInv, JobPhases, poolVars, Scheduling, Stages
<1>5. CountSound'
  BY <1>2 DEF IInv, CountSound, Scheduling
<1> QED
  BY <1>3, <1>4, <1>5

(* Nor does anything happen to VideoCache when nobody asks it.             *)
LEMMA CacheUnmoved ==
  ASSUME IInv, UNCHANGED cacheVars
  PROVE  CacheSound'
BY DEF IInv, CacheSound, CacheTyped, AskedSound, FaultsSound, BusyIsMade, Making, Cache!Waiters,
       cacheVars

(* GetFrame is called.                                                     *)
LEMMA AfterGetFrame ==
  ASSUME IInv, NEW n \in Clip, NEW s \in Strides, GetFrame(n, s)
  PROVE  IInv'
<1>1. /\ UNCHANGED <<cacheVars, poolVars, stage, running>>
      /\ ~Scheduling /\ at' = "check" /\ at' \notin {"count", "push"}
  BY DEF GetFrame, Scheduling
<1>2. CacheSound' /\ JobsPlaced' /\ JobPhases' /\ CountSound'
  <2>1. \A j \in Jobs : phase'[j] = phase[j]
    BY <1>1 DEF cacheVars
  <2> QED
    BY <1>1, <2>1, OnlyConsumerMoves, CacheUnmoved
<1>3. Typed'
  BY <1>2 DEF GetFrame, IInv, Typed, TypeOK, CacheSound, ConsumerPlaces, poolVars
<1>4. ConsumerPhases'
  BY DEF GetFrame, IInv, ConsumerPhases, cacheVars, Scheduling
<1> QED
  BY <1>2, <1>3, <1>4 DEF IInv

(* The consumer's steps that concern neither VideoCache nor a job.         *)
LEMMA AfterConsumerStep ==
  ASSUME IInv, CheckException \/ ScheduleNothing \/ FirstPassEnds \/ GotFrame \/ Destroy \/ Delete
  PROVE  IInv'
<1>1. /\ UNCHANGED <<cacheVars, poolVars, stage, running>>
      /\ ~Scheduling /\ at' \notin {"count", "push"}
      /\ at' = "destroyed" => running = 0
  BY DEF CheckException, ScheduleNothing, FirstPassEnds, GotFrame, Destroy, Delete, ScheduleEnds,
         Scheduling
<1>2. CacheSound' /\ JobsPlaced' /\ JobPhases' /\ CountSound'
  <2>1. \A j \in Jobs : phase'[j] = phase[j]
    BY <1>1 DEF cacheVars
  <2> QED
    BY <1>1, <2>1, OnlyConsumerMoves, CacheUnmoved
<1>3. /\ at' \in ConsumerPlaces /\ ahead' \in Int /\ pass' \in {1, 2}
      /\ UNCHANGED <<running, exception, current, stride, job, stage, pending, taken>>
      /\ at' \notin {"idle", "destroying", "destroyed"} => current \in Clip
  <2>1. CASE CheckException
    BY <2>1, Numbers DEF CheckException, ScheduleEnds, IInv, Typed, TypeOK, ConsumerPlaces, poolVars
  <2>2. CASE ScheduleNothing
    BY <2>2, Numbers DEF ScheduleNothing, ScheduleEnds, IInv, Typed, TypeOK, ConsumerPlaces, poolVars
  <2>3. CASE FirstPassEnds
    BY <2>3, Numbers DEF FirstPassEnds, ScheduleEnds, IInv, Typed, TypeOK, ConsumerPlaces, poolVars
  <2>4. CASE GotFrame
    BY <2>4, Numbers DEF GotFrame, ScheduleEnds, IInv, Typed, TypeOK, ConsumerPlaces, poolVars
  <2>5. CASE Destroy
    BY <2>5, Numbers DEF Destroy, ScheduleEnds, IInv, Typed, TypeOK, ConsumerPlaces, poolVars, scheduleVars
  <2>6. CASE Delete
    BY <2>6, Numbers DEF Delete, ScheduleEnds, IInv, Typed, TypeOK, ConsumerPlaces, poolVars, scheduleVars
  <2> QED
    BY <2>1, <2>2, <2>3, <2>4, <2>5, <2>6
<1>4. Typed'
  BY <1>2, <1>3 DEF IInv, Typed, TypeOK, CacheSound
<1>5. ConsumerPhases'
  BY DEF CheckException, ScheduleNothing, FirstPassEnds, GotFrame, Destroy, Delete, ScheduleEnds,
     IInv, ConsumerPhases, cacheVars, Scheduling, Typed, TypeOK
<1> QED
  BY <1>2, <1>4, <1>5 DEF IInv

-----------------------------------------------------------------------------
(* The consumer's moves in the cache *)

(* The consumer's own moves in VideoCache: the jobs are as they were.      *)
LEMMA ConsumerAsks ==
  ASSUME IInv, CacheMove(Consumer), at \in {"sched", "ask", "inside"},
         UNCHANGED <<poolVars, stage, running, exception, current, stride, ahead, pass, job>>,
         at' \in {"inside", "idle"}, at' = "idle" <=> phase'[Consumer] = "idle"
  PROVE  IInv'
<1>1. CacheSound'
  BY MakersStay DEF IInv, Callers
<1>2. \A j \in Jobs : phase'[j] = phase[j]
  <2>1. Consumer \notin Jobs
    BY PrefetcherSetsAssumption
  <2>2. DOMAIN phase = Callers /\ Jobs \subseteq Callers
    BY DEF IInv, CacheSound, CacheTyped, Callers
  <2> QED
    BY <2>1, <2>2 DEF CacheMove, Cache!AskReady, Cache!AskAbandoned, Cache!AskBusy, Cache!AskAbsent,
       Cache!Request, Cache!Made, Cache!Answer, Cache!Leave, Cache!Fail, Cache!GiveUp, Cache!WaitOn
<1>3. JobsPlaced' /\ JobPhases' /\ CountSound'
  BY <1>2, OnlyConsumerMoves DEF Scheduling
<1>4. Typed'
  BY <1>1 DEF IInv, Typed, TypeOK, CacheSound, ConsumerPlaces, poolVars
<1>5. ConsumerPhases'
  BY DEF ConsumerPhases, Scheduling
<1> QED
  BY <1>1, <1>3, <1>4, <1>5 DEF IInv

(* GetFrame's own lookup, from the request to its answer or its failure.   *)
LEMMA AfterConsumersRequest ==
  ASSUME IInv, SecondPassEnds \/ LookUp \/ Inside \/ ConsumerFails \/ ConsumerThrows
  PROVE  IInv'
<1>1. Consumer \in Callers /\ phase \in [Callers -> Busy \cup {"idle", "waiting"}]
  BY DEF Callers, IInv, CacheSound, CacheTyped
<1>2. at \in {"sched", "ask", "inside"}
  BY DEF SecondPassEnds, ScheduleEnds, LookUp, Inside, ConsumerFails, ConsumerThrows
<1>3. current \in Keys
  BY <1>2, Reach DEF IInv, Typed
<1>4. UNCHANGED <<poolVars, stage, running, exception, current, stride, ahead, pass, job>>
  BY DEF SecondPassEnds, LookUp, Inside, ConsumerFails, ConsumerThrows, scheduleVars
<1>5. CacheMove(Consumer)
  BY <1>3 DEF SecondPassEnds, LookUp, Inside, ConsumerFails, ConsumerThrows, StepBack, CacheMove
<1>6. at' \in {"inside", "idle"} /\ (at' = "idle" <=> phase'[Consumer] = "idle")
  <2>1. CASE SecondPassEnds
    BY <1>1, <2>1 DEF SecondPassEnds, Cache!Leave
  <2>2. CASE LookUp
    BY <1>1, <2>2 DEF LookUp, Cache!AskReady, Cache!AskAbandoned, Cache!AskBusy, Cache!AskAbsent,
       Cache!Request
  <2>3. CASE Inside
    BY <1>1, <2>3 DEF Inside, Cache!Made, Cache!Answer
  <2>4. CASE ConsumerFails
    <3>1. phase[Consumer] # "alone"
      BY <1>1 DEF Busy
    <3> QED
      BY <1>1, <2>4, <3>1 DEF ConsumerFails, Cache!Fail
  <2>5. CASE ConsumerThrows
    <3>1. phase'[Consumer] \in {"idle", "leaving"}
      BY <1>1, <2>5 DEF ConsumerThrows, StepBack, Cache!GiveUp, Cache!Leave
    <3> QED
      BY <2>5, <3>1 DEF ConsumerThrows
  <2> QED
    BY <2>1, <2>2, <2>3, <2>4, <2>5
<1> QED
  BY <1>2, <1>3, <1>4, <1>5, <1>6, ConsumerAsks

-----------------------------------------------------------------------------
(* The consumer's moves of a job *)

(* JobParamsPool has an object to give out: those in use are the ones that *)
(* running_workers counts, fewer than nPrefetchFrames, and those of the    *)
(* workers that are unlocking worker_exception_mutex.                      *)
LEMMA FreeJobs ==
  ASSUME IInv, at = "sched", running < Ahead
  PROVE  FreeJob \in Jobs /\ FreeJob \notin Placed
<1> DEFINE U == {w \in Workers : stage[w] = "unlock"}
           V == {w \in Workers : stage[w] \in {"job", "record", "lower"}}
           T == {taken[w] : w \in U}
           R == {taken[w] : w \in V}
<1>1. /\ IsFiniteSet(U) /\ Cardinality(U) \in Nat /\ Cardinality(U) <= Cardinality(Workers)
      /\ IsFiniteSet(V) /\ Cardinality(Workers) \in Nat
  BY PrefetcherSetsAssumption, FS_Subset, FS_CardinalityType
<1>2. /\ IsFiniteSet(T) /\ Cardinality(T) <= Cardinality(U)
      /\ IsFiniteSet(R)
  <2> DEFINE f == [w \in U |-> taken[w]]
             g == [w \in V |-> taken[w]]
  <2>1. f \in Surjection(U, T) /\ g \in Surjection(V, R)
    BY DEF Surjection
  <2> QED
    BY <1>1, <2>1, FS_Surjection
<1>3. Outstanding = Range(pending) \cup R /\ IsFiniteSet(Outstanding)
  <2>1. IsFiniteSet(Range(pending))
    BY RangeCounts DEF IInv, Typed, TypeOK, JobsPlaced
  <2>2. Outstanding = Range(pending) \cup R
    BY DEF Outstanding
  <2> HIDE DEF R
  <2> QED
    BY <2>1, <2>2, <1>2, FS_Union
<1>4. IsFiniteSet(Outstanding \cup T) /\ Cardinality(Outstanding \cup T) < Cardinality(Jobs)
  <2> HIDE DEF T, U
  <2>1. /\ IsFiniteSet(Outstanding \cup T)
        /\ Cardinality(Outstanding \cup T) = Cardinality(Outstanding) + Cardinality(T)
                                              - Cardinality(Outstanding \cap T)
        /\ IsFiniteSet(Outstanding \cap T)
    BY <1>2, <1>3, FS_Union, FS_Intersection
  <2>2. /\ Cardinality(Outstanding) \in Nat /\ Cardinality(T) \in Nat
        /\ Cardinality(Outstanding \cap T) \in Nat /\ Cardinality(Jobs) \in Nat
    BY <2>1, <1>2, <1>3, FS_CardinalityType, PrefetcherSetsAssumption
  <2>3. Cardinality(Outstanding) < Ahead
    BY DEF IInv, CountSound
  <2> QED
    BY <2>1, <2>2, <2>3, <1>1, <1>2, PrefetcherSizesAssumption
<1>5. Range(pending) \cup Range(taken) \subseteq Outstanding \cup T \cup {None}
  BY <1>3 DEF IInv, JobsPlaced, Typed, TypeOK, Range, Stages
<1>6. \E j \in Jobs : j \notin Outstanding \cup T
  <2>1. ~(Jobs \subseteq Outstanding \cup T)
    <3> HIDE DEF T
    <3>1. SUFFICES ASSUME Jobs \subseteq Outstanding \cup T PROVE FALSE
      OBVIOUS
    <3>2. Cardinality(Jobs) <= Cardinality(Outstanding \cup T)
      BY <3>1, <1>4, FS_Subset
    <3> QED
      BY <3>2, <1>4, FS_CardinalityType, PrefetcherSetsAssumption
  <2> QED
    BY <2>1
<1>7. FreeJob \in Jobs /\ FreeJob \notin Range(pending) \cup Range(taken)
  BY <1>5, <1>6, PrefetcherSetsAssumption DEF FreeJob
<1> QED
  BY <1>7 DEF Placed, Held, Scheduling, IInv, Typed, TypeOK, Range

(* SchedulePrefetch reserves a frame for a job.                            *)
LEMMA AfterScheduleFrame ==
  ASSUME IInv, ScheduleFrame
  PROVE  IInv'
<1> DEFINE j == FreeJob
<1>1. /\ j \in Jobs /\ j \notin Placed /\ job' = j /\ phase' = [phase EXCEPT ![j] = "making"]
      /\ at = "sched" /\ at' = "count" /\ running < Ahead
      /\ UNCHANGED <<poolVars, stage, running, exception, current, stride, pass>>
  BY FreeJobs DEF ScheduleFrame, More, Cache!AskAbsent, Cache!Request
<1>2. ahead + stride \in Keys
  <2>1. current \in Clip /\ stride \in Strides /\ ahead \in Int /\ current \in Int
    BY <1>1, Numbers DEF IInv, Typed, TypeOK
  <2> QED
    BY <2>1, Reach DEF ScheduleFrame, More, Distance
<1>3. CacheSound'
  BY <1>1, <1>2, MakersStay DEF ScheduleFrame, CacheMove, IInv, Callers
<1> HIDE DEF j
<1>4. phase \in [Callers -> Busy \cup {"idle", "waiting"}] /\ Consumer \notin Jobs
  BY PrefetcherSetsAssumption DEF IInv, CacheSound, CacheTyped
<1>5. /\ phase'[j] = "making" /\ phase'[Consumer] = phase[Consumer]
      /\ \A i \in Jobs \ {j} : phase'[i] = phase[i]
  BY <1>1, <1>4 DEF Callers
<1>6. /\ Held' = Held /\ Outstanding' = Outstanding /\ Placed = Range(pending) \cup Held
      /\ Placed' = Placed \cup {j} /\ Scheduling' /\ pending' = pending /\ taken' = taken
  BY <1>1 DEF Held, Outstanding, Placed, Scheduling, poolVars
<1>7. JobsPlaced'
  BY <1>1, <1>6 DEF IInv, JobsPlaced
<1>8. JobPhases'
  <2>1. /\ \A i \in Range(pending) : i \in Jobs
        /\ \A w \in Workers : stage[w] # "idle" => taken[w] \in Jobs /\ taken[w] \in Held
    BY RangeCounts DEF IInv, Typed, TypeOK, JobsPlaced, Held
  <2> QED
    BY <1>1, <1>5, <1>6, <2>1 DEF IInv, JobPhases
<1>9. Typed'
  BY <1>1, <1>3, <1>6, Numbers DEF IInv, Typed, TypeOK, CacheSound, ConsumerPlaces, ScheduleFrame
<1>10. ConsumerPhases' /\ CountSound'
  BY <1>1, <1>5, <1>6 DEF IInv, ConsumerPhases, CountSound, Scheduling
<1> QED
  BY <1>3, <1>7, <1>8, <1>9, <1>10 DEF IInv

(* ++running_workers                                                       *)
LEMMA AfterCountJob ==
  ASSUME IInv, CountJob
  PROVE  IInv'
<1>1. /\ at = "count" /\ at' = "push" /\ running' = running + 1
      /\ UNCHANGED <<cacheVars, pending, taken, current, stride, ahead, pass, job, stage, exception>>
  BY DEF CountJob, poolVars, scheduleVars
<1>2. /\ Held' = Held /\ Placed' = Placed /\ Scheduling /\ Scheduling'
      /\ Outstanding' = Outstanding \cup {job} /\ Outstanding \subseteq Range(pending) \cup Held
  BY <1>1 DEF Held, Placed, Scheduling, Outstanding
<1>3. CacheSound' /\ JobsPlaced'
  BY <1>1, <1>2, CacheUnmoved DEF IInv, JobsPlaced
<1>4. JobPhases' /\ ConsumerPhases'
  BY <1>1, <1>2 DEF IInv, JobPhases, ConsumerPhases, cacheVars
<1>5. CountSound'
  <2>1. IsFiniteSet(Outstanding) /\ job \notin Outstanding
    <3>1. Outstanding \subseteq Jobs
      BY <1>1, RangeCounts DEF IInv, Outstanding, Typed, TypeOK, JobsPlaced
    <3> QED
      BY <3>1, <1>2, FS_Subset, PrefetcherSetsAssumption DEF IInv, JobsPlaced
  <2> QED
    BY <1>1, <1>2, <2>1, FS_AddElement DEF IInv, CountSound
<1>6. Typed'
  BY <1>1, <1>3, Numbers DEF IInv, Typed, TypeOK, CacheSound, ConsumerPlaces, CountSound
<1> QED
  BY <1>3, <1>4, <1>5, <1>6 DEF IInv

(* QueueJob                                                                *)
LEMMA AfterQueueJob ==
  ASSUME IInv, QueueJob
  PROVE  IInv'
<1>1. /\ at = "push" /\ at' = "sched" /\ pending' = Append(pending, job) /\ Len(pending) < Room
      /\ UNCHANGED <<cacheVars, taken, current, stride, ahead, pass, running, stage, exception>>
      /\ job' = None
  BY DEF QueueJob, Pool!Put
<1>2. /\ job \in Jobs /\ job \notin Range(pending) \cup Held /\ pending \in Seq(Jobs)
      /\ IsInjective(pending) /\ phase[job] = "making"
  BY <1>1 DEF IInv, JobsPlaced, JobPhases, Scheduling, Typed, TypeOK
<1>3. /\ pending' \in Seq(Jobs) /\ Len(pending') = Len(pending) + 1 /\ IsInjective(pending')
      /\ Range(pending') = Range(pending) \cup {job}
  BY <1>1, <1>2, Appended
<1>4. /\ Held' = Held /\ Placed' = Placed /\ Scheduling /\ ~Scheduling'
      /\ Outstanding' = Outstanding
  BY <1>1, <1>3 DEF Held, Placed, Scheduling, Outstanding
<1>5. CacheSound'
  BY <1>1, CacheUnmoved
<1>6. JobsPlaced'
  <2>1. \A w \in Workers : taken[w] # job
    BY <1>2, PrefetcherSetsAssumption DEF Held, IInv, JobsPlaced
  <2> QED
    BY <1>1, <1>2, <1>3, <1>4, <2>1 DEF IInv, JobsPlaced
<1>7. JobPhases' /\ ConsumerPhases' /\ CountSound'
  BY <1>1, <1>2, <1>3, <1>4 DEF IInv, JobPhases, ConsumerPhases, CountSound, cacheVars, Scheduling
<1>8. Typed'
  BY <1>1, <1>2, <1>3, <1>5, PrefetcherSizesAssumption DEF IInv, Typed, TypeOK, CacheSound, ConsumerPlaces
<1> QED
  BY <1>5, <1>6, <1>7, <1>8 DEF IInv
(* Somebody who waited finds his frame abandoned.                          *)
LEMMA AfterKeepWaiting ==
  ASSUME IInv, KeepWaiting
  PROVE  IInv'
<1>1. UNCHANGED <<phase, poolVars, scheduleVars, running, exception, at, stage>>
  BY DEF KeepWaiting, Cache!WaitOn
<1>2. CacheSound'
  <2>1. CacheMove(Consumer)
    BY DEF KeepWaiting, CacheMove
  <2> QED
    BY <2>1, MakersStay DEF IInv, Callers
<1>3. Held' = Held /\ Placed' = Placed /\ Outstanding' = Outstanding /\ (Scheduling' <=> Scheduling)
  BY <1>1 DEF Held, Placed, Outstanding, Scheduling, poolVars, scheduleVars
<1>4. Typed' /\ JobsPlaced' /\ JobPhases' /\ ConsumerPhases' /\ CountSound'
  BY <1>1, <1>2, <1>3 DEF IInv, Typed, TypeOK, CacheSound, JobsPlaced, JobPhases, ConsumerPhases,
     CountSound, poolVars, scheduleVars
<1> QED
  BY <1>2, <1>4 DEF IInv

-----------------------------------------------------------------------------
(* The workers *)

(* A worker takes a job from the queue.                                    *)
LEMMA AfterTakeJob ==
  ASSUME IInv, NEW w \in Workers, TakeJob(w)
  PROVE  IInv'
<1> DEFINE j == Head(pending)
<1>1. /\ stage[w] = "idle" /\ taken[w] = None /\ pending # <<>>
      /\ taken' = [taken EXCEPT ![w] = j] /\ pending' = Tail(pending)
      /\ stage' = [stage EXCEPT ![w] = "job"]
      /\ UNCHANGED <<cacheVars, scheduleVars, running, exception, at>>
  BY DEF TakeJob, Pool!Take
<1>2. /\ pending \in Seq(Jobs) /\ IsInjective(pending)
      /\ taken \in [Workers -> Jobs \cup {None}] /\ stage \in [Workers -> Stages]
      /\ Len(pending) \in Nat
  BY DEF IInv, JobsPlaced, Typed, TypeOK
<1>3. /\ j \in Jobs /\ pending' \in Seq(Jobs) /\ Len(pending') = Len(pending) - 1
      /\ Range(pending) = Range(pending') \cup {j} /\ j \notin Range(pending')
      /\ IsInjective(pending')
  BY <1>1, <1>2, Shortened
<1> HIDE DEF j
<1>4. /\ taken'[w] = j /\ \A v \in Workers \ {w} : taken'[v] = taken[v] /\ stage'[v] = stage[v]
      /\ stage'[w] = "job" /\ taken' \in [Workers -> Jobs \cup {None}]
      /\ stage' \in [Workers -> Stages]
  BY <1>1, <1>2, <1>3 DEF Stages
<1>5. Held' = Held \cup {j} /\ (Scheduling' <=> Scheduling) /\ at' = at /\ job' = job
  BY <1>1, <1>4 DEF Held, Scheduling, scheduleVars
<1>6. Placed' = Placed /\ Outstanding' = Outstanding
  <2>1. Outstanding' = Outstanding
    BY <1>1, <1>3, <1>4, <1>5 DEF Outstanding
  <2> QED
    BY <1>3, <1>5, <2>1 DEF Placed
<1>7. CacheSound'
  BY <1>1, CacheUnmoved
<1>8. JobsPlaced'
  <2>1. \A v \in Workers : taken[v] # j
    BY <1>2, <1>3 DEF IInv, JobsPlaced
  <2> QED
    BY <1>1, <1>3, <1>4, <1>5, <2>1, PrefetcherSetsAssumption DEF IInv, JobsPlaced
<1>9. JobPhases' /\ ConsumerPhases' /\ CountSound'
  <2>1. phase' = phase /\ phase[j] = "making" /\ pass' = pass /\ running' = running
    BY <1>1, <1>3 DEF cacheVars, scheduleVars, IInv, JobPhases
  <2> QED
    BY <1>3, <1>4, <1>5, <1>6, <2>1 DEF IInv, JobPhases, ConsumerPhases, CountSound, Busy
<1>10. Typed'
  BY <1>1, <1>2, <1>3, <1>4, <1>5, <1>7, PrefetcherSizesAssumption
     DEF IInv, Typed, TypeOK, CacheSound, scheduleVars
<1> QED
  BY <1>7, <1>8, <1>9, <1>10 DEF IInv

(* A worker's move in the cache that leaves it with its job. *)
LEMMA WorkerAsks ==
  ASSUME IInv, NEW w \in Workers, stage[w] = "job", CacheMove(taken[w]), phase'[taken[w]] \in Busy,
         \A c \in Callers \ {taken[w]} : phase'[c] = phase[c],
         UNCHANGED <<poolVars, scheduleVars, running, exception, at, stage>>
  PROVE  IInv'
<1>1. taken[w] \in Jobs /\ taken[w] # Consumer
  BY PrefetcherSetsAssumption DEF IInv, Typed, TypeOK, JobsPlaced
<1>2. CacheSound'
  BY <1>1, MakersStay DEF IInv, Callers
<1>3. Held' = Held /\ Placed' = Placed /\ Outstanding' = Outstanding /\ (Scheduling' <=> Scheduling)
  BY DEF Held, Placed, Outstanding, Scheduling, poolVars, scheduleVars
<1>4. Typed' /\ JobsPlaced' /\ CountSound'
  BY <1>2, <1>3 DEF IInv, Typed, TypeOK, CacheSound, JobsPlaced, CountSound, poolVars, scheduleVars
<1>5. ConsumerPhases'
  BY <1>1, <1>3 DEF IInv, ConsumerPhases, Callers, scheduleVars
<1>6. JobPhases'
  <2>1. /\ taken[w] \in Placed /\ taken[w] \notin Range(pending) /\ (Scheduling => job # taken[w])
        /\ \A v \in Workers \ {w} : taken[v] # taken[w]
        /\ Range(pending) \subseteq Jobs /\ (Scheduling => job \in Jobs)
        /\ \A v \in Workers : stage[v] # "idle" => taken[v] \in Jobs
    BY <1>1, RangeCounts, PrefetcherSetsAssumption DEF IInv, JobsPlaced, Placed, Held, Typed, TypeOK
  <2> QED
    BY <1>3, <2>1 DEF IInv, JobPhases, Callers, poolVars, scheduleVars
<1> QED
  BY <1>2, <1>4, <1>5, <1>6 DEF IInv

(* ThreadWorker's GetFrame returns, or throws.                             *)
LEMMA AfterMakeFrame ==
  ASSUME IInv, NEW w \in Workers, MakeFrame(w) \/ JobFails(w)
  PROVE  IInv'
<1>1. stage[w] = "job" /\ UNCHANGED <<poolVars, scheduleVars, running, exception, at, stage>>
  BY DEF MakeFrame, JobFails
<1>2. CacheMove(taken[w])
  BY DEF MakeFrame, JobFails, CacheMove
<1>3. /\ taken[w] \in Callers /\ phase[taken[w]] \in Busy
      /\ phase \in [Callers -> Busy \cup {"idle", "waiting"}]
  BY <1>1 DEF IInv, Typed, TypeOK, JobsPlaced, JobPhases, CacheSound, CacheTyped, Callers
<1>4. /\ phase'[taken[w]] \in Busy
      /\ \A c \in Callers \ {taken[w]} : phase'[c] = phase[c]
  BY <1>3 DEF MakeFrame, JobFails, Cache!Made, Cache!Answer, Cache!Fail, Busy
<1> QED
  BY <1>1, <1>2, <1>4, WorkerAsks
(* What is known of a worker's job. *)
LEMMA WorkersJob ==
  ASSUME IInv, NEW w \in Workers, stage[w] # "idle"
  PROVE  /\ taken[w] \in Jobs /\ taken[w] # Consumer /\ taken[w] # None /\ taken[w] \in Callers
         /\ taken[w] \in Placed /\ taken[w] \notin Range(pending) /\ (Scheduling => job # taken[w])
         /\ \A v \in Workers \ {w} : taken[v] # taken[w]
         /\ Range(pending) \subseteq Jobs /\ (Scheduling => job \in Jobs)
         /\ \A v \in Workers : stage[v] # "idle" => taken[v] \in Jobs
         /\ stage \in [Workers -> Stages] /\ taken \in [Workers -> Jobs \cup {None}]
         /\ phase \in [Callers -> Busy \cup {"idle", "waiting"}]
BY RangeCounts, PrefetcherSetsAssumption
   DEF IInv, JobsPlaced, Placed, Held, Typed, TypeOK, Callers, CacheSound, CacheTyped

(* The count is lowered with the job it stood for. *)
LEMMA CountLowered ==
  ASSUME IInv, NEW w \in Workers, stage[w] \in {"job", "record", "lower"},
         Outstanding' = Outstanding \ {taken[w]}, running' = running - 1
  PROVE  running' = Cardinality(Outstanding') /\ running' \in 0 .. Ahead /\ running > 0
<1>1. taken[w] \in Outstanding /\ Outstanding \subseteq Jobs
  BY WorkersJob DEF Outstanding, Scheduling
<1>2. IsFiniteSet(Outstanding)
  BY <1>1, FS_Subset, PrefetcherSetsAssumption
<1>3. /\ Cardinality(Outstanding \ {taken[w]}) = Cardinality(Outstanding) - 1
      /\ IsFiniteSet(Outstanding \ {taken[w]})
  BY <1>1, <1>2, FS_RemoveElement
<1>4. Cardinality(Outstanding \ {taken[w]}) \in Nat
  BY <1>3, FS_CardinalityType
<1> QED
  BY <1>3, <1>4, Numbers DEF IInv, CountSound

(* A worker has done with its job. *)
LEMMA WorkerLeaves ==
  ASSUME IInv, NEW w \in Workers, stage[w] # "idle", CacheSound', phase'[taken[w]] = "idle",
         \A c \in Callers \ {taken[w]} : phase'[c] = phase[c],
         Pool!Finish(w), stage' = [stage EXCEPT ![w] = "idle"],
         UNCHANGED <<scheduleVars, exception, at>>,
         CountSound', running' \in 0 .. Ahead
  PROVE  IInv'
<1>1. /\ pending' = pending /\ taken' = [taken EXCEPT ![w] = None]
      /\ current' = current /\ stride' = stride /\ ahead' = ahead /\ pass' = pass /\ job' = job
  BY DEF Pool!Finish, scheduleVars
<1>2. /\ taken'[w] = None /\ stage'[w] = "idle"
      /\ \A v \in Workers \ {w} : taken'[v] = taken[v] /\ stage'[v] = stage[v]
  BY <1>1, WorkersJob
<1>3. Held' = Held \ {taken[w]} /\ (Scheduling' <=> Scheduling)
  BY <1>1, <1>2, WorkersJob DEF Held, Scheduling
<1>4. Placed' = Placed \ {taken[w]}
  BY <1>1, <1>3, WorkersJob DEF Placed
<1>5. JobsPlaced'
  <2>1. \A j \in Range(pending) : j # None
    BY WorkersJob, PrefetcherSetsAssumption
  <2> QED
    BY <1>1, <1>2, <1>3, <2>1, WorkersJob DEF IInv, JobsPlaced
<1>6. JobPhases'
  BY <1>1, <1>2, <1>3, <1>4, WorkersJob, PrefetcherSetsAssumption DEF IInv, JobPhases, Callers
<1>7. ConsumerPhases'
  BY <1>1, <1>3, WorkersJob DEF IInv, ConsumerPhases, Callers
<1>8. Typed'
  <2>1. /\ stage' \in [Workers -> Stages] /\ taken' \in [Workers -> Jobs \cup {None}]
    BY <1>1, WorkersJob DEF Stages
  <2> QED
    BY <2>1, <1>1 DEF IInv, Typed, TypeOK, CacheSound
<1> QED
  BY <1>5, <1>6, <1>7, <1>8 DEF IInv

(* The end of ThreadWorker's try block.                                    *)
LEMMA AfterJobDone ==
  ASSUME IInv, NEW w \in Workers, JobDone(w)
  PROVE  IInv'
<1>1. /\ stage[w] = "job" /\ running' = running - 1 /\ Pool!Finish(w)
      /\ stage' = [stage EXCEPT ![w] = "idle"] /\ Cache!Leave(taken[w])
      /\ UNCHANGED <<scheduleVars, exception, at>>
  BY DEF JobDone
<1>2. /\ phase'[taken[w]] = "idle"
      /\ \A c \in Callers \ {taken[w]} : phase'[c] = phase[c]
  BY <1>1, WorkersJob DEF Cache!Leave
<1>3. CacheSound'
  BY <1>1, WorkersJob, MakersStay DEF CacheMove, IInv
<1>4. Outstanding' = Outstanding \ {taken[w]}
  <2>1. /\ taken'[w] = None /\ stage'[w] = "idle" /\ at' = at /\ job' = job /\ pending' = pending
        /\ \A v \in Workers \ {w} : taken'[v] = taken[v] /\ stage'[v] = stage[v]
    BY <1>1, WorkersJob DEF Pool!Finish, scheduleVars
  <2> QED
    BY <1>1, <2>1, WorkersJob DEF Outstanding, Scheduling
<1>5. CountSound' /\ running' \in 0 .. Ahead
  <2>1. running' = Cardinality(Outstanding') /\ running' \in 0 .. Ahead /\ running > 0
    BY <1>1, <1>4, CountLowered
  <2>2. at' = at /\ running' = running - 1
    BY <1>1
  <2> QED
    BY <2>1, <2>2, Numbers DEF IInv, CountSound
<1> QED
  BY <1>1, <1>2, <1>3, <1>5, WorkerLeaves

(* The end of its catch block.                                             *)
LEMMA AfterUnlock ==
  ASSUME IInv, NEW w \in Workers, Unlock(w)
  PROVE  IInv'
<1>1. /\ stage[w] = "unlock" /\ running' = running /\ Pool!Finish(w)
      /\ stage' = [stage EXCEPT ![w] = "idle"]
      /\ UNCHANGED <<cacheVars, scheduleVars, exception, at>>
  BY DEF Unlock
<1>2. /\ phase'[taken[w]] = "idle"
      /\ \A c \in Callers \ {taken[w]} : phase'[c] = phase[c]
  BY <1>1 DEF cacheVars, IInv, JobPhases
<1>3. CacheSound'
  BY <1>1, CacheUnmoved
<1>4. Outstanding' = Outstanding
  <2>1. /\ taken'[w] = None /\ stage'[w] = "idle" /\ at' = at /\ job' = job /\ pending' = pending
        /\ \A v \in Workers \ {w} : taken'[v] = taken[v] /\ stage'[v] = stage[v]
    BY <1>1, WorkersJob DEF Pool!Finish, scheduleVars
  <2> QED
    BY <1>1, <2>1 DEF Outstanding
<1>5. CountSound' /\ running' \in 0 .. Ahead
  BY <1>1, <1>4 DEF IInv, CountSound, Typed, TypeOK
<1> QED
  BY <1>1, <1>2, <1>3, <1>5, WorkerLeaves

(* A worker goes on in its catch block. *)
LEMMA WorkerCatches ==
  ASSUME IInv, NEW w \in Workers, stage[w] # "idle", CacheSound', phase'[taken[w]] = "idle",
         \A c \in Callers \ {taken[w]} : phase'[c] = phase[c],
         NEW s \in {"record", "lower", "unlock"}, stage' = [stage EXCEPT ![w] = s],
         exception' \in BOOLEAN, UNCHANGED <<poolVars, scheduleVars, at>>,
         CountSound', running' \in 0 .. Ahead
  PROVE  IInv'
<1>1. /\ pending' = pending /\ taken' = taken
      /\ current' = current /\ stride' = stride /\ ahead' = ahead /\ pass' = pass /\ job' = job
  BY DEF poolVars, scheduleVars
<1>2. /\ stage'[w] = s /\ \A v \in Workers \ {w} : stage'[v] = stage[v]
  BY WorkersJob
<1>3. Held' = Held /\ (Scheduling' <=> Scheduling)
  BY <1>1, <1>2 DEF Held, Scheduling
<1>4. Placed' = Placed
  BY <1>1, <1>3 DEF Placed
<1>5. JobsPlaced'
  BY <1>1, <1>2, <1>3, WorkersJob DEF IInv, JobsPlaced
<1>6. JobPhases'
  BY <1>1, <1>2, <1>3, <1>4, WorkersJob DEF IInv, JobPhases, Callers
<1>7. ConsumerPhases'
  BY <1>1, <1>3, WorkersJob DEF IInv, ConsumerPhases, Callers
<1>8. Typed'
  <2>1. stage' \in [Workers -> Stages]
    BY WorkersJob DEF Stages
  <2> QED
    BY <2>1, <1>1 DEF IInv, Typed, TypeOK, CacheSound
<1> QED
  BY <1>5, <1>6, <1>7, <1>8 DEF IInv

(* The job's rollback, before the catch block.                             *)
LEMMA AfterRollbackJob ==
  ASSUME IInv, NEW w \in Workers, RollbackJob(w)
  PROVE  IInv'
<1>1. /\ stage[w] = "job" /\ StepBack(taken[w])
      /\ stage' = IF phase'[taken[w]] = "idle" THEN [stage EXCEPT ![w] = "record"] ELSE stage
      /\ UNCHANGED <<poolVars, scheduleVars, running, exception, at>>
  BY DEF RollbackJob
<1>2. CacheMove(taken[w])
  BY <1>1 DEF StepBack, CacheMove
<1>3. /\ phase'[taken[w]] \in {"idle", "leaving"}
      /\ \A c \in Callers \ {taken[w]} : phase'[c] = phase[c]
  BY <1>1, WorkersJob DEF StepBack, Cache!GiveUp, Cache!Leave
<1>4. CASE phase'[taken[w]] = "leaving"
  BY <1>1, <1>2, <1>3, <1>4, WorkerAsks DEF Busy
<1>5. CASE phase'[taken[w]] = "idle"
  <2>1. stage' = [stage EXCEPT ![w] = "record"] /\ CacheSound' /\ exception' \in BOOLEAN
    BY <1>1, <1>2, <1>5, WorkersJob, MakersStay DEF IInv, Typed, TypeOK
  <2>2. /\ stage'[w] = "record" /\ at' = at /\ job' = job /\ pending' = pending /\ taken' = taken
        /\ \A v \in Workers \ {w} : stage'[v] = stage[v]
    BY <1>1, <2>1, WorkersJob DEF poolVars, scheduleVars
  <2>3. Outstanding' = Outstanding
    BY <1>1, <2>2 DEF Outstanding
  <2>4. CountSound' /\ running' \in 0 .. Ahead
    BY <1>1, <2>3 DEF IInv, CountSound, Typed, TypeOK
  <2> QED
    BY <1>1, <1>3, <1>5, <2>1, <2>4, WorkerCatches
<1> QED
  BY <1>3, <1>4, <1>5

(* The exception is kept, and the count lowered.                           *)
LEMMA AfterCatching ==
  ASSUME IInv, NEW w \in Workers, RecordException(w) \/ LowerCount(w)
  PROVE  IInv'
<1>1. CASE RecordException(w)
  <2>1. /\ stage[w] = "record" /\ exception' \in BOOLEAN /\ stage' = [stage EXCEPT ![w] = "lower"]
        /\ UNCHANGED <<cacheVars, poolVars, scheduleVars, running, at>>
    BY <1>1 DEF RecordException
  <2>2. /\ stage'[w] = "lower" /\ at' = at /\ job' = job /\ pending' = pending /\ taken' = taken
        /\ \A v \in Workers \ {w} : stage'[v] = stage[v]
    BY <2>1, WorkersJob DEF poolVars, scheduleVars
  <2>3. Outstanding' = Outstanding
    BY <2>1, <2>2 DEF Outstanding
  <2>4. CountSound' /\ running' \in 0 .. Ahead
    BY <2>1, <2>3 DEF IInv, CountSound, Typed, TypeOK
  <2>5. CacheSound' /\ phase' = phase /\ phase[taken[w]] = "idle"
    BY <2>1, CacheUnmoved DEF cacheVars, IInv, JobPhases
  <2> QED
    BY <2>1, <2>4, <2>5, WorkerCatches
<1>2. CASE LowerCount(w)
  <2>1. /\ stage[w] = "lower" /\ running' = running - 1 /\ stage' = [stage EXCEPT ![w] = "unlock"]
        /\ UNCHANGED <<cacheVars, poolVars, scheduleVars, exception, at>>
    BY <1>2 DEF LowerCount
  <2>2. /\ stage'[w] = "unlock" /\ at' = at /\ job' = job /\ pending' = pending /\ taken' = taken
        /\ \A v \in Workers \ {w} : stage'[v] = stage[v]
    BY <2>1, WorkersJob DEF poolVars, scheduleVars
  <2>3. Outstanding' = Outstanding \ {taken[w]}
    BY <2>1, <2>2, WorkersJob DEF Outstanding, Scheduling
  <2>4. CountSound' /\ running' \in 0 .. Ahead
    BY <2>1, <2>3, CountLowered, Numbers DEF IInv, CountSound
  <2>5. CacheSound' /\ phase' = phase /\ phase[taken[w]] = "idle" /\ exception' \in BOOLEAN
    BY <2>1, CacheUnmoved DEF cacheVars, IInv, JobPhases, Typed, TypeOK
  <2> QED
    BY <2>1, <2>4, <2>5, WorkerCatches
<1> QED
  BY <1>1, <1>2
-----------------------------------------------------------------------------
(* A Prefetcher that has just been made.                                   *)
LEMMA InitInvariant == Init => IInv
<1> SUFFICES ASSUME Init PROVE IInv
  OBVIOUS
<1>1. /\ memo = [k \in Keys |-> "absent"] /\ phase = [t \in Callers |-> "idle"]
      /\ asked = [t \in Callers |-> None] /\ faults = 0
      /\ pending = <<>> /\ taken = [w \in Workers |-> None]
      /\ running = 0 /\ exception = FALSE /\ at = "idle" /\ current = 0 /\ stride = 1 /\ ahead = 0
      /\ pass = 1 /\ job = None /\ stage = [w \in Workers |-> "idle"]
  BY DEF Init, Cache!MemoInit, Pool!Init
<1>2. /\ pending \in Seq(Jobs) /\ Len(pending) = 0 /\ Range(pending) = {} /\ IsInjective(pending)
  BY <1>1 DEF Range, IsInjective
<1>3. Held = {} /\ Outstanding = {} /\ ~Scheduling
  BY <1>1, <1>2 DEF Held, Outstanding, Scheduling
<1>4. Typed
  <2>1. TypeOK
    <3>1. Ahead \in Nat /\ Room \in Nat /\ 1 \in Strides
      BY Reach, PrefetcherSizesAssumption
    <3>2. taken \in [Workers -> Jobs \cup {None}] /\ stage \in [Workers -> Stages]
      BY <1>1 DEF Stages
    <3>3. /\ running \in 0 .. Ahead /\ ahead \in Int /\ Len(pending) <= Room
          /\ current \in Clip \cup {0} /\ pass \in {1, 2}
      BY <1>1, <1>2, <3>1
    <3>4. exception \in BOOLEAN /\ job \in Jobs \cup {None} /\ at \in ConsumerPlaces
          /\ stride \in Strides
      BY <1>1, <3>1 DEF ConsumerPlaces
    <3> QED
      BY <1>2, <3>2, <3>3, <3>4 DEF TypeOK
  <2>2. CacheTyped
    BY <1>1 DEF CacheTyped
  <2> QED
    BY <1>1, <2>1, <2>2 DEF Typed
<1>5. CacheSound
  BY <1>1, <1>4 DEF CacheSound, Typed, AskedSound, FaultsSound, BusyIsMade
<1>6. JobsPlaced
  BY <1>1, <1>2, <1>3 DEF JobsPlaced
<1>7. JobPhases
  BY <1>1, <1>2, <1>3 DEF JobPhases, Placed, Callers
<1>8. ConsumerPhases
  BY <1>1, <1>3 DEF ConsumerPhases, Callers
<1>9. CountSound
  BY <1>1, <1>3, FS_EmptySet DEF CountSound
<1> QED
  BY <1>4, <1>5, <1>6, <1>7, <1>8, <1>9 DEF IInv

(* A step of somebody else.                                                *)
LEMMA StutterInvariant ==
  ASSUME IInv, UNCHANGED vars
  PROVE  IInv'
<1>1. /\ UNCHANGED <<cacheVars, memo, phase, asked, faults, pending, taken, stage, running, exception>>
      /\ UNCHANGED <<at, current, stride, ahead, pass, job>>
  BY DEF vars, cacheVars, poolVars, scheduleVars
<1>2. CacheSound'
  BY <1>1, CacheUnmoved
<1>3. Held' = Held /\ Placed' = Placed /\ Outstanding' = Outstanding /\ (Scheduling' <=> Scheduling)
  BY <1>1 DEF Held, Placed, Outstanding, Scheduling
<1>4. Typed' /\ JobsPlaced' /\ JobPhases' /\ ConsumerPhases' /\ CountSound'
  BY <1>1, <1>2, <1>3 DEF IInv, Typed, TypeOK, CacheSound, JobsPlaced, JobPhases, ConsumerPhases,
     CountSound
<1> QED
  BY <1>2, <1>4 DEF IInv

(* Every step keeps the invariant.                                         *)
LEMMA NextInvariant == IInv /\ [Next]_vars => IInv'
<1>1. ASSUME IInv, NEW w \in Workers, WorkerStep(w) \/ JobFails(w) PROVE IInv'
  BY <1>1, AfterTakeJob, AfterMakeFrame, AfterJobDone, AfterRollbackJob, AfterCatching, AfterUnlock
     DEF WorkerStep
<1>2. ASSUME IInv, ConsumerStep PROVE IInv'
  BY <1>2, AfterConsumerStep, AfterScheduleFrame, AfterCountJob, AfterQueueJob,
     AfterConsumersRequest DEF ConsumerStep
<1> QED
  BY <1>1, <1>2, AfterGetFrame, AfterConsumersRequest, AfterKeepWaiting, AfterConsumerStep,
     StutterInvariant DEF Next

(* The invariant behind the theorems about jobs.                           *)
THEOREM Invariance == Spec => []IInv
<1> QED
  BY InitInvariant, NextInvariant, PTL DEF Spec

(* running_workers, which the consumer raises and the workers lower, is    *)
(* always the number of jobs that are on their way, none of which is in    *)
(* two places, and QueueJob finds room: no job is lost or counted twice.   *)
THEOREM JobsAreAccounted == Spec => []JobsAccounted
<1>1. IInv => JobsAccounted
  <2> SUFFICES ASSUME IInv PROVE JobsAccounted
    OBVIOUS
  <2>1. TypeOK
    BY DEF IInv, Typed
  <2>2. CountIsExact
    BY PrefetcherSetsAssumption DEF IInv, JobsPlaced, CountSound, CountIsExact
  <2>3. QueueNeverFills
    <3> SUFFICES ASSUME at = "push" PROVE Len(pending) < Ahead
      BY DEF QueueNeverFills
    <3>1. /\ pending \in Seq(Jobs) /\ IsInjective(pending) /\ job \in Jobs
          /\ job \notin Range(pending)
      BY DEF IInv, Typed, TypeOK, JobsPlaced, Scheduling
    <3>2. /\ IsFiniteSet(Range(pending)) /\ Cardinality(Range(pending)) = Len(pending)
          /\ Range(pending) \subseteq Jobs
      BY <3>1, RangeCounts
    <3>3. Cardinality(Range(pending) \cup {job}) = Len(pending) + 1
      BY <3>1, <3>2, FS_AddElement
    <3>4. Range(pending) \cup {job} \subseteq Outstanding /\ Outstanding \subseteq Jobs
      BY <3>1, <3>2, PrefetcherSetsAssumption DEF Outstanding, IInv, Typed, TypeOK, JobsPlaced
    <3>5. IsFiniteSet(Outstanding) /\ Cardinality(Range(pending) \cup {job}) <= Cardinality(Outstanding)
      BY <3>4, FS_Subset, PrefetcherSetsAssumption
    <3>6. Len(pending) \in Nat /\ Len(pending) + 1 <= running
      BY <3>1, <3>3, <3>5 DEF IInv, CountSound
    <3> QED
      BY <3>6, Numbers
  <2> QED
    BY <2>1, <2>2, <2>3 DEF JobsAccounted
<1> QED
  BY <1>1, Invariance, PTL

(* A frame that SchedulePrefetch has reserved in VideoCache is being made, *)
(* and the job that makes it is in the consumer's hands, queued or with a  *)
(* worker: nobody waits for a frame that nobody will bring, unless its     *)
(* maker failed while somebody waited.                                     *)
THEOREM ReservationsAreOnTheirWay == Spec => []ReservedIsOnItsWay
<1>1. IInv => ReservedIsOnItsWay
  <2> SUFFICES ASSUME IInv, NEW k \in Keys, memo[k] = "busy", Making(k) PROVE OnItsWay(k)
    BY DEF IInv, CacheSound, BusyIsMade, ReservedIsOnItsWay
  <2>1. PICK c \in Callers : asked[c] = k /\ phase[c] \in {"making", "failed"}
    BY DEF Making
  <2>2. CASE c # Consumer
    <3>1. c \in Placed
      BY <2>1, <2>2 DEF IInv, JobPhases, Callers
    <3> QED
      BY <2>1, <3>1 DEF Placed, Held, Scheduling, OnItsWay, IInv, Typed, TypeOK, Range
  <2> QED
    BY <2>1, <2>2 DEF OnItsWay
<1> QED
  BY <1>1, Invariance, PTL

(* When Destroy has seen running_workers fall to zero, and deletes the     *)
(* cache and the pool, no job is queued or in a worker's hands.            *)
THEOREM NobodyIsLeft == Spec => []NobodyLeft
<1>1. IInv => NobodyLeft
  <2> SUFFICES ASSUME IInv, at = "destroyed"
               PROVE  pending = <<>> /\ \A w \in Workers : stage[w] \in {"idle", "unlock"}
    BY DEF NobodyLeft
  <2>1. Outstanding = {}
    <3>1. Outstanding \subseteq Jobs
      BY RangeCounts DEF Outstanding, IInv, Typed, TypeOK, JobsPlaced
    <3> QED
      BY <3>1, FS_Subset, FS_EmptySet, PrefetcherSetsAssumption DEF IInv, CountSound
  <2>2. pending \in Seq(Jobs) /\ Range(pending) = {}
    BY <2>1 DEF Outstanding, IInv, Typed, TypeOK
  <2>3. pending = <<>>
    BY <2>2 DEF Range
  <2>4. ASSUME NEW w \in Workers PROVE stage[w] \in {"idle", "unlock"}
    <3>1. stage[w] \in Stages
      BY DEF IInv, Typed, TypeOK
    <3>2. stage[w] \notin {"job", "record", "lower"}
      BY <2>1 DEF Outstanding
    <3> QED
      BY <3>1, <3>2 DEF Stages
  <2> QED
    BY <2>3, <2>4
<1> QED
  BY <1>1, Invariance, PTL
=============================================================================
