--------------------------- MODULE EditingProofs ---------------------------
(* That Cache::GetAudio fills every buffer rightly, whatever is asked of   *)
(* it, and with any script behind it: what goes on in the graph of filters *)
(* below is to the cache one step, that of CacheAudio's AskChild.          *)
(* And that an edited clip shows the frames it should.                     *)
EXTENDS Editing, FiniteSetTheorems, WellFoundedInduction, TLAPS

TypeOK == /\ length \in Nat
          /\ call \in [start : Int, count : Int]
          /\ start \in Int /\ count \in Int /\ buf \in Int
          /\ pc \in {"idle", "enter", "front", "end", "child", "answer", "return"}

(* The child is asked for samples it has, at least one, and they go where  *)
(* the caller expects them.                                                *)
ChildAskedRight ==
  pc \in {"child", "answer"} =>
    /\ count > 0 /\ start >= 0 /\ start + count <= length
    /\ start - buf = call.start

(* What is known at each place; while the child answers, what was known    *)
(* when it was asked.                                                      *)
AtEnter == /\ start = call.start /\ count = call.count
           /\ buf = 0 /\ silent = {} /\ filled = {}
AtFront == AtEnter /\ count > 0 /\ ~Outside
AtEnd   == /\ start >= 0 /\ start < length /\ count > 0
           /\ buf >= 0 /\ start - buf = call.start /\ buf + count = call.count
           /\ buf > 0 => start = 0
           /\ silent = 0 .. buf - 1 /\ filled = {}
AtChild == /\ ChildAskedRight
           /\ silent = Asked \ InClip
           /\ buf .. buf + count - 1 = InClip

IInv == /\ TypeOK
        /\ pc \in {"idle", "enter"} => AtEnter
        /\ pc = "front"  => AtFront
        /\ pc = "end"    => AtEnd
        /\ pc \in {"child", "answer"} => AtChild
        /\ EverySampleOnce

-----------------------------------------------------------------------------
(* The invariant holds before the call, and when it begins. *)
LEMMA Initially == Init => IInv
<1> SUFFICES ASSUME Init PROVE IInv
  OBVIOUS
<1> USE AudioAssumption DEF Init
<1>1. TypeOK
  BY DEF TypeOK
<1>2. AtEnter
  BY DEF AtEnter
<1> QED
  BY <1>1, <1>2 DEF IInv, EverySampleOnce

(* A call begins with nothing written. *)
LEMMA BeginKeeps == ASSUME IInv, Begin PROVE IInv'
<1>1. TypeOK /\ AtEnter
  BY DEF IInv, Begin
<1>2. call' \in [start : Int, count : Int] /\ length' \in Nat
  BY AudioAssumption DEF Begin
<1>3. TypeOK' /\ AtEnter' /\ pc' = "enter"
  BY <1>1, <1>2 DEF TypeOK, AtEnter, Begin
<1> QED
  BY <1>3 DEF IInv, EverySampleOnce

(* A call of which nothing is in the clip is answered with silence, one of *)
(* nothing not at all.                                                     *)
LEMMA EnterKeeps == ASSUME IInv, Enter PROVE IInv'
<1>1. TypeOK' /\ pc = "enter" /\ AtEnter
  BY DEF IInv, TypeOK, Enter
<1>2. CASE count <= 0
  <2>1. Asked = {} /\ Asked' = {} /\ InClip' = {}
    BY <1>1, <1>2 DEF Asked, InClip, AtEnter, TypeOK, IInv, Enter
  <2>2. silent' = {} /\ filled' = {} /\ pc' = "return"
    BY <1>1, <1>2 DEF AtEnter, Enter
  <2> QED
    BY <1>1, <2>1, <2>2 DEF IInv, EverySampleOnce
<1>3. CASE count > 0 /\ Outside
  <2>1. silent' = 0 .. count - 1 /\ filled' = {} /\ pc' = "return"
    BY <1>1, <1>3 DEF AtEnter, Enter, Zeros, TypeOK, IInv
  <2>2. InClip' = {} /\ Asked' = 0 .. count - 1
    BY <1>1, <1>3 DEF AtEnter, Enter, Outside, InClip, Asked, TypeOK, IInv
  <2> QED
    BY <1>1, <2>1, <2>2 DEF IInv, EverySampleOnce
<1>4. CASE count > 0 /\ ~Outside
  <2>1. pc' = "front" /\ AtFront'
    BY <1>1, <1>4 DEF AtFront, AtEnter, Enter, Outside, TypeOK, IInv
  <2> QED
    BY <1>1, <2>1 DEF IInv, EverySampleOnce
<1> QED
  BY <1>1, <1>2, <1>3, <1>4 DEF TypeOK, IInv

(* What comes before the clip is silent. *)
LEMMA ClipFrontKeeps == ASSUME IInv, ClipFront PROVE IInv'
<1>1. TypeOK /\ AtFront /\ pc' = "end"
  BY DEF IInv, ClipFront
<1>2. TypeOK'
  BY <1>1 DEF TypeOK, ClipFront
<1>3. AtEnd'
  <2>1. CASE start < 0
    <3>1. silent' = 0 .. buf' - 1
      BY <1>1, <2>1 DEF ClipFront, Zeros, AtFront, AtEnter, TypeOK
    <3> QED
      BY <1>1, <2>1, <3>1 DEF AtEnd, ClipFront, AtFront, AtEnter, Outside, TypeOK
  <2>2. CASE start >= 0
    <3>1. /\ silent' = {} /\ filled' = {} /\ buf' = 0
          /\ start' = start /\ count' = count /\ length' = length /\ call' = call
      BY <1>1, <2>2 DEF ClipFront, AtFront, AtEnter, TypeOK
    <3>2. 0 .. buf' - 1 = {}
      BY <3>1
    <3> QED
      BY <1>1, <2>2, <3>1, <3>2 DEF AtEnd, AtFront, AtEnter, Outside, TypeOK
  <2> QED
    BY <1>1, <2>1, <2>2 DEF TypeOK
<1> QED
  BY <1>1, <1>2, <1>3 DEF IInv, EverySampleOnce

(* What comes after it is silent too, and the child can fill the rest. *)
LEMMA ClipEndKeeps == ASSUME IInv, ClipEnd PROVE IInv'
<1>1. TypeOK /\ AtEnd /\ pc' = "child"
  BY DEF IInv, ClipEnd
<1>2. TypeOK'
  BY <1>1 DEF TypeOK, ClipEnd
<1>3. ChildAskedRight'
  BY <1>1 DEF ChildAskedRight, ClipEnd, AtEnd, TypeOK
<1>4. (buf .. buf + count - 1)' = InClip'
  BY <1>1, SMTT(30) DEF ClipEnd, AtEnd, TypeOK, InClip, Asked
<1>5. silent' = (Asked \ InClip)'
  <2>1. CASE start + count > length
    <3>1. silent' = (0 .. buf - 1) \cup (buf + (length - start) .. buf + count - 1)
      BY <1>1, <2>1 DEF ClipEnd, Zeros, AtEnd, TypeOK
    <3> QED
      BY <1>1, <2>1, <3>1, SMTT(30) DEF ClipEnd, AtEnd, TypeOK, InClip, Asked
  <2>2. CASE start + count <= length
    BY <1>1, <2>2 DEF ClipEnd, AtEnd, TypeOK, InClip, Asked
  <2> QED
    BY <1>1, <2>1, <2>2 DEF TypeOK
<1> QED
  BY <1>1, <1>2, <1>3, <1>4, <1>5 DEF IInv, AtChild, EverySampleOnce

(* The child fills them. *)
LEMMA AskChildKeeps == ASSUME IInv, AskChild PROVE IInv'
<1>1. TypeOK /\ AtChild /\ pc' = "return"
  BY DEF IInv, AskChild
<1>2. TypeOK'
  BY <1>1 DEF TypeOK, AskChild
<1>3. Asked' = Asked /\ InClip' = InClip /\ silent' = silent /\ filled' = InClip
  BY <1>1 DEF AskChild, Asked, InClip, AtChild
<1> QED
  BY <1>1, <1>2, <1>3 DEF IInv, AtChild, EverySampleOnce

-----------------------------------------------------------------------------
(* What happens elsewhere changes nothing.                                 *)
LEMMA StuttersKeep == ASSUME IInv, UNCHANGED vars PROVE IInv'
BY DEF vars, IInv, TypeOK, AtEnter, AtFront, AtEnd, AtChild, Outside,
       EverySampleOnce, ChildAskedRight, Asked, InClip

(* At every step of every call what has been written so far is right. *)
THEOREM Invariance == Spec => []IInv
<1>1. Init => IInv
  BY Initially
<1>2. IInv /\ [Next]_vars => IInv'
  <2> SUFFICES ASSUME IInv, [Next]_vars PROVE IInv'
    OBVIOUS
  <2> QED
    BY StuttersKeep, BeginKeeps, EnterKeeps, ClipFrontKeeps, ClipEndKeeps, AskChildKeeps DEF Next
<1> QED
  BY <1>1, <1>2, PTL DEF Spec

(* GetAudio writes every sample of the buffer once, and none outside it.   *)
THEOREM FillsBuffer == Spec => []EverySampleOnce
BY Invariance, PTL DEF IInv

(* The child is only asked for samples it has. *)
THEOREM ChildCanAnswer == Spec => []ChildAskedRight
<1>1. IInv => ChildAskedRight
  BY DEF IInv, AtChild, ChildAskedRight
<1> QED
  BY <1>1, Invariance, PTL
-----------------------------------------------------------------------------

(* CacheAudio, with the answering of the child left out.                   *)
P == INSTANCE CacheAudio
       WITH pc <- IF pc = "answer" THEN "child" ELSE pc

(* It begins as CacheAudio does. *)
LEMMA StartsAsCacheAudio == EInit => P!Init
BY DEF EInit, Init, P!Init

(* A script that is still being written asks for no sound.                 *)
LEMMA MadeUnseen == \A filters, means : Made(filters, means) => UNCHANGED vars
BY DEF Made

(* None of the edits touches the call. *)
LEMMA EditsUnseen == ASSUME Edit PROVE UNCHANGED vars
<1>1. ASSUME NEW mode \in Modes, NEW i \in Given, NEW j \in Given, AudioTrim(mode, i, j)
      PROVE  UNCHANGED vars
  BY <1>1, MadeUnseen, Zenon DEF AudioTrim
<1>2. ASSUME NEW mode \in Modes, NEW i \in Given, NEW j \in Given, NEW pad \in BOOLEAN,
             Trim(mode, i, j, pad)
      PROVE  UNCHANGED vars
  BY <1>2, MadeUnseen, Zenon DEF Trim
<1>3. ASSUME NEW i \in Given, NEW j \in Given, NEW n \in Given, FreezeFrame(i, j, n)
      PROVE  UNCHANGED vars
  BY <1>3, MadeUnseen, Zenon DEF FreezeFrame
<1>4. ASSUME NEW list, DeleteFrame(list) \/ DuplicateFrame(list)
      PROVE  UNCHANGED vars
  BY <1>4, MadeUnseen, Zenon DEF DeleteFrame, DuplicateFrame
<1>5. ASSUME NEW p \in Operands, NEW realign \in BOOLEAN, Splice(p[1], p[2], realign)
      PROVE  UNCHANGED vars
  BY <1>5, MadeUnseen, Zenon DEF Splice
<1>6. ASSUME NEW p \in Operands, NEW n \in Given, Dissolve(p[1], p[2], n)
      PROVE  UNCHANGED vars
  BY <1>6, MadeUnseen, Zenon DEF Dissolve
<1>7. ASSUME NEW way, NEW n \in Given, NEW more \in 0 .. 2, Fade(way, n, more)
      PROVE  UNCHANGED vars
  BY <1>7, MadeUnseen, Zenon DEF Fade
<1>8. ASSUME NEW p \in Operands, NEW ex \in BOOLEAN, AudioDub(p[1], p[2], ex)
      PROVE  UNCHANGED vars
  BY <1>8, MadeUnseen, Zenon DEF AudioDub
<1>9. ASSUME ReverseClip PROVE UNCHANGED vars
  BY <1>9, MadeUnseen, Zenon DEF ReverseClip
<1>10. ASSUME NEW times, NEW i, NEW j, Loop(times, i, j)
       PROVE  UNCHANGED vars
  BY <1>10, MadeUnseen, Zenon DEF Loop
<1> QED
  BY <1>1, <1>2, <1>3, <1>4, <1>5, <1>6, <1>7, <1>8, <1>9, <1>10, Zenon DEF Edit

(* Nor does what the graph does for it. *)
LEMMA ServingUnseen == ASSUME Serve PROVE UNCHANGED vars
BY Zenon DEF Serve, CacheGetAudio, SourceGetAudio, GenericGetAudio, TrimGetAudio, AudioDubGetAudio,
       Hands, SpliceGetAudio, DissolveGetAudio, DissolveMixes, ReverseGetAudio, ReverseSwaps,
       LoopGetAudio, Doing

(* Every step is one of CacheAudio's, or none that it knows of.            *)
LEMMA StepsAsCacheAudio == ASSUME [ENext]_evars PROVE [P!Next]_P!vars
<1>1. CASE UNCHANGED vars
  BY <1>1 DEF vars, P!vars
<1>2. CASE Request
  BY <1>2 DEF Request, Begin, P!Next, P!Begin
<1>3. CASE CacheStep
  BY <1>3 DEF CacheStep, Enter, ClipFront, ClipEnd, Outside, Zeros,
              P!Next, P!Enter, P!ClipFront, P!ClipEnd, P!Outside, P!Zeros
<1>4. CASE AskGraph
  BY <1>4 DEF AskGraph, P!vars
<1>5. CASE Answered
  BY <1>5 DEF Answered, P!Next, P!AskChild
<1> QED
  BY <1>1, <1>2, <1>3, <1>4, <1>5, EditsUnseen, ServingUnseen DEF ENext, Answering, evars

(* The Cache on an edited clip behaves as CacheAudio says.                 *)
THEOREM ImplementsCacheAudio == ESpec => P!Spec
<1>1. [ENext]_evars => [P!Next]_P!vars
  BY StepsAsCacheAudio
<1> QED
  BY <1>1, StartsAsCacheAudio, PTL DEF ESpec, P!Spec

(* The graph is asked for what the child may be asked for.                 *)
LEMMA AskGraphKeeps == ASSUME IInv, AskGraph PROVE IInv'
<1>1. /\ pc = "child" /\ pc' = "answer"
      /\ UNCHANGED <<length, call, start, count, buf, silent, filled>>
  BY DEF AskGraph
<1> QED
  BY <1>1 DEF IInv, TypeOK, AtChild, ChildAskedRight, EverySampleOnce, Asked, InClip

(* When it has answered, the buffer holds what the child was asked for.    *)
LEMMA AnsweredKeeps == ASSUME IInv, Answered PROVE IInv'
<1>1. TypeOK /\ AtChild /\ pc' = "return"
  BY DEF IInv, Answered
<1>2. TypeOK'
  BY <1>1 DEF TypeOK, Answered
<1>3. Asked' = Asked /\ InClip' = InClip /\ silent' = silent /\ filled' = InClip
  BY <1>1 DEF Answered, Asked, InClip, AtChild
<1> QED
  BY <1>1, <1>2, <1>3 DEF IInv, AtChild, EverySampleOnce

(* So every sample asked for is written once: those that the clip has from *)
(* the graph, the others with silence.                                     *)
THEOREM EditedFillsBuffer == ESpec => []EverySampleOnce
<1>1. EInit => IInv
  BY Initially DEF EInit
<1>2. IInv /\ [ENext]_evars => IInv'
  <2> SUFFICES ASSUME IInv, [ENext]_evars PROVE IInv'
    OBVIOUS
  <2>1. CASE UNCHANGED vars
    BY <2>1, StuttersKeep
  <2>2. CASE Request
    BY <2>2, BeginKeeps DEF Request
  <2>3. CASE CacheStep
    BY <2>3, EnterKeeps, ClipFrontKeeps, ClipEndKeeps DEF CacheStep
  <2> QED
    BY <2>1, <2>2, <2>3, AskGraphKeeps, AnsweredKeeps, EditsUnseen, ServingUnseen
    DEF ENext, Answering, evars
<1> QED
  BY <1>1, <1>2, PTL DEF ESpec, IInv

-----------------------------------------------------------------------------
(* That the frames are those the script's author expects, whatever edits   *)
(* are made: ShowsInv says it of the last filter of the graph and, so that *)
(* one edit after another keeps it, of how the graph is built.  Each edit  *)
(* has its lemma (TrimShows, LoopShows, ...): its filters, appended to     *)
(* such a graph, show what EditList says of the edit.                      *)

(* Induction over the numbers, and over those up to one. *)
LEMMA AllNumbers ==
  ASSUME NEW S, 0 \in S, \A k \in Nat : k \in S => k + 1 \in S
  PROVE  Nat \subseteq S
<1>1. SUFFICES ASSUME NEW n \in Nat, n \notin S PROVE FALSE
  OBVIOUS
<1> DEFINE D == {k \in 0 .. n : k \notin S}
           B == {0 .. k : k \in D}
           R == StrictSubsetOrdering(0 .. n)
<1>2. IsFiniteSet(0 .. n)
  BY FS_Interval
<1>3. IsWellFoundedOn(R, SUBSET (0 .. n))
  BY <1>2, FS_StrictSubsetOrderingWellFounded, FS_FiniteSubsetsOfFinite
<1>4. B # {} /\ B \in SUBSET (SUBSET (0 .. n))
  BY <1>1
<1>5. PICK x \in B : \A y \in B : ~ (<<y, x>> \in R)
  <2> HIDE DEF B, R
  <2> QED
    BY <1>3, <1>4, WFMin
<1>6. PICK k \in D : x = 0 .. k
  OBVIOUS
<1>7. k # 0 /\ k - 1 \in D
  BY <1>1
<1>8. 0 .. (k - 1) \in B
  BY <1>7
<1>9. 0 .. (k - 1) \subseteq 0 .. k /\ k \notin 0 .. (k - 1) /\ k \in 0 .. k /\ 0 .. k \subseteq 0 .. n
  OBVIOUS
<1>10. <<0 .. (k - 1), 0 .. k>> \in R
  <2> DEFINE T == 0 .. (k - 1)
             U == 0 .. k
  <2>1. T \subseteq U /\ T # U /\ U \subseteq 0 .. n
    BY <1>9
  <2> HIDE DEF T, U
  <2> QED
    BY <2>1, SMTT(30) DEF R, StrictSubsetOrdering
<1> QED
  BY <1>5, <1>6, <1>8, <1>10

(* The same for the numbers up to n. *)
LEMMA NumbersUpTo ==
  ASSUME NEW n \in Nat, NEW S, 0 \in S, \A k \in 0 .. n - 1 : k \in S => k + 1 \in S
  PROVE  \A k \in 0 .. n : k \in S
<1> DEFINE T == {k \in Nat : k <= n => k \in S}
<1>1. 0 \in T
  OBVIOUS
<1>2. ASSUME NEW k \in Nat, k \in T PROVE k + 1 \in T
  BY <1>2
<1>3. Nat \subseteq T
  <2> HIDE DEF T
  <2> QED
    BY <1>1, <1>2, AllNumbers
<1> QED
  BY <1>3

-----------------------------------------------------------------------------
(* What a graph shows. *)
IsShowing(G, g) == G = [k \in 1 .. Len(g) |-> [n \in Int |-> Shown(G, g[k], n)]]
Showing(g)      == CHOOSE G : IsShowing(G, g)

Joins == {"Splice", "Dissolve"}
Kinds == {"Source", "Trim", "FreezeFrame", "DeleteFrame", "DuplicateFrame", "AudioDub", "Reverse",
          "Loop"} \cup Joins

(* Each filter asks filters before it. *)
AsksEarlier(g, k) ==
  /\ g[k].kind \in Kinds
  /\ g[k].kind # "Source" => g[k].of \in 1 .. k - 1
  /\ g[k].kind \in Joins => g[k].with \in 1 .. k - 1

Acyclic(g) == Len(g) \in Nat /\ \A k \in 1 .. Len(g) : AsksEarlier(g, k)

(* GetFrame is what the graph shows, *)
LEMMA GetFrameShows == GetFrame = Showing(graph)
BY DEF GetFrame, Showing, IsShowing, Top

(* and after a step what the new graph shows. *)
LEMMA GetFrameShowsNext == GetFrame' = Showing(graph')
BY DEF GetFrame, Showing, IsShowing, Top, Shown

(* It depends on the filters asked. *)
LEMMA SameAsked ==
  ASSUME NEW G, NEW H, NEW f, f.kind \in Kinds,
         f.kind # "Source" => G[f.of] = H[f.of], f.kind \in Joins => G[f.with] = H[f.with]
  PROVE  \A n : Shown(G, f, n) = Shown(H, f, n)
<1> SUFFICES ASSUME NEW n PROVE Shown(G, f, n) = Shown(H, f, n)
  OBVIOUS
<1>1. CASE f.kind = "Source"
  BY <1>1 DEF Shown
<1>2. CASE f.kind \in Joins
  BY <1>2 DEF Shown, Joins
<1>3. CASE f.kind \notin Joins \cup {"Source"}
  BY <1>3 DEF Shown, Joins, Kinds
<1> QED
  BY <1>1, <1>2, <1>3

AgreeBefore(G, H, k) == \A j \in 1 .. k - 1 : H[j] = G[j]

(* Filter k sees no difference between two that agree on those before it. *)
LEMMA EarlierAsked ==
  ASSUME NEW g, NEW k \in Int, AsksEarlier(g, k), NEW G, NEW H, AgreeBefore(G, H, k)
  PROVE  \A n : Shown(G, g[k], n) = Shown(H, g[k], n)
<1>1. g[k].kind \in Kinds
  BY DEF AsksEarlier
<1>2. g[k].kind # "Source" => G[g[k].of] = H[g[k].of]
  BY DEF AsksEarlier, AgreeBefore
<1>3. g[k].kind \in Joins => G[g[k].with] = H[g[k].with]
  BY DEF AsksEarlier, AgreeBefore
<1> QED
  BY <1>1, <1>2, <1>3, SameAsked

(* There is such a function. *)
LEMMA ShowingExists ==
  ASSUME NEW g, Acyclic(g)
  PROVE  IsShowing(Showing(g), g)
<1> DEFINE Upto(G, m) == G = [k \in 1 .. m |-> [n \in Int |-> Shown(G, g[k], n)]]
           S == {m \in 0 .. Len(g) : \E G : Upto(G, m)}
<1>0. Len(g) \in Nat /\ \A k \in 1 .. Len(g) : AsksEarlier(g, k)
  BY DEF Acyclic
<1>1. 0 \in S
  <2>1. Upto([k \in 1 .. 0 |-> 0], 0)
    OBVIOUS
  <2>2. \E G : Upto(G, 0)
    <3> HIDE DEF Upto
    <3> QED
      BY <2>1
  <2> HIDE DEF Upto
  <2> QED
    BY <1>0, <2>2
<1>2. ASSUME NEW m \in 0 .. Len(g) - 1, m \in S PROVE m + 1 \in S
  <2>1. PICK G : Upto(G, m)
    BY <1>2
  <2> DEFINE H == [k \in 1 .. m + 1 |-> IF k <= m THEN G[k] ELSE [n \in Int |-> Shown(G, g[k], n)]]
  <2>2. ASSUME NEW k \in 1 .. m + 1 PROVE H[k] = [n \in Int |-> Shown(H, g[k], n)]
    <3>1. AsksEarlier(g, k)
      BY <1>0
    <3>2. \A j \in 1 .. k - 1 : H[j] = G[j]
      OBVIOUS
    <3>3. \A n : Shown(G, g[k], n) = Shown(H, g[k], n)
      <4> HIDE DEF H
      <4> QED
        BY <3>1, <3>2, SameAsked DEF AsksEarlier
    <3>4. H[k] = [n \in Int |-> Shown(G, g[k], n)]
      <4>1. CASE k <= m
        <5>1. H[k] = G[k]
          BY <4>1
        <5>2. k \in 1 .. m
          BY <1>2, <4>1
        <5>3. \A i \in 1 .. m : G[i] = [n \in Int |-> Shown(G, g[i], n)]
          BY <2>1, Zenon
        <5> HIDE DEF H
        <5> QED
          BY <5>1, <5>2, <5>3, Zenon
      <4>2. CASE k = m + 1
        BY <4>2
      <4> QED
        BY <4>1, <4>2
    <3> HIDE DEF H
    <3> QED
      BY <3>3, <3>4
  <2>3. Upto(H, m + 1)
    <3>1. H = [k \in 1 .. m + 1 |-> H[k]]
      OBVIOUS
    <3> HIDE DEF H
    <3> QED
      BY <2>2, <3>1
  <2>4. \E K : Upto(K, m + 1)
    <3> HIDE DEF Upto, H
    <3> QED
      BY <2>3
  <2> QED
    BY <1>0, <2>4
<1>3. \A m \in 0 .. Len(g) : m \in S
  <2> HIDE DEF S
  <2> QED
    BY <1>0, <1>1, <1>2, NumbersUpTo
<1>4. \E G : IsShowing(G, g)
  BY <1>0, <1>3 DEF IsShowing
<1> QED
  BY <1>4 DEF Showing

(* So a filter that two graphs share shows the same in both, when those    *)
(* before it do.                                                           *)
LEMMA NextShowsSame ==
  ASSUME NEW g, NEW h, NEW G, NEW H, NEW k \in Int, k \in 1 .. Len(g), k \in 1 .. Len(h), h[k] = g[k],
         AsksEarlier(g, k), IsShowing(G, g), IsShowing(H, h), AgreeBefore(G, H, k)
  PROVE  H[k] = G[k]
<1>1. \A n : Shown(G, g[k], n) = Shown(H, g[k], n)
  BY EarlierAsked
<1>2. G[k] = [n \in Int |-> Shown(G, g[k], n)] /\ H[k] = [n \in Int |-> Shown(H, g[k], n)]
  BY DEF IsShowing
<1> QED
  BY <1>1, <1>2

(* The filters that are there show what they did when others are appended. *)
LEMMA EarlierShowSame ==
  ASSUME NEW g, NEW h, NEW G, NEW H, Acyclic(g), Acyclic(h), Len(g) <= Len(h),
         \A k \in 1 .. Len(g) : h[k] = g[k], IsShowing(G, g), IsShowing(H, h)
  PROVE  \A k \in 1 .. Len(g) : H[k] = G[k]
<1> DEFINE S == {m \in 0 .. Len(g) : \A k \in 1 .. m : H[k] = G[k]}
<1>2. Len(g) \in Nat /\ Len(h) \in Nat /\ \A k \in 1 .. Len(g) : AsksEarlier(g, k)
  BY DEF Acyclic
<1>3. 0 \in S
  BY <1>2
<1>4. ASSUME NEW m \in 0 .. Len(g) - 1, m \in S PROVE m + 1 \in S
  <2> DEFINE k == m + 1
  <2>1. k \in 1 .. Len(g) /\ k \in 1 .. Len(h) /\ h[k] = g[k] /\ AsksEarlier(g, k)
    BY <1>2
  <2>2. \A j \in 1 .. k - 1 : H[j] = G[j]
    BY <1>4
  <2>0. m \in Nat /\ k - 1 = m
    BY <1>2
  <2>3. AgreeBefore(G, H, k) /\ k \in Int
    BY <2>2 DEF AgreeBefore
  <2>5. H[k] = G[k]
    <3> HIDE DEF S, k
    <3> QED
      BY <1>2, <2>1, <2>3, NextShowsSame
  <2> QED
    BY <1>2, <2>2, <2>5
<1>5. \A m \in 0 .. Len(g) : m \in S
  <2> HIDE DEF S
  <2> QED
    BY <1>2, <1>3, <1>4, NumbersUpTo
<1> QED
  BY <1>2, <1>5

-----------------------------------------------------------------------------
(* A list: what is known of its length and of joining two. *)
Listed(s) == Len(s) \in Nat /\ DOMAIN s = 1 .. Len(s)

(* The length of a list is the end of its domain. *)
LEMMA LengthOf ==
  ASSUME NEW s, NEW n \in Nat, DOMAIN s = 1 .. n
  PROVE  Listed(s) /\ Len(s) = n
BY DEF Listed

(* A list of one. *)
LEMMA OneLonger ==
  ASSUME NEW a
  PROVE  Listed(<<a>>) /\ Len(<<a>>) = 1 /\ <<a>>[1] = a
BY DEF Listed

IsJoin(u, s, t) ==
  /\ Listed(u) /\ Len(u) = Len(s) + Len(t)
  /\ \A k \in 1 .. Len(s) : u[k] = s[k]
  /\ \A k \in 1 .. Len(t) : u[Len(s) + k] = t[k]

(* Two lists joined: the items of the one, then those of the other. *)
LEMMA JoinedLists ==
  ASSUME NEW s, NEW t, Listed(s), Listed(t)
  PROVE  IsJoin(s \o t, s, t)
<1>1. Len(s \o t) = Len(s) + Len(t) /\ DOMAIN (s \o t) = 1 .. Len(s) + Len(t)
  BY DEF Listed
<1>2. Len(s) + Len(t) \in Nat
  BY DEF Listed
<1>3. \A k \in 1 .. Len(s) : (s \o t)[k] = s[k]
  BY DEF Listed
<1>4. \A k \in 1 .. Len(t) : (s \o t)[Len(s) + k] = t[k]
  BY DEF Listed
<1> QED
  BY <1>1, <1>2, <1>3, <1>4 DEF Listed, IsJoin

IsCut(u, s, i, j) ==
  /\ Listed(u) /\ Len(u) = j - i
  /\ \A k \in 1 .. j - i : u[k] = s[k + i]

(* Items i + 1 .. j of a list. *)
LEMMA CutList ==
  ASSUME NEW s, Listed(s), NEW i, NEW j, i \in Int, j \in Int, 0 <= i, i <= j, j <= Len(s)
  PROVE  IsCut(Cut(s, i, j), s, i, j)
<1>1. Cut(s, i, j) = SubSeq(s, i + 1, j)
  BY DEF Cut, Listed
<1>2. Listed(SubSeq(s, i + 1, j)) /\ Len(SubSeq(s, i + 1, j)) = j - i
  BY DEF Listed
<1>3. \A k \in 1 .. j - i : SubSeq(s, i + 1, j)[k] = s[k + i]
  BY DEF Listed
<1> QED
  BY <1>1, <1>2, <1>3 DEF IsCut

-----------------------------------------------------------------------------
(* Filters appended to a graph. *)
Fits(f, k) ==
  /\ f.kind \in Kinds
  /\ f.kind # "Source" => f.of \in 1 .. k - 1
  /\ f.kind \in Joins => f.with \in 1 .. k - 1

AllFit(g, fs) == \A k \in 1 .. Len(fs) : Fits(fs[k], Len(g) + k)

(* A graph with filters appended that each ask earlier ones: the old       *)
(* filters show what they did, and the new ones what they find.            *)
LEMMA AppendedGraph ==
  ASSUME NEW g, NEW fs, Listed(g), Listed(fs), Acyclic(g), AllFit(g, fs)
  PROVE  /\ Listed(g \o fs) /\ Acyclic(g \o fs) /\ Len(g \o fs) = Len(g) + Len(fs)
         /\ \A k \in 1 .. Len(g) : (g \o fs)[k] = g[k]
         /\ \A k \in 1 .. Len(fs) : (g \o fs)[Len(g) + k] = fs[k]
         /\ \A k \in 1 .. Len(g) : Showing(g \o fs)[k] = Showing(g)[k]
         /\ \A k \in 1 .. Len(fs) :
              Showing(g \o fs)[Len(g) + k] = [n \in Int |-> Shown(Showing(g \o fs), fs[k], n)]
<1> DEFINE h == g \o fs
<1>1. Listed(h) /\ Len(h) = Len(g) + Len(fs)
  BY JoinedLists DEF IsJoin
<1>2. \A k \in 1 .. Len(g) : h[k] = g[k]
  BY JoinedLists DEF IsJoin
<1>3. \A k \in 1 .. Len(fs) : h[Len(g) + k] = fs[k]
  BY JoinedLists DEF IsJoin
<1>4. Len(g) \in Nat /\ Len(fs) \in Nat
  BY DEF Listed
<1> HIDE DEF h
<1>5. ASSUME NEW k \in 1 .. Len(h) PROVE AsksEarlier(h, k)
  <2>1. CASE k <= Len(g)
    <3>1. k \in 1 .. Len(g)
      BY <1>1, <1>4, <2>1
    <3>2. h[k] = g[k]
      BY <1>2, <3>1
    <3>3. AsksEarlier(g, k)
      BY <3>1 DEF Acyclic
    <3> QED
      BY <3>2, <3>3 DEF AsksEarlier
  <2>2. CASE k > Len(g)
    <3> DEFINE i == k - Len(g)
    <3>1. i \in 1 .. Len(fs) /\ Len(g) + i = k
      BY <1>1, <1>4, <2>2
    <3>2. h[Len(g) + i] = fs[i] /\ Fits(fs[i], Len(g) + i)
      BY <1>3, <3>1 DEF AllFit
    <3>3. h[k] = fs[i] /\ Fits(fs[i], k)
      BY <3>1, <3>2
    <3> HIDE DEF i
    <3> QED
      BY <3>3 DEF AsksEarlier, Fits
  <2> QED
    BY <1>1, <1>4, <2>1, <2>2
<1>6. Acyclic(h)
  BY <1>1, <1>5 DEF Acyclic, Listed
<1>7. IsShowing(Showing(g), g) /\ IsShowing(Showing(h), h)
  BY <1>6, ShowingExists
<1>8. \A k \in 1 .. Len(g) : Showing(h)[k] = Showing(g)[k]
  BY <1>1, <1>2, <1>4, <1>6, <1>7, EarlierShowSame
<1>9. ASSUME NEW k \in 1 .. Len(fs)
      PROVE  Showing(h)[Len(g) + k] = [n \in Int |-> Shown(Showing(h), fs[k], n)]
  <2>1. Len(g) + k \in 1 .. Len(h)
    BY <1>1, <1>4
  <2>2. Showing(h)[Len(g) + k] = [n \in Int |-> Shown(Showing(h), h[Len(g) + k], n)]
    <3> DEFINE G == Showing(h)
    <3>1. G = [i \in 1 .. Len(h) |-> [n \in Int |-> Shown(G, h[i], n)]]
      BY <1>7 DEF IsShowing
    <3> HIDE DEF G
    <3>2. G[Len(g) + k] = [n \in Int |-> Shown(G, h[Len(g) + k], n)]
      BY <2>1, <3>1
    <3> QED
      BY <3>2 DEF G
  <2> QED
    BY <1>3, <2>2
<1> QED
  BY <1>1, <1>2, <1>3, <1>6, <1>8, <1>9 DEF h

-----------------------------------------------------------------------------
(* The clip that filter k yields, of VideoInfo v, is the one meant by m,   *)
(* as far as its frames go.                                                *)
Right(G, k, v, m) ==
  /\ m = Clip(m.video, m.frames, m.sound, m.loose, m.capped)
  /\ m.video = v.video
  /\ v.video \in BOOLEAN /\ v.frames \in Int /\ v.samples \in Int
  /\ v.video /\ "frames" \notin m.loose =>
       /\ Listed(m.frames) /\ v.frames = Len(m.frames)
       /\ \A n \in 1 .. Len(m.frames) : G[k][n - 1] = m.frames[n]

ShowsInv ==
  /\ rate \in Rates
  /\ Listed(graph) /\ Top >= 2 /\ Acyclic(graph)
  /\ \E src \in Sources : graph[1] = Source("B", src)
  /\ Right(GetFrame, Top, vi, meant)

(* Filters that show what there was, and filter f above them. *)
Extends(G, f) ==
  /\ \A k \in 1 .. Top : G[k] = GetFrame[k]
  /\ G[Top + 1] = [n \in Int |-> Shown(G, f, n)]

(* Times and frame numbers are whole numbers. *)
LEMMA SpanIsInt ==
  ASSUME rate \in Rates, NEW n \in Int
  PROVE  Span(n) \in Int /\ Frames(n) \in Int
<1>1. rate.num \in Nat /\ rate.den \in Nat /\ rate.num > 0 /\ rate.den > 0
  BY EditingAssumption
<1>2. n * rate.num \in Int /\ n * rate.den \in Int
  BY <1>1
<1>3. ASSUME NEW a \in Int, NEW b \in Nat, b > 0 PROVE Quotient(a, b) \in Int
  BY <1>3 DEF Quotient
<1> QED
  BY <1>1, <1>2, <1>3 DEF Span, Frames

(* A constructor appends its filters, which then show what they find, and  *)
(* leaves the rest alone.                                                  *)
LEMMA MadeShows ==
  ASSUME ShowsInv, NEW fs, NEW means, Made(fs, means), Listed(fs),
         AllFit(graph, fs)
  PROVE  /\ rate' \in Rates /\ meant' = means
         /\ Listed(graph') /\ Top' = Top + Len(fs) /\ Acyclic(graph')
         /\ \E src \in Sources : graph'[1] = Source("B", src)
         /\ \A k \in 1 .. Top : GetFrame'[k] = GetFrame[k]
         /\ \A k \in 1 .. Len(fs) :
              GetFrame'[Top + k] = [n \in Int |-> Shown(GetFrame', fs[k], n)]
         /\ Len(fs) > 0 => vi' = fs[Len(fs)].vi
         /\ Len(fs) = 0 => vi' = vi
<1>1. graph' = graph \o fs /\ meant' = means /\ rate' = rate
  BY DEF Made
<1>2. Listed(graph) /\ Acyclic(graph) /\ Top >= 2 /\ Top = Len(graph)
  BY DEF ShowsInv, Top
<1>4. /\ Listed(graph') /\ Acyclic(graph') /\ Len(graph') = Top + Len(fs)
      /\ \A k \in 1 .. Top : graph'[k] = graph[k]
      /\ \A k \in 1 .. Len(fs) : graph'[Top + k] = fs[k]
      /\ \A k \in 1 .. Top : Showing(graph')[k] = Showing(graph)[k]
      /\ \A k \in 1 .. Len(fs) :
           Showing(graph')[Top + k] = [n \in Int |-> Shown(Showing(graph'), fs[k], n)]
  <2> DEFINE g == graph
             h == g \o fs
  <2>1. /\ Listed(h) /\ Acyclic(h) /\ Len(h) = Len(g) + Len(fs)
        /\ \A k \in 1 .. Len(g) : h[k] = g[k]
        /\ \A k \in 1 .. Len(fs) : h[Len(g) + k] = fs[k]
        /\ \A k \in 1 .. Len(g) : Showing(h)[k] = Showing(g)[k]
        /\ \A k \in 1 .. Len(fs) :
             Showing(h)[Len(g) + k] = [n \in Int |-> Shown(Showing(h), fs[k], n)]
    BY <1>2, AppendedGraph
  <2>2. h = graph' /\ g = graph /\ Len(g) = Top
    BY <1>1, <1>2
  <2> HIDE DEF g, h
  <2> QED
    BY <2>1, <2>2
<1>5. Top \in Nat /\ Len(fs) \in Nat
  BY <1>2 DEF Listed
<1>6. \E src \in Sources : graph'[1] = Source("B", src)
  BY <1>2, <1>4, <1>5 DEF ShowsInv
<1>7. Top' = Top + Len(fs)
  BY <1>4 DEF Top
<1>8. GetFrame = Showing(graph) /\ GetFrame' = Showing(graph')
  BY GetFrameShows, GetFrameShowsNext
<1>9. \A k \in 1 .. Top : GetFrame'[k] = GetFrame[k]
  BY <1>4, <1>8
<1>10. \A k \in 1 .. Len(fs) :
         GetFrame'[Top + k] = [n \in Int |-> Shown(GetFrame', fs[k], n)]
  <2>1. PICK G : G = GetFrame'
    OBVIOUS
  <2>2. \A k \in 1 .. Len(fs) : G[Top + k] = [n \in Int |-> Shown(G, fs[k], n)]
    BY <1>4, <1>8, <2>1
  <2> QED
    BY <2>1, <2>2
<1>11. vi' = graph'[Top'].vi /\ vi = graph[Top].vi
  BY DEF vi, Last, Top
<1>12. Len(fs) > 0 => vi' = fs[Len(fs)].vi
  BY <1>4, <1>5, <1>7, <1>11
<1>13. Len(fs) = 0 => vi' = vi
  BY <1>2, <1>4, <1>5, <1>7, <1>11
<1> QED
  BY <1>1, <1>4, <1>6, <1>7, <1>9, <1>10, <1>12, <1>13 DEF ShowsInv

(* For the usual constructor, of one filter: it is enough that the filter  *)
(* shows what is meant.                                                    *)
LEMMA MadeOne ==
  ASSUME ShowsInv, NEW f, NEW means, Made(<<f>>, means), Fits(f, Top + 1),
         \A G : Extends(G, f) => Right(G, Top + 1, f.vi, means)
  PROVE  ShowsInv'
<1> DEFINE fs == <<f>>
<1>1. Listed(fs) /\ Len(fs) = 1 /\ fs[1] = f
  BY OneLonger
<1>2. Made(fs, means)
  OBVIOUS
<1> HIDE DEF fs
<1>3. AllFit(graph, fs)
  BY <1>1 DEF AllFit, Top
<1>4. /\ rate' \in Rates /\ meant' = means
      /\ Listed(graph') /\ Top' = Top + 1 /\ Acyclic(graph')
      /\ \E src \in Sources : graph'[1] = Source("B", src)
      /\ \A k \in 1 .. Top : GetFrame'[k] = GetFrame[k]
      /\ GetFrame'[Top + 1] = [n \in Int |-> Shown(GetFrame', f, n)]
      /\ vi' = f.vi
  BY <1>1, <1>2, <1>3, MadeShows
<1>5. Extends(GetFrame', f)
  BY <1>4 DEF Extends
<1>6. Right(GetFrame', Top + 1, f.vi, means)
  BY <1>5
<1>7. Top >= 2 /\ Top \in Nat
  BY DEF ShowsInv, Listed, Top
<1>8. Top' >= 2
  BY <1>4, <1>7
<1>9. Right(GetFrame', Top', vi', meant')
  BY <1>4, <1>6
<1>10. Right(GetFrame, Top, vi, meant)'
  BY <1>9 DEF Right
<1> QED
  BY <1>4, <1>8, <1>10 DEF ShowsInv, Listed, Acyclic, AsksEarlier, Source, Info

-----------------------------------------------------------------------------
(* What the invariant says of the clip so far. *)
LEMMA Known ==
  ASSUME ShowsInv
  PROVE  /\ Top \in Nat /\ Top >= 2 /\ rate \in Rates
         /\ Right(GetFrame, Top, vi, meant)
         /\ vi.video \in BOOLEAN /\ vi.frames \in Int /\ vi.samples \in Int
BY DEF ShowsInv, Right, Listed, Top

(* A clip in the graph stays what it is when a filter is appended. *)
LEMMA StillRight ==
  ASSUME NEW G, NEW f, Extends(G, f), NEW k \in 1 .. Top, NEW v, NEW m, Right(GetFrame, k, v, m)
  PROVE  Right(G, k, v, m)
BY DEF Extends, Right

(* What is expected of a clip, edited. *)
IsClip(m) == m = Clip(m.video, m.frames, m.sound, m.loose, m.capped)

(* A clip of which less is expected. *)
LEMMA Loosened ==
  ASSUME NEW m, IsClip(m), NEW b
  PROVE  [m EXCEPT !.loose = b] = Clip(m.video, m.frames, m.sound, b, m.capped)
<1>1. PICK v, f, s, l, c : m = [video |-> v, frames |-> f, sound |-> s, loose |-> l, capped |-> c]
  BY DEF Clip, IsClip
<1>2. m.video = v /\ m.frames = f /\ m.sound = s /\ m.loose = l /\ m.capped = c
  BY <1>1
<1>3. [m EXCEPT !.loose = b] = [video |-> v, frames |-> f, sound |-> s, loose |-> b, capped |-> c]
  BY <1>1
<1> QED
  BY <1>2, <1>3 DEF Clip

(* The parts of a clip. *)
LEMMA ClipIs ==
  ASSUME NEW v, NEW a, NEW s, NEW l, NEW c, NEW m, m = Clip(v, a, s, l, c)
  PROVE  /\ m.video = v /\ m.frames = a /\ m.loose = l
         /\ IsClip(m)
BY DEF Clip, IsClip

(* Trim shows the frames kept. *)
LEMMA KeptRight ==
  ASSUME NEW G, NEW k, NEW v, NEW m, Right(G, k, v, m), v.video,
         NEW w, w.video = TRUE, w.frames \in Int, w.samples \in Int,
         NEW i \in Nat, NEW j \in Int, NEW rest, NEW pad, NEW r,
         "frames" \notin m.loose /\ i < j => j <= v.frames /\ w.frames = j - i,
         NEW K, i < j => \A n \in Int : G[K][n] = G[k][n + i]
  PROVE  Right(G, K, w, Kept(m, r, i, j, rest, pad))
<1> DEFINE u == Kept(m, r, i, j, rest, pad)
<1>1. CASE i < j
  <2>1. PICK s, l : /\ u = Clip(TRUE, Cut(m.frames, i, j), s, l, FALSE)
                    /\ m.loose \subseteq l
    BY <1>1 DEF Kept
  <2> HIDE DEF u
  <2>2. /\ u.video = TRUE /\ u.frames = Cut(m.frames, i, j) /\ u.loose = l
        /\ IsClip(u)
    BY <2>1 DEF Clip, IsClip
  <2>3. ASSUME "frames" \notin l
        PROVE  /\ Listed(u.frames) /\ w.frames = Len(u.frames)
               /\ \A n \in 1 .. Len(u.frames) : G[K][n - 1] = u.frames[n]
    <3>1. "frames" \notin m.loose
      BY <2>1, <2>3
    <3>2. /\ Listed(m.frames) /\ v.frames = Len(m.frames)
          /\ \A n \in 1 .. Len(m.frames) : G[k][n - 1] = m.frames[n]
      BY <3>1 DEF Right
    <3>3. j <= Len(m.frames) /\ w.frames = j - i
      BY <1>1, <3>1, <3>2
    <3>4. /\ Listed(u.frames) /\ Len(u.frames) = j - i
          /\ \A n \in 1 .. j - i : u.frames[n] = m.frames[n + i]
      <4>1. i <= j
        BY <1>1
      <4>2. /\ Listed(Cut(m.frames, i, j)) /\ Len(Cut(m.frames, i, j)) = j - i
            /\ \A n \in 1 .. j - i : Cut(m.frames, i, j)[n] = m.frames[n + i]
        <5>1. PICK s1 : s1 = m.frames
          OBVIOUS
        <5>2. Listed(s1) /\ j <= Len(s1)
          BY <3>2, <3>3, <5>1
        <5>3. /\ Listed(Cut(s1, i, j)) /\ Len(Cut(s1, i, j)) = j - i
              /\ \A n \in 1 .. j - i : Cut(s1, i, j)[n] = s1[n + i]
          <6>1. IsCut(Cut(s1, i, j), s1, i, j)
            BY <4>1, <5>2, CutList
          <6> QED
            BY <6>1 DEF IsCut
        <5> QED
          BY <5>1, <5>3
      <4> QED
        BY <2>2, <4>2
    <3>5. ASSUME NEW n \in 1 .. j - i PROVE G[K][n - 1] = u.frames[n]
      <4>1. n + i \in 1 .. Len(m.frames)
        BY <3>2, <3>3 DEF Listed
      <4>2. G[k][(n + i) - 1] = m.frames[n + i]
        BY <3>2, <4>1
      <4>3. G[K][n - 1] = G[k][(n - 1) + i] /\ (n - 1) + i = (n + i) - 1
        BY <1>1
      <4> QED
        BY <3>4, <4>2, <4>3
    <3> QED
      BY <3>3, <3>4, <3>5
  <2>4. Right(G, K, w, u)
    BY <2>2, <2>3 DEF Right, IsClip
  <2> QED
    BY <2>4 DEF u
<1>2. CASE ~(i < j)
  <2>1. u = [m EXCEPT !.loose = Both]
    BY <1>2 DEF Kept
  <2>2. u = Clip(m.video, m.frames, m.sound, Both, m.capped)
    BY <2>1, Loosened DEF Right, IsClip
  <2> HIDE DEF u
  <2>3. /\ u.video = m.video /\ u.loose = Both
        /\ IsClip(u)
    BY <2>2, ClipIs
  <2>4. Right(G, K, w, u)
    BY <2>3 DEF Right, Both, IsClip
  <2> QED
    BY <2>4 DEF u
<1> QED
  BY <1>1, <1>2

(* Trim shows the frames from its first to its last. *)
LEMMA TrimShows ==
  ASSUME ShowsInv, NEW mode \in Modes, NEW from \in Int, NEW till \in Int, NEW pad,
         Trim(mode, from, till, pad)
  PROVE  ShowsInv'
<1> DEFINE i == Most(from, 0)
           rest == mode = "Default" /\ till = 0
           j == IF mode = "Length" \/ till < 0 THEN Least(Most(from, 0) + Most(till, -till), vi.frames)
                ELSE IF rest THEN vi.frames ELSE Least(till + 1, vi.frames)
           first  == Clamp(from, 0, vi.frames - 1)
           last   == CASE mode = "Default" ->
                       Clamp(IF till = 0 THEN vi.frames - 1
                             ELSE IF till < 0 THEN first - till - 1 ELSE till,
                             first, vi.frames - 1)
                       [] mode = "Length" -> Least(first + till - 1, vi.frames - 1)
                       [] OTHER           -> Least(till, vi.frames - 1)
           offset == Span(first)
           end    == IF pad THEN Span(last + 1)
                     ELSE IF rest THEN vi.samples ELSE Least(Span(last + 1), vi.samples)
           f == [kind |-> "Trim", of |-> Top,
                 vi |-> Info(TRUE, last + 1 - first, IF pad THEN end - offset ELSE Most(end - offset, 0)),
                 cached |-> FALSE, first |-> first, offset |-> offset]
           means == Kept(meant, rate, i, j, rest, pad)
<1>1. /\ vi.video
      /\ mode = "Length" => till >= 0
      /\ mode = "End" => till >= first
      /\ Made(<<f>>, means)
  BY DEF Trim
<1>2. vi.frames \in Int /\ vi.samples \in Int /\ Top \in Nat /\ rate \in Rates /\ Top >= 2
  BY Known
<1>3. i \in Nat /\ first \in Nat
  BY <1>2 DEF Most, Clamp
<1>4. last \in Int
  BY <1>2, <1>3 DEF Clamp, Least, Modes
<1>5. j \in Int
  BY <1>2, <1>3 DEF Least, Most, Modes
<1>6. offset \in Int /\ end \in Int
  <2>1. offset \in Int
    BY <1>2, <1>3, SpanIsInt
  <2>2. last + 1 \in Int
    BY <1>4
  <2>3. Span(last + 1) \in Int
    <3> HIDE DEF last
    <3> QED
      BY <1>2, <2>2, SpanIsInt
  <2> HIDE DEF last, offset
  <2> QED
    BY <1>2, <2>1, <2>3 DEF Least
<1>7. i < j => j <= vi.frames /\ first = i /\ last + 1 - first = j - i
  <2>1. i < j => j <= vi.frames /\ first = i
    BY <1>2, <1>3 DEF Most, Least, Clamp
  <2>2. CASE mode = "Default"
    BY <1>1, <1>2, <1>3, <2>1, <2>2 DEF Most, Least, Clamp
  <2>3. CASE mode = "Length"
    BY <1>1, <1>2, <1>3, <2>1, <2>3 DEF Most, Least, Clamp
  <2>4. CASE mode = "End"
    BY <1>1, <1>2, <1>3, <2>1, <2>4 DEF Most, Least, Clamp
  <2> QED
    BY <2>2, <2>3, <2>4 DEF Modes
<1> HIDE DEF last, offset, end, first, i, j, rest, means
<1>8. ASSUME NEW G, Extends(G, f) PROVE Right(G, Top + 1, f.vi, means)
  <2>1. Right(G, Top, vi, meant)
    BY <1>2, <1>8, Known, StillRight
  <2>2. \A n \in Int : G[Top + 1][n] = G[Top][n + first]
    <3>1. ASSUME NEW n \in Int PROVE Shown(G, f, n) = G[Top][n + first]
      BY DEF Shown, OfTrim
    <3> QED
      BY <1>8, <3>1 DEF Extends
  <2>3. /\ f.vi.video = TRUE /\ f.vi.frames = last + 1 - first
        /\ f.vi.frames \in Int /\ f.vi.samples \in Int
    BY <1>3, <1>4, <1>6 DEF Info, Most
  <2>4. i < j => \A n \in Int : G[Top + 1][n] = G[Top][n + i]
    BY <1>7, <2>2
  <2> HIDE DEF f
  <2>5. "frames" \notin meant.loose /\ i < j => j <= vi.frames /\ f.vi.frames = j - i
    BY <1>7, <2>3
  <2> QED
    BY <1>1, <1>3, <1>5, <2>1, <2>3, <2>4, <2>5, KeptRight DEF means
<1>9. Fits(f, Top + 1)
  BY <1>2 DEF Fits, Kinds, Joins
<1> HIDE DEF f
<1> QED
  BY <1>1, <1>8, <1>9, MadeOne

-----------------------------------------------------------------------------
(* FreezeFrame shows the one frame in the place of the others. *)
LEMMA FreezeFrameShows ==
  ASSUME ShowsInv, NEW from \in Int, NEW till \in Int, NEW n \in Int, FreezeFrame(from, till, n)
  PROVE  ShowsInv'
<1> DEFINE f == [kind |-> "FreezeFrame", of |-> Top, vi |-> vi, cached |-> FALSE,
                 first |-> from, last |-> till, source |-> n]
           means == Frozen(meant, from, till, n)
<1>1. Made(<<f>>, means)
  BY DEF FreezeFrame
<1>2. vi.frames \in Int /\ vi.samples \in Int /\ Top \in Nat /\ Top >= 2 /\ Right(GetFrame, Top, vi, meant)
  BY Known
<1>3. Fits(f, Top + 1)
  BY <1>2 DEF Fits, Kinds, Joins
<1>4. PICK frames, loose :
        /\ means = Clip(meant.video, frames, meant.sound, loose, FALSE)
        /\ frames = [k \in DOMAIN meant.frames |->
                       IF k - 1 \in from .. till /\ n + 1 \in DOMAIN meant.frames
                       THEN meant.frames[n + 1] ELSE meant.frames[k]]
        /\ loose = meant.loose \cup Loose(n + 1 \notin DOMAIN meant.frames, {"frames"})
  BY DEF Frozen
<1>5. /\ means.video = meant.video /\ means.frames = frames /\ means.loose = loose
      /\ IsClip(means)
  BY <1>4 DEF Clip, IsClip
<1> HIDE DEF means
<1>6. ASSUME NEW G, Extends(G, f) PROVE Right(G, Top + 1, f.vi, means)
  <2>1. Right(G, Top, vi, meant)
    BY <1>2, <1>6, StillRight
  <2>2. \A i \in Int : G[Top + 1][i] = G[Top][IF i \in from .. till THEN n ELSE i]
    <3>1. ASSUME NEW i \in Int PROVE Shown(G, f, i) = G[Top][IF i \in from .. till THEN n ELSE i]
      BY DEF Shown, OfFreezeFrame
    <3> QED
      BY <1>6, <3>1 DEF Extends
  <2>3. f.vi = vi
    OBVIOUS
  <2> HIDE DEF f
  <2>4. ASSUME vi.video, "frames" \notin loose
        PROVE  /\ Listed(frames) /\ vi.frames = Len(frames)
               /\ \A i \in 1 .. Len(frames) : G[Top + 1][i - 1] = frames[i]
    <3>1. "frames" \notin meant.loose /\ n + 1 \in DOMAIN meant.frames
      BY <1>4, <2>4 DEF Loose
    <3>2. /\ Listed(meant.frames) /\ vi.frames = Len(meant.frames)
          /\ \A i \in 1 .. Len(meant.frames) : G[Top][i - 1] = meant.frames[i]
      BY <2>1, <2>4, <3>1 DEF Right
    <3>3. Listed(frames) /\ Len(frames) = Len(meant.frames)
      <4>1. DOMAIN frames = 1 .. Len(meant.frames) /\ Len(meant.frames) \in Nat
        BY <1>4, <3>2 DEF Listed
      <4> QED
        BY <4>1, LengthOf
    <3>4. ASSUME NEW i \in 1 .. Len(meant.frames) PROVE G[Top + 1][i - 1] = frames[i]
      <4>1. i \in DOMAIN meant.frames /\ n + 1 \in 1 .. Len(meant.frames)
        BY <3>1, <3>2 DEF Listed
      <4>2. CASE i - 1 \in from .. till
        <5>1. frames[i] = meant.frames[n + 1]
          BY <1>4, <3>1, <4>1, <4>2
        <5>2. G[Top + 1][i - 1] = G[Top][n]
          BY <2>2, <4>2
        <5>3. G[Top][(n + 1) - 1] = meant.frames[n + 1] /\ (n + 1) - 1 = n
          BY <3>2, <4>1
        <5> QED
          BY <5>1, <5>2, <5>3
      <4>3. CASE i - 1 \notin from .. till
        <5>1. frames[i] = meant.frames[i]
          BY <1>4, <4>1, <4>3
        <5>2. G[Top + 1][i - 1] = G[Top][i - 1]
          BY <2>2, <4>3
        <5> QED
          BY <3>2, <5>1, <5>2
      <4> QED
        BY <4>2, <4>3
    <3> QED
      BY <3>2, <3>3, <3>4
  <2> QED
    BY <1>5, <2>1, <2>3, <2>4 DEF Right, IsClip
<1> HIDE DEF f
<1> QED
  BY <1>1, <1>3, <1>6, MadeOne

(* Reverse shows them backwards. *)
LEMMA ReverseShows ==
  ASSUME ShowsInv, ReverseClip
  PROVE  ShowsInv'
<1> DEFINE f == [kind |-> "Reverse", of |-> Top, vi |-> vi, cached |-> FALSE]
           means == Backwards(meant)
<1>1. Made(<<f>>, means)
  BY DEF ReverseClip
<1>2. vi.frames \in Int /\ vi.samples \in Int /\ Top \in Nat /\ Top >= 2 /\ Right(GetFrame, Top, vi, meant)
  BY Known
<1>3. Fits(f, Top + 1)
  BY <1>2 DEF Fits, Kinds, Joins
<1>4. PICK sound :
        means = Clip(meant.video, Reverse(meant.frames), sound, meant.loose, FALSE)
  BY DEF Backwards
<1> DEFINE frames == Reverse(meant.frames)
<1>5. /\ means.video = meant.video /\ means.frames = frames /\ means.loose = meant.loose
      /\ IsClip(means)
  BY <1>4 DEF Clip, IsClip
<1> HIDE DEF means
<1>6. ASSUME NEW G, Extends(G, f) PROVE Right(G, Top + 1, f.vi, means)
  <2>1. Right(G, Top, vi, meant)
    BY <1>2, <1>6, StillRight
  <2>2. \A i \in Int : G[Top + 1][i] = G[Top][vi.frames - i - 1]
    <3>1. ASSUME NEW i \in Int PROVE Shown(G, f, i) = G[Top][vi.frames - i - 1]
      BY DEF Shown, OfReverse
    <3> QED
      BY <1>6, <3>1 DEF Extends
  <2>3. f.vi = vi
    OBVIOUS
  <2> HIDE DEF f
  <2>4. ASSUME vi.video, "frames" \notin meant.loose
        PROVE  /\ Listed(frames) /\ vi.frames = Len(frames)
               /\ \A i \in 1 .. Len(frames) : G[Top + 1][i - 1] = frames[i]
    <3> DEFINE c == Len(meant.frames)
    <3>2. /\ Listed(meant.frames) /\ vi.frames = c
          /\ \A i \in 1 .. c : G[Top][i - 1] = meant.frames[i]
      BY <2>1, <2>4 DEF Right
    <3>3. c \in Nat
      BY <3>2 DEF Listed
    <3>4. frames = [i \in 1 .. c |-> meant.frames[(c - i) + 1]]
      BY DEF Reverse
    <3> HIDE DEF frames, c
    <3>5. Listed(frames) /\ Len(frames) = c
      <4>1. DOMAIN frames = 1 .. c
        BY <3>4
      <4> QED
        BY <3>3, <4>1, LengthOf
    <3>6. ASSUME NEW i \in 1 .. c PROVE G[Top + 1][i - 1] = frames[i]
      <4>1. (c - i) + 1 \in 1 .. c /\ ((c - i) + 1) - 1 = vi.frames - (i - 1) - 1
        BY <3>2, <3>3
      <4>2. G[Top][vi.frames - (i - 1) - 1] = meant.frames[(c - i) + 1]
        BY <3>2, <4>1
      <4> QED
        BY <2>2, <3>4, <4>2
    <3> QED
      BY <3>2, <3>5, <3>6
  <2> QED
    BY <1>5, <2>1, <2>3, <2>4 DEF Right, IsClip
<1> HIDE DEF f
<1> QED
  BY <1>1, <1>3, <1>6, MadeOne

-----------------------------------------------------------------------------
(* A source clip shows its frames, and its Cache the first or the last of  *)
(* them beyond its ends.                                                   *)
ShowsSource(G, K, clip, src) == G[K] = [n \in Int |-> Shown(G, Source(clip, src), n)]

InfoOf(v, src) ==
  /\ v.video \in BOOLEAN /\ v.frames = src[1] /\ v.samples = src[2]
  /\ v.video = (src[1] > 0)

(* A source's frames are the ones its name says. *)
LEMMA SourceRight ==
  ASSUME NEW G, NEW K, NEW clip, NEW src, src[1] \in Int, src[2] \in Int,
         ShowsSource(G, K, clip, src),
         NEW v, InfoOf(v, src)
  PROVE  Right(G, K, v, SourceClip(clip, src[1], src[2]))
<1> DEFINE c == src[1]
           m == SourceClip(clip, c, src[2])
           f == Source(clip, src)
<1>1. /\ m.video = (c > 0) /\ m.frames = [n \in 1 .. c |-> <<clip, n - 1>>]
      /\ m.loose = {} /\ IsClip(m)
  BY DEF SourceClip, Clip, IsClip
<1>2. \A n \in Int : Shown(G, f, n) = <<clip, Clamp(n, 0, c - 1)>>
  BY DEF Shown, Source, Info
<1>3. ASSUME c > 0
      PROVE  /\ Listed(m.frames) /\ v.frames = Len(m.frames)
             /\ \A n \in 1 .. Len(m.frames) : G[K][n - 1] = m.frames[n]
  <2>1. c \in Nat /\ DOMAIN m.frames = 1 .. c
    BY <1>1, <1>3
  <2>2. Listed(m.frames) /\ Len(m.frames) = c
    <3>1. PICK s : s = m.frames
      OBVIOUS
    <3> QED
      BY <2>1, <3>1, LengthOf
  <2>3. ASSUME NEW n \in 1 .. c PROVE G[K][n - 1] = m.frames[n]
    <3>1. n - 1 \in Int /\ Clamp(n - 1, 0, c - 1) = n - 1
      BY DEF Clamp
    <3>2. G[K][n - 1] = <<clip, n - 1>>
      <4> HIDE DEF f
      <4> QED
        BY <1>2, <3>1 DEF f, ShowsSource
    <3> QED
      BY <1>1, <3>2
  <2> QED
    BY <2>2, <2>3 DEF InfoOf
<1> HIDE DEF m
<1>4. Right(G, K, v, m)
  BY <1>1, <1>3 DEF Right, IsClip, InfoOf
<1> QED
  BY <1>4 DEF m

(* The clips a filter of two is given. *)
IsOperand(c) == c.at \in 1 .. Top /\ Right(GetFrame, c.at, c.vi, c.means)

(* Both clips that a join may take show what is expected of them. *)
LEMMA OperandsAre ==
  ASSUME ShowsInv, NEW p \in Operands
  PROVE  IsOperand(p[1]) /\ IsOperand(p[2])
<1> DEFINE current == [at |-> Top, vi |-> vi, means |-> meant]
           other   == [at |-> 1, vi |-> graph[1].vi, means |-> Second]
<1>1. Top \in Nat /\ Top >= 2 /\ Right(GetFrame, Top, vi, meant)
  BY Known
<1>2. IsOperand(current)
  BY <1>1 DEF IsOperand
<1>3. PICK src \in Sources : graph[1] = Source("B", src)
  BY DEF ShowsInv
<1>4. src[1] \in Nat /\ src[2] \in Nat
  BY EditingAssumption
<1>5. graph[1].vi = Info(src[1] > 0, src[1], src[2])
  BY <1>3 DEF Source
<1>6. ShowsSource(GetFrame, 1, "B", src)
  <2>1. PICK G : G = GetFrame
    OBVIOUS
  <2>2. IsShowing(G, graph) /\ Top = Len(graph)
    BY <2>1, GetFrameShows, ShowingExists DEF ShowsInv, Top
  <2>3. G[1] = [n \in Int |-> Shown(G, graph[1], n)]
    BY <1>1, <2>2 DEF IsShowing
  <2> QED
    BY <1>3, <2>1, <2>3 DEF ShowsSource
<1>7. Second = SourceClip("B", src[1], src[2])
  BY <1>5 DEF Second, Info
<1>8. Right(GetFrame, 1, graph[1].vi, Second)
  <2>1. PICK v : v = graph[1].vi
    OBVIOUS
  <2>2. InfoOf(v, src)
    BY <1>5, <2>1 DEF Info, InfoOf
  <2>3. src[1] \in Int /\ src[2] \in Int
    BY <1>4
  <2>4. Right(GetFrame, 1, v, SourceClip("B", src[1], src[2]))
    BY <1>6, <2>2, <2>3, SourceRight
  <2> QED
    BY <1>7, <2>1, <2>4
<1>9. IsOperand(other)
  BY <1>1, <1>8 DEF IsOperand
<1>10. p = <<current, other>> \/ p = <<other, current>>
  BY DEF Operands
<1> HIDE DEF current, other
<1> QED
  BY <1>2, <1>9, <1>10

(* AudioDub shows the one clip that it takes for the picture. *)
LEMMA AudioDubShows ==
  ASSUME ShowsInv, NEW p \in Operands, NEW ex, AudioDub(p[1], p[2], ex)
  PROVE  ShowsInv'
<1> DEFINE picture == IF ex \/ p[1].vi.video THEN p[1] ELSE p[2]
           sound == IF picture = p[1] THEN p[2] ELSE p[1]
           f == [kind |-> "AudioDub", of |-> picture.at, with |-> sound.at,
                 vi |-> Info(picture.vi.video, picture.vi.frames, sound.vi.samples),
                 cached |-> FALSE]
           means == Dubbed(picture.means, sound.means)
<1>1. Made(<<f>>, means)
  BY DEF AudioDub
<1>2. IsOperand(picture) /\ IsOperand(sound) /\ Top \in Nat
  BY OperandsAre, Known
<1> HIDE DEF picture, sound
<1>3. Fits(f, Top + 1)
  BY <1>2 DEF Fits, Kinds, Joins, IsOperand
<1>5. /\ means.video = picture.means.video /\ means.frames = picture.means.frames
      /\ means.loose = picture.means.loose \cup sound.means.loose /\ IsClip(means)
  BY DEF Dubbed, Clip, IsClip
<1> HIDE DEF means
<1>6. ASSUME NEW G, Extends(G, f) PROVE Right(G, Top + 1, f.vi, means)
  <2>1. Right(G, picture.at, picture.vi, picture.means) /\ sound.vi.samples \in Int
    <3>1. PICK k, v, m : k = picture.at /\ v = picture.vi /\ m = picture.means
      OBVIOUS
    <3>2. k \in 1 .. Top /\ Right(GetFrame, k, v, m)
      BY <1>2, <3>1 DEF IsOperand
    <3>3. Right(G, k, v, m)
      BY <1>6, <3>2, StillRight
    <3> QED
      BY <1>2, <3>1, <3>3 DEF IsOperand, Right
  <2>2. \A i \in Int : G[Top + 1][i] = G[picture.at][i]
    <3>1. ASSUME NEW i \in Int PROVE Shown(G, f, i) = G[picture.at][i]
      BY DEF Shown
    <3> QED
      BY <1>6, <3>1 DEF Extends
  <2>3. f.vi.video = picture.vi.video /\ f.vi.frames = picture.vi.frames /\ f.vi.samples = sound.vi.samples
    BY DEF Info
  <2> HIDE DEF f
  <2>4. ASSUME picture.vi.video, "frames" \notin means.loose
        PROVE  /\ Listed(means.frames) /\ f.vi.frames = Len(means.frames)
               /\ \A n \in 1 .. Len(means.frames) : G[Top + 1][n - 1] = means.frames[n]
    <3>1. "frames" \notin picture.means.loose
      BY <1>5, <2>4
    <3> QED
      BY <1>5, <2>1, <2>2, <2>3, <2>4, <3>1 DEF Right, Listed
  <2> QED
    BY <1>5, <2>1, <2>3, <2>4 DEF Right, IsClip
<1> HIDE DEF f
<1> QED
  BY <1>1, <1>3, <1>6, MadeOne

(* Splice shows the frames of the one, then those of the other. *)
LEMMA SpliceShows ==
  ASSUME ShowsInv, NEW p \in Operands, NEW realign, Splice(p[1], p[2], realign)
  PROVE  ShowsInv'
<1>0. PICK a, b : a = p[1] /\ b = p[2]
  OBVIOUS
<1>1. Splice(a, b, realign) /\ IsOperand(a) /\ IsOperand(b)
  BY <1>0, OperandsAre
<1> DEFINE switchover == a.vi.frames
           sound == IF realign /\ switchover # 0
                    THEN IF a.vi.video THEN Span(switchover) ELSE 0
                    ELSE a.vi.samples
           f == [kind |-> "Splice", of |-> a.at, with |-> b.at,
                 vi |-> Info(a.vi.video, switchover + b.vi.frames, sound + b.vi.samples),
                 cached |-> FALSE, switchover |-> switchover, sound |-> sound]
           means == Joined(a.means, b.means, rate, realign)
<1>2. Made(<<f>>, means) /\ a.vi.video = b.vi.video
  BY <1>1 DEF Splice
<1>3. Top \in Nat /\ rate \in Rates
  BY Known
<1>4. Fits(f, Top + 1)
  BY <1>1, <1>3 DEF Fits, Kinds, Joins, IsOperand
<1>5. /\ means.video = a.means.video /\ means.frames = a.means.frames \o b.means.frames
      /\ a.means.loose \cup b.means.loose \subseteq means.loose /\ IsClip(means)
  BY DEF Joined, Clip, IsClip
<1>6. /\ a.vi.video \in BOOLEAN /\ a.vi.frames \in Int /\ b.vi.frames \in Int
      /\ a.vi.samples \in Int /\ b.vi.samples \in Int
  BY <1>1 DEF IsOperand, Right
<1>7. sound \in Int
  BY <1>3, <1>6, SpanIsInt
<1> HIDE DEF means, sound
<1>8. ASSUME NEW G, Extends(G, f) PROVE Right(G, Top + 1, f.vi, means)
  <2>1. Right(G, a.at, a.vi, a.means) /\ Right(G, b.at, b.vi, b.means)
    BY <1>1, <1>8, ZenonT(30) DEF IsOperand, Right, Extends
  <2>2. \A i \in Int : G[Top + 1][i] = IF i < switchover THEN G[a.at][i] ELSE G[b.at][i - switchover]
    <3>1. ASSUME NEW i \in Int
          PROVE  Shown(G, f, i) = IF i < switchover THEN G[a.at][i] ELSE G[b.at][i - switchover]
      <4>1. /\ f.kind = "Splice" /\ f.of = a.at /\ f.with = b.at /\ f.switchover = switchover
            /\ f.cached = FALSE
        OBVIOUS
      <4> HIDE DEF f
      <4>2. CASE i < switchover
        <5>1. OfSplice(f, i) = [first |-> i, part |-> 0]
          BY <4>1, <4>2 DEF OfSplice
        <5> QED
          BY <4>1, <4>2, <5>1 DEF Shown
      <4>3. CASE ~(i < switchover)
        <5>1. OfSplice(f, i) = [second |-> i - switchover, part |-> 1, whole |-> 1]
          BY <4>1, <4>3 DEF OfSplice
        <5> QED
          BY <4>1, <4>3, <5>1 DEF Shown
      <4> QED
        BY <1>6, <4>2, <4>3
    <3>2. G[Top + 1] = [n \in Int |-> Shown(G, f, n)]
      BY <1>8 DEF Extends
    <3> HIDE DEF f, switchover
    <3> QED
      BY <3>1, <3>2
  <2>3. /\ f.vi.video = a.vi.video /\ f.vi.frames = switchover + b.vi.frames
        /\ f.vi.samples = sound + b.vi.samples
    BY DEF Info
  <2> HIDE DEF f
  <2>4. ASSUME a.vi.video, "frames" \notin means.loose
        PROVE  /\ Listed(means.frames) /\ f.vi.frames = Len(means.frames)
               /\ \A n \in 1 .. Len(means.frames) : G[Top + 1][n - 1] = means.frames[n]
    <3>1. "frames" \notin a.means.loose /\ "frames" \notin b.means.loose
      BY <1>5, <2>4
    <3>2. PICK s, t : s = a.means.frames /\ t = b.means.frames
      OBVIOUS
    <3>3. /\ Listed(s) /\ a.vi.frames = Len(s) /\ Listed(t) /\ b.vi.frames = Len(t)
          /\ \A n \in 1 .. Len(s) : G[a.at][n - 1] = s[n]
          /\ \A n \in 1 .. Len(t) : G[b.at][n - 1] = t[n]
      BY <1>2, <2>1, <2>4, <3>1, <3>2 DEF Right
    <3>4. /\ Listed(s \o t) /\ Len(s \o t) = Len(s) + Len(t)
          /\ \A k \in 1 .. Len(s) : (s \o t)[k] = s[k]
          /\ \A k \in 1 .. Len(t) : (s \o t)[Len(s) + k] = t[k]
      <4>1. IsJoin(s \o t, s, t)
        BY <3>3, JoinedLists
      <4> QED
        BY <4>1 DEF IsJoin
    <3>5. Len(s) \in Nat /\ Len(t) \in Nat
      BY <3>3 DEF Listed
    <3>6. ASSUME NEW n \in 1 .. Len(s) + Len(t) PROVE G[Top + 1][n - 1] = (s \o t)[n]
      <4>1. CASE n <= Len(s)
        BY <2>2, <3>3, <3>4, <3>5, <4>1
      <4>2. CASE n > Len(s)
        <5>1. G[Top + 1][n - 1] = G[b.at][(n - 1) - Len(s)]
          BY <2>2, <3>3, <3>5, <4>2
        <5>2. PICK k \in 1 .. Len(t) : k = n - Len(s)
          BY <3>5, <4>2
        <5>3. G[b.at][k - 1] = t[k] /\ (s \o t)[Len(s) + k] = t[k]
          BY <3>3, <3>4
        <5>4. k - 1 = (n - 1) - Len(s) /\ Len(s) + k = n
          BY <3>5, <5>2
        <5> QED
          BY <5>1, <5>3, <5>4
      <4> QED
        BY <3>5, <4>1, <4>2
    <3> QED
      BY <1>5, <2>3, <3>2, <3>3, <3>4, <3>6
  <2>5. /\ means.video = f.vi.video /\ f.vi.video \in BOOLEAN
        /\ f.vi.frames \in Int /\ f.vi.samples \in Int
    BY <1>5, <1>6, <1>7, <2>1, <2>3 DEF Right
  <2> QED
    BY <1>5, <2>3, <2>4, <2>5 DEF Right, IsClip
<1> HIDE DEF f
<1> QED
  BY <1>2, <1>4, <1>8, MadeOne

-----------------------------------------------------------------------------
ShowsFilter(G, K, f) == G[K] = [n \in Int |-> Shown(G, f, n)]

IsRight(G, c) == Right(G, c.at, c.vi, c.means)

Overlap(a, b, overlap, c, d) ==
  /\ a.vi.video = TRUE /\ a.vi.frames = c /\ b.vi.frames = d
  /\ overlap <= c /\ overlap <= d

MixesShown(G, K, a, b, overlap, c, d) ==
  \A n \in 1 .. c - overlap + d :
    G[K][n - 1] = IF n <= c - overlap THEN G[a.at][n - 1]
                  ELSE IF n > c THEN G[b.at][(n - c + overlap) - 1]
                  ELSE Mix(G[b.at][(n - c + overlap) - 1], G[a.at][n - 1],
                           n - c + overlap, overlap + 1)

(* Dissolve shows the frames of the one, mixes, and then the frames of the *)
(* other.                                                                  *)
LEMMA DissolveShown ==
  ASSUME NEW G, NEW K, NEW a, NEW b, NEW overlap \in Nat, NEW cached \in BOOLEAN,
         ShowsFilter(G, K, DissolveOf(a, b, overlap, cached)),
         NEW c \in Nat, NEW d \in Nat, Overlap(a, b, overlap, c, d)
  PROVE  MixesShown(G, K, a, b, overlap, c, d)
<1> SUFFICES ASSUME NEW n \in 1 .. c - overlap + d
             PROVE  G[K][n - 1] = IF n <= c - overlap THEN G[a.at][n - 1]
                                  ELSE IF n > c THEN G[b.at][(n - c + overlap) - 1]
                                  ELSE Mix(G[b.at][(n - c + overlap) - 1], G[a.at][n - 1],
                                           n - c + overlap, overlap + 1)
  BY DEF MixesShown
<1> DEFINE f == DissolveOf(a, b, overlap, cached)
           i == n - 1
<1>1. /\ f.kind = "Dissolve" /\ f.of = a.at /\ f.with = b.at /\ f.cached = cached
      /\ f.overlap = overlap /\ f.vstart = c - overlap /\ f.vend = c - 1
      /\ f.vi.frames = c - overlap + d
  BY DEF DissolveOf, Info, Most, Overlap
<1>2. G[K][i] = Shown(G, f, i)
  BY DEF ShowsFilter
<1> HIDE DEF f
<1> USE DEF Overlap
<1>3. i \in Int /\ Clamp(i, 0, f.vi.frames - 1) = i
  BY <1>1 DEF Clamp
<1>4. CASE n <= c - overlap
  <2>1. OfDissolve(f, i) = [first |-> i, part |-> 0]
    BY <1>1, <1>4 DEF OfDissolve
  <2>2. Shown(G, f, i) = G[a.at][i]
    BY <1>1, <1>3, <2>1 DEF Shown
  <2> QED
    BY <1>2, <1>4, <2>2
<1>5. CASE n > c
  <2>1. OfDissolve(f, i) = [second |-> (n - c + overlap) - 1, part |-> 1, whole |-> 1]
    BY <1>1, <1>5 DEF OfDissolve
  <2>2. Shown(G, f, i) = G[b.at][(n - c + overlap) - 1]
    BY <1>1, <1>3, <2>1 DEF Shown
  <2> QED
    BY <1>2, <1>5, <2>2
<1>6. CASE ~(n <= c - overlap) /\ ~(n > c)
  <2>1. OfDissolve(f, i) = [first |-> i, second |-> (n - c + overlap) - 1,
                            part |-> n - c + overlap, whole |-> overlap + 1]
    BY <1>1, <1>6 DEF OfDissolve
  <2>2. n - c + overlap # 0 /\ n - c + overlap # overlap + 1
    BY <1>6
  <2>3. Shown(G, f, i) = Mix(G[b.at][(n - c + overlap) - 1], G[a.at][i], n - c + overlap, overlap + 1)
    BY <1>1, <1>3, <2>1, <2>2 DEF Shown
  <2> QED
    BY <1>2, <1>6, <2>3
<1> QED
  BY <1>4, <1>5, <1>6

(* That is what is expected of a dissolve. *)
LEMMA DissolveRight ==
  ASSUME NEW G, NEW K, NEW a, NEW b, NEW overlap \in Nat, NEW cached \in BOOLEAN,
         IsRight(G, a), IsRight(G, b), a.vi.video = b.vi.video, rate \in Rates,
         ShowsFilter(G, K, DissolveOf(a, b, overlap, cached))
  PROVE  Right(G, K, DissolveOf(a, b, overlap, cached).vi, MeansFade(a, b, overlap))
<1> DEFINE f == DissolveOf(a, b, overlap, cached)
           m == MeansFade(a, b, overlap)
           s == a.means.frames
           t == b.means.frames
           video == a.vi.video
<1>1. /\ video \in BOOLEAN /\ a.vi.frames \in Int /\ a.vi.samples \in Int
      /\ b.vi.frames \in Int /\ b.vi.samples \in Int /\ a.means.video = video
  BY DEF IsRight, Right
<1>2. f.vi.video = video /\ f.vi.frames \in Int /\ f.vi.samples \in Int
  <2>1. a.vi.frames - overlap \in Int
    BY <1>1
  <2>2. Span(a.vi.frames - overlap) \in Int /\ Span(overlap) \in Int
    BY <2>1, SpanIsInt
  <2>3. f.vi.video = video /\ f.vi.frames \in Int
    BY <1>1 DEF DissolveOf, Info, Most
  <2>4. f.vi.samples \in Int
    BY <1>1, <2>2 DEF DissolveOf, Info, Most
  <2> QED
    BY <2>3, <2>4
<1>3. m.video = video /\ IsClip(m)
  <2>1. PICK v : v = a.means.video
    OBVIOUS
  <2>2. \E fr, so, lo : m = Clip(v, fr, so, lo, TRUE)
    BY <2>1 DEF MeansFade, Faded
  <2>3. PICK fr, so, lo : m = Clip(v, fr, so, lo, TRUE)
    BY <2>2
  <2> HIDE DEF m
  <2> QED
    BY <1>1, <2>1, <2>3 DEF Clip, IsClip
<1>4. ASSUME f.vi.video, "frames" \notin m.loose
      PROVE  /\ Listed(m.frames) /\ f.vi.frames = Len(m.frames)
             /\ \A n \in 1 .. Len(m.frames) : G[K][n - 1] = m.frames[n]
  <2>1. video = TRUE /\ a.means.video = TRUE
    BY <1>1, <1>2, <1>4
  <2>2. /\ overlap \in 0 .. Len(s) /\ overlap <= Len(t)
        /\ "frames" \notin a.means.loose /\ "frames" \notin b.means.loose
        /\ m.frames = [k \in 1 .. Len(s) - overlap + Len(t) |->
                         IF k <= Len(s) - overlap THEN s[k]
                         ELSE IF k > Len(s) THEN t[k - Len(s) + overlap]
                         ELSE Mix(t[k - Len(s) + overlap], s[k], k - Len(s) + overlap, overlap + 1)]
    <3>1. overlap \in 0 .. Len(s) /\ overlap <= Len(t)
      BY <1>4, <2>1 DEF MeansFade, Faded, Clip, Both
    <3> QED
      BY <1>4, <2>1, <3>1 DEF MeansFade, Faded, Clip
  <2> HIDE DEF m, f
  <2>3. /\ Listed(s) /\ a.vi.frames = Len(s) /\ Listed(t) /\ b.vi.frames = Len(t)
        /\ \A n \in 1 .. Len(s) : G[a.at][n - 1] = s[n]
        /\ \A n \in 1 .. Len(t) : G[b.at][n - 1] = t[n]
    BY <1>1, <2>1, <2>2 DEF IsRight, Right
  <2>4. PICK c \in Nat, d \in Nat : c = Len(s) /\ d = Len(t)
    BY <2>3 DEF Listed
  <2>5. overlap <= c /\ overlap <= d /\ a.vi.frames = c /\ b.vi.frames = d
    BY <2>2, <2>3, <2>4
  <2>6. f.vi.frames = c - overlap + d
    BY <2>1, <2>5 DEF f, DissolveOf, Info, Most
  <2>7. Listed(m.frames) /\ Len(m.frames) = c - overlap + d
    <3>1. PICK u : u = m.frames
      OBVIOUS
    <3>2. DOMAIN u = 1 .. Len(s) - overlap + Len(t)
      BY <2>2, <3>1
    <3>3. DOMAIN u = 1 .. c - overlap + d
      BY <2>4, <3>2
    <3>4. c - overlap + d \in Nat
      BY <2>5
    <3> QED
      BY <3>1, <3>3, <3>4, LengthOf
  <2>8. ASSUME NEW n \in 1 .. c - overlap + d PROVE G[K][n - 1] = m.frames[n]
    <3>1. m.frames[n] = IF n <= c - overlap THEN s[n]
                        ELSE IF n > c THEN t[n - c + overlap]
                        ELSE Mix(t[n - c + overlap], s[n], n - c + overlap, overlap + 1)
      BY <2>2, <2>4
    <3>2. G[K][n - 1] = IF n <= c - overlap THEN G[a.at][n - 1]
                        ELSE IF n > c THEN G[b.at][(n - c + overlap) - 1]
                        ELSE Mix(G[b.at][(n - c + overlap) - 1], G[a.at][n - 1],
                                 n - c + overlap, overlap + 1)
      <4>1. Overlap(a, b, overlap, c, d)
        BY <2>1, <2>5 DEF Overlap
      <4>2. MixesShown(G, K, a, b, overlap, c, d)
        BY <4>1, DissolveShown
      <4> QED
        BY <4>2 DEF MixesShown
    <3>3. n <= c => G[a.at][n - 1] = s[n]
      BY <2>3, <2>4
    <3>4. n > c - overlap => G[b.at][(n - c + overlap) - 1] = t[n - c + overlap]
      <4>1. n > c - overlap => n - c + overlap \in 1 .. d
        BY <2>5
      <4> QED
        BY <2>3, <2>4, <4>1
    <3>5. CASE n <= c - overlap
      BY <2>5, <3>1, <3>2, <3>3, <3>5
    <3>6. CASE n > c
      BY <2>5, <3>1, <3>2, <3>4, <3>6
    <3>7. CASE ~(n <= c - overlap) /\ ~(n > c)
      BY <2>5, <3>1, <3>2, <3>3, <3>4, <3>7
    <3> QED
      BY <3>5, <3>6, <3>7
  <2> QED
    BY <2>6, <2>7, <2>8
<1> HIDE DEF m, f
<1>5. Right(G, K, f.vi, m)
  <2>1. m.video = f.vi.video /\ f.vi.video \in BOOLEAN
    BY <1>1, <1>2, <1>3
  <2> HIDE DEF video, s, t
  <2> QED
    BY <1>2, <1>3, <1>4, <2>1 DEF Right, IsClip
<1> QED
  BY <1>5 DEF m, f

(* And so Dissolve shows it. *)
LEMMA DissolveShows ==
  ASSUME ShowsInv, NEW p \in Operands, NEW overlap \in Int, Dissolve(p[1], p[2], overlap)
  PROVE  ShowsInv'
<1>0. PICK a, b : a = p[1] /\ b = p[2]
  OBVIOUS
<1>1. Dissolve(a, b, overlap) /\ IsOperand(a) /\ IsOperand(b)
  BY <1>0, OperandsAre
<1> DEFINE f == DissolveOf(a, b, overlap, TRUE)
           means == MeansFade(a, b, overlap)
<1>2. Made(<<f>>, means) /\ a.vi.video = b.vi.video /\ overlap \in Nat
  BY <1>1 DEF Dissolve
<1>3. Top \in Nat /\ rate \in Rates
  BY Known
<1>4. Fits(f, Top + 1)
  <2>1. f.kind = "Dissolve" /\ f.of = a.at /\ f.with = b.at
    BY DEF DissolveOf
  <2> HIDE DEF f
  <2> QED
    BY <1>1, <1>3, <2>1 DEF Fits, Kinds, Joins, IsOperand
<1>5. ASSUME NEW G, Extends(G, f) PROVE Right(G, Top + 1, f.vi, means)
  <2>1. IsRight(G, a) /\ IsRight(G, b)
    BY <1>1, <1>5 DEF IsOperand, Right, Extends, IsRight
  <2>2. ShowsFilter(G, Top + 1, DissolveOf(a, b, overlap, TRUE))
    BY <1>5 DEF Extends, ShowsFilter
  <2> QED
    BY <1>2, <1>3, <2>1, <2>2, DissolveRight
<1> HIDE DEF f, means
<1> QED
  BY <1>2, <1>4, <1>5, MadeOne

-----------------------------------------------------------------------------
(* Whether a clip is silent beyond its ends does not matter to its         *)
(* frames.                                                                 *)
LEMMA CappedRight ==
  ASSUME NEW G, NEW K, NEW v, NEW m, Right(G, K, v, m), NEW c
  PROVE  Right(G, K, v, [m EXCEPT !.capped = c])
<1>0. IsClip(m)
  BY DEF Right, IsClip
<1>1. PICK vd, f, s, l, d : m = [video |-> vd, frames |-> f, sound |-> s, loose |-> l, capped |-> d]
  BY <1>0 DEF Clip, IsClip
<1>2. PICK u : u = [m EXCEPT !.capped = c]
  OBVIOUS
<1>3. u = [video |-> vd, frames |-> f, sound |-> s, loose |-> l, capped |-> c]
  BY <1>1, <1>2
<1>4. IsClip(u) /\ u.video = m.video /\ u.frames = m.frames /\ u.loose = m.loose
  BY <1>1, <1>3 DEF IsClip, Clip
<1>5. Right(G, K, v, u)
  BY <1>4 DEF Right, IsClip
<1> QED
  BY <1>2, <1>5

(* For a constructor of several filters: it is enough that the last shows  *)
(* what is meant.                                                          *)
LEMMA MadeList ==
  ASSUME ShowsInv, NEW fs, NEW means, Made(fs, means), Listed(fs), AllFit(graph, fs), Len(fs) > 0,
         Right(GetFrame', Top + Len(fs), fs[Len(fs)].vi, means)
  PROVE  ShowsInv'
<1>1. /\ rate' \in Rates /\ meant' = means
      /\ Listed(graph') /\ Top' = Top + Len(fs) /\ Acyclic(graph')
      /\ \E src \in Sources : graph'[1] = Source("B", src)
      /\ vi' = fs[Len(fs)].vi
  BY MadeShows
<1>2. Top >= 2 /\ Top \in Nat
  BY Known
<1>3. Top' >= 2
  BY <1>1, <1>2 DEF Listed
<1>4. Right(GetFrame', Top', vi', meant')
  BY <1>1
<1>5. Right(GetFrame, Top, vi, meant)'
  BY <1>4 DEF Right
<1> QED
  BY <1>1, <1>3, <1>5 DEF ShowsInv, Listed, Acyclic, AsksEarlier, Source, Info

(* A fade shows a dissolve to or from a black clip, or both. *)
LEMMA FadeShows ==
  ASSUME ShowsInv, NEW way \in {"out", "in", "IO"}, NEW duration \in Int, NEW more \in Int,
         Fade(way, duration, more)
  PROVE  ShowsInv'
<1> DEFINE n     == duration + more
           black == [at |-> Top + 1, vi |-> Info(TRUE, n, Span(n)), means |-> SourceClip("0", n, Span(n))]
           clip  == [at |-> Top, vi |-> vi, means |-> meant]
           one   == IF way = "out" THEN <<clip, black>> ELSE <<black, clip>>
           a     == IF way = "out" THEN clip ELSE black
           b     == IF way = "out" THEN black ELSE clip
           first == DissolveOf(one[1], one[2], duration, way # "IO")
           inner == [at |-> Top + 2, vi |-> first.vi,
                     means |-> [MeansFade(one[1], one[2], duration) EXCEPT !.capped = way # "IO"]]
           source == Source("0", <<n, Span(n)>>)
           second == DissolveOf(inner, black, duration, TRUE)
           fs == <<source, first>> \o (IF way = "IO" THEN <<second>> ELSE <<>>)
           means == IF way = "IO" THEN MeansFade(inner, black, duration) ELSE inner.means
<1>1. vi.video /\ duration \in Nat /\ n > 0 /\ n \in Int /\ Made(fs, means)
  BY DEF Fade
<1>2. Top \in Nat /\ Top >= 2 /\ rate \in Rates /\ Right(GetFrame, Top, vi, meant)
  BY Known
<1>3. Span(n) \in Int
  BY <1>1, <1>2, SpanIsInt
<1>4. one[1] = a /\ one[2] = b
  OBVIOUS
<1>5. first = DissolveOf(a, b, duration, way # "IO")
  BY <1>4
<1>6. PICK m1 : m1 = MeansFade(a, b, duration)
  OBVIOUS
<1>7. PICK c : inner.at = Top + 2 /\ inner.vi = first.vi /\ inner.means = [m1 EXCEPT !.capped = c]
  <2>1. PICK c : c = (way # "IO")
    OBVIOUS
  <2> HIDE DEF first, one
  <2>2. inner.means = [MeansFade(one[1], one[2], duration) EXCEPT !.capped = c]
    BY <2>1
  <2> QED
    BY <1>4, <1>6, <2>2
<1>8. /\ source.kind = "Source"
      /\ first.kind = "Dissolve" /\ first.of = a.at /\ first.with = b.at
      /\ second.kind = "Dissolve" /\ second.of = inner.at /\ second.with = black.at
  <2> HIDE DEF inner, black, a, b, one
  <2> QED
    BY <1>5 DEF Source, DissolveOf
<1>9. a.at \in {Top, Top + 1} /\ b.at \in {Top, Top + 1} /\ black.at = Top + 1
  OBVIOUS
<1>10. black.vi.video = TRUE /\ a.vi.video = TRUE /\ b.vi.video = TRUE
  BY <1>1 DEF Info, Known
<1>11. InfoOf(black.vi, <<n, Span(n)>>) /\ black.means = SourceClip("0", n, Span(n))
  BY <1>1 DEF InfoOf, Info
<1>12. clip.at = Top /\ clip.vi = vi /\ clip.means = meant /\ (a = clip \/ a = black) /\ (b = clip \/ b = black)
  OBVIOUS
<1> HIDE DEF first, second, inner, source, one, a, b, black, clip, n
<1>13. Listed(fs) /\ Len(fs) = (IF way = "IO" THEN 3 ELSE 2) /\ fs[1] = source /\ fs[2] = first
       /\ (way = "IO" => fs[3] = second)
  BY DEF Listed
<1> HIDE DEF fs, means
<1>14. AllFit(graph, fs)
  <2>1. Fits(source, Top + 1)
    BY <1>8 DEF Fits, Kinds, Joins
  <2>2. Fits(first, Top + 2)
    BY <1>2, <1>8, <1>9 DEF Fits, Kinds, Joins
  <2>3. Fits(second, Top + 3)
    BY <1>2, <1>7, <1>8, <1>9 DEF Fits, Kinds, Joins
  <2> QED
    BY <1>13, <2>1, <2>2, <2>3 DEF AllFit, Top
<1>15. PICK G : G = GetFrame'
  OBVIOUS
<1>16. /\ \A k \in 1 .. Top : G[k] = GetFrame[k]
       /\ ShowsFilter(G, Top + 1, source) /\ ShowsFilter(G, Top + 2, first)
       /\ way = "IO" => ShowsFilter(G, Top + 3, second)
  <2>1. /\ \A k \in 1 .. Top : GetFrame'[k] = GetFrame[k]
        /\ \A k \in 1 .. Len(fs) : GetFrame'[Top + k] = [i \in Int |-> Shown(GetFrame', fs[k], i)]
    <3>1. Made(fs, means) /\ Listed(fs) /\ AllFit(graph, fs)
      BY <1>1, <1>13, <1>14
    <3> QED
      BY <3>1, MadeShows
  <2>2. 1 \in 1 .. Len(fs) /\ 2 \in 1 .. Len(fs) /\ (way = "IO" => 3 \in 1 .. Len(fs))
    BY <1>13
  <2> QED
    BY <1>13, <1>15, <2>1, <2>2 DEF ShowsFilter
<1>17. IsRight(G, clip)
  BY <1>2, <1>12, <1>16 DEF IsRight, Right
<1>18. IsRight(G, black)
  <2>1. ShowsSource(G, Top + 1, "0", <<n, Span(n)>>)
    BY <1>16 DEF ShowsSource, ShowsFilter, source
  <2>2. PICK v, src : v = black.vi /\ src = <<n, Span(n)>>
    OBVIOUS
  <2>3. src[1] = n /\ src[2] = Span(n)
    BY <2>2
  <2>4. Right(G, Top + 1, v, SourceClip("0", src[1], src[2]))
    BY <1>1, <1>3, <1>11, <2>1, <2>2, <2>3, SourceRight
  <2> QED
    BY <1>9, <1>11, <2>2, <2>3, <2>4 DEF IsRight
<1>19. IsRight(G, a) /\ IsRight(G, b)
  BY <1>12, <1>17, <1>18
<1>20. Right(G, Top + 2, first.vi, m1)
  <2>1. PICK cached \in BOOLEAN : cached = (way # "IO")
    OBVIOUS
  <2>2. ShowsFilter(G, Top + 2, DissolveOf(a, b, duration, cached))
    BY <1>5, <1>16, <2>1
  <2>3. a.vi.video = b.vi.video
    BY <1>10
  <2>4. Right(G, Top + 2, DissolveOf(a, b, duration, cached).vi, MeansFade(a, b, duration))
    BY <1>1, <1>2, <1>19, <2>2, <2>3, DissolveRight
  <2> QED
    BY <1>5, <1>6, <2>1, <2>4
<1>21. IsRight(G, inner)
  BY <1>7, <1>20, CappedRight DEF IsRight
<1>22. CASE way # "IO"
  <2>1. means = inner.means
    BY <1>22 DEF means
  <2>2. Right(G, Top + 2, first.vi, means)
    BY <1>7, <1>21, <2>1 DEF IsRight
  <2>3. Right(GetFrame', Top + Len(fs), fs[Len(fs)].vi, means)
    BY <1>13, <1>15, <1>22, <2>2
  <2> QED
    <3>1. Made(fs, means) /\ Listed(fs) /\ AllFit(graph, fs) /\ Len(fs) > 0
      BY <1>1, <1>13, <1>14
    <3> QED
      BY <2>3, <3>1, MadeList
<1>23. CASE way = "IO"
  <2>1. means = MeansFade(inner, black, duration)
    BY <1>23 DEF means
  <2>2. inner.vi.video = black.vi.video
    <3>1. first.vi.video = TRUE
      <4>1. DissolveOf(a, b, duration, way # "IO").vi.video = a.vi.video
        BY DEF DissolveOf, Info
      <4> QED
        BY <1>5, <1>10, <4>1
    <3> QED
      BY <1>7, <1>10, <3>1
  <2>3. ShowsFilter(G, Top + 3, DissolveOf(inner, black, duration, TRUE))
    BY <1>16, <1>23 DEF second
  <2>4. Right(G, Top + 3, DissolveOf(inner, black, duration, TRUE).vi, MeansFade(inner, black, duration))
    BY <1>1, <1>2, <1>18, <1>21, <2>2, <2>3, DissolveRight
  <2>5. Right(G, Top + 3, second.vi, means)
    BY <2>1, <2>4 DEF second
  <2>6. Right(GetFrame', Top + Len(fs), fs[Len(fs)].vi, means)
    BY <1>13, <1>15, <1>23, <2>5
  <2> QED
    <3>1. Made(fs, means) /\ Listed(fs) /\ AllFit(graph, fs) /\ Len(fs) > 0
      BY <1>1, <1>13, <1>14
    <3> QED
      BY <2>6, <3>1, MadeList
<1> QED
  BY <1>22, <1>23

-----------------------------------------------------------------------------
(* Copies of a list of n items, t items in all. *)
AreCopies(y, b, n, t) ==
  /\ Listed(y) /\ Len(y) = t
  /\ \A p \in 1 .. t : y[p] = b[((p - 1) % n) + 1]

(* Copies of a part of a list. *)
LEMMA CopiesOf ==
  ASSUME NEW b, NEW n \in Nat, n = Len(b), NEW k \in Nat
  PROVE  AreCopies(Copies(b, k), b, n, k * n)
<1>1. k * n \in Nat
  OBVIOUS
<1>2. PICK c : c = Copies(b, k)
  OBVIOUS
<1>3. c = [i \in 1 .. k * n |-> b[((i - 1) % n) + 1]]
  BY <1>2 DEF Copies
<1>4. Listed(c) /\ Len(c) = k * n
  BY <1>1, <1>3, LengthOf
<1> QED
  BY <1>1, <1>2, <1>3, <1>4 DEF AreCopies

(* A list whose items i + 1 .. j are gone through again and again: the     *)
(* first i + t items of it, and the rest after that.                       *)
Again(s, i, j, p) == s[((p - 1 - i) % (j - i)) + 1 + i]

IsAgain(u, s, i, j, t) ==
  /\ Listed(u) /\ Len(u) = i + t
  /\ \A p \in 1 .. i : u[p] = s[p]
  /\ \A p \in i + 1 .. i + t : u[p] = Again(s, i, j, p)

IsLooped(u, s, i, j, t) ==
  /\ Listed(u) /\ Len(u) = Len(s) - (j - i) + t
  /\ \A p \in 1 .. i : u[p] = s[p]
  /\ \A p \in i + 1 .. i + t : u[p] = Again(s, i, j, p)
  /\ \A p \in i + t + 1 .. Len(s) - (j - i) + t : u[p] = s[p - t + (j - i)]

Within(s, i, j) ==
  Listed(s) /\ i \in Int /\ j \in Int /\ 0 <= i /\ i < j /\ j <= Len(s)

(* The head of a list and then copies of a part of it. *)
LEMMA AgainAndAgain ==
  ASSUME NEW s, NEW i, NEW j, Within(s, i, j), NEW t \in Nat, NEW y, AreCopies(y, Cut(s, i, j), j - i, t)
  PROVE  IsAgain(Cut(s, 0, i) \o y, s, i, j, t)
<1> DEFINE x == Cut(s, 0, i)
           b == Cut(s, i, j)
           n == j - i
           u == x \o y
<1>1. Listed(s) /\ i \in Int /\ j \in Int /\ 0 <= i /\ i < j /\ j <= Len(s) /\ Len(s) \in Nat
  BY DEF Within, Listed
<1>2. IsCut(x, s, 0, i) /\ IsCut(b, s, i, j)
  BY <1>1, CutList
<1> HIDE DEF x, b
<1>3. Listed(x) /\ Len(x) = i /\ \A p \in 1 .. i : x[p] = s[p]
  BY <1>1, <1>2 DEF IsCut
<1>4. \A p \in 1 .. n : b[p] = s[p + i]
  BY <1>2 DEF IsCut
<1>5. Listed(y) /\ Len(y) = t /\ \A p \in 1 .. t : y[p] = b[((p - 1) % n) + 1]
  BY DEF AreCopies, b
<1>6. IsJoin(u, x, y)
  BY <1>3, <1>5, JoinedLists
<1> HIDE DEF u
<1>7. /\ Listed(u) /\ Len(u) = i + t
      /\ \A p \in 1 .. i : u[p] = x[p]
      /\ \A p \in 1 .. t : u[i + p] = y[p]
  BY <1>3, <1>5, <1>6 DEF IsJoin
<1>8. n \in Int /\ n > 0
  BY <1>1
<1>9. ASSUME NEW p \in i + 1 .. i + t PROVE u[p] = Again(s, i, j, p)
  <2>1. PICK q \in 1 .. t : q = p - i
    BY <1>1
  <2>2. u[i + q] = y[q] /\ i + q = p
    BY <1>1, <1>7, <2>1
  <2>3. y[q] = b[((q - 1) % n) + 1]
    BY <1>5
  <2>4. PICK r \in Int : r = (q - 1) % n
    BY <1>8
  <2>5. r >= 0 /\ r < n
    BY <1>8, <2>4
  <2>6. b[r + 1] = s[r + 1 + i]
    BY <1>4, <1>8, <2>5
  <2>7. q - 1 = p - 1 - i
    BY <1>1, <2>1
  <2>8. Again(s, i, j, p) = s[r + 1 + i]
    BY <2>4, <2>7 DEF Again
  <2> QED
    BY <2>2, <2>3, <2>4, <2>6, <2>8
<1>10. IsAgain(u, s, i, j, t)
  BY <1>3, <1>7, <1>9 DEF IsAgain
<1> QED
  BY <1>10 DEF u, x

(* And then the rest of the list. *)
LEMMA AgainAndOn ==
  ASSUME NEW s, NEW i, NEW j, Within(s, i, j), NEW t \in Nat, NEW y, AreCopies(y, Cut(s, i, j), j - i, t)
  PROVE  IsLooped(Cut(s, 0, i) \o y \o Cut(s, j, Len(s)), s, i, j, t)
<1> DEFINE u == Cut(s, 0, i) \o y
           c == Len(s)
           z == Cut(s, j, c)
           w == u \o z
<1>1. Listed(s) /\ i \in Int /\ j \in Int /\ 0 <= i /\ i < j /\ j <= c /\ c \in Nat
  BY DEF Within, Listed
<1>2. IsAgain(u, s, i, j, t)
  BY AgainAndAgain
<1>3. IsCut(z, s, j, c)
  BY <1>1, CutList
<1> HIDE DEF u, z
<1>4. Listed(u) /\ Listed(z)
  BY <1>2, <1>3 DEF IsAgain, IsCut
<1>5. IsJoin(w, u, z)
  BY <1>4, JoinedLists
<1> HIDE DEF w, c
<1>6. /\ Len(u) = i + t
      /\ \A p \in 1 .. i : u[p] = s[p]
      /\ \A p \in i + 1 .. i + t : u[p] = Again(s, i, j, p)
  BY <1>2 DEF IsAgain
<1>7. Len(z) = c - j /\ \A p \in 1 .. c - j : z[p] = s[p + j]
  BY <1>3 DEF IsCut
<1>8. /\ Listed(w) /\ Len(w) = i + t + (c - j)
      /\ \A p \in 1 .. i + t : w[p] = u[p]
      /\ \A p \in 1 .. c - j : w[i + t + p] = z[p]
  BY <1>5, <1>6, <1>7 DEF IsJoin
<1>9. ASSUME NEW p \in i + t + 1 .. c - (j - i) + t PROVE w[p] = s[p - t + (j - i)]
  <2>1. PICK q \in 1 .. c - j : q = p - i - t
    BY <1>1
  <2>2. w[i + t + q] = s[q + j]
    BY <1>7, <1>8
  <2>3. i + t + q = p /\ q + j = p - t + (j - i)
    BY <1>1, <2>1
  <2> QED
    BY <2>2, <2>3
<1>10. Len(w) = c - (j - i) + t
  BY <1>1, <1>8
<1>11. \A p \in 1 .. i : w[p] = s[p]
  BY <1>1, <1>6, <1>8
<1>12. \A p \in i + 1 .. i + t : w[p] = Again(s, i, j, p)
  BY <1>1, <1>6, <1>8
<1>13. IsLooped(w, s, i, j, t)
  BY <1>8, <1>9, <1>10, <1>11, <1>12 DEF IsLooped, c
<1> QED
  BY <1>13 DEF w, u, z, c

-----------------------------------------------------------------------------
ShowsUpto(G, K, u, e) == \A p \in 1 .. e : G[K][p - 1] = u[p]

IsLoopOf(G, K, f, s, i, j) ==
  /\ ShowsFilter(G, K, f) /\ f.kind = "Loop" /\ f.cached = FALSE
  /\ Within(s, i, j) /\ f.first = i /\ f.frames = j - i
  /\ \A p \in 1 .. Len(s) : G[f.of][p - 1] = s[p]

EndsSo(u, s, i, j, t, e, z) ==
  \/ IsLooped(u, s, i, j, t) /\ z = i + t - 1
  \/ IsAgain(u, s, i, j, t) /\ z \in Int /\ e <= z + 1

(* A loop shows its frames as often as it says, and then the rest.         *)
LEMMA LoopFrames ==
  ASSUME NEW G, NEW K, NEW f, NEW s, NEW i, NEW j, IsLoopOf(G, K, f, s, i, j),
         NEW u, NEW t \in Nat, NEW e \in Nat, e <= Len(u), EndsSo(u, s, i, j, t, e, f.end)
  PROVE  ShowsUpto(G, K, u, e)
<1>0. /\ ShowsFilter(G, K, f) /\ f.kind = "Loop" /\ f.cached = FALSE
      /\ Within(s, i, j) /\ f.first = i /\ f.frames = j - i
      /\ \A p \in 1 .. Len(s) : G[f.of][p - 1] = s[p]
  BY DEF IsLoopOf
<1>1. Listed(s) /\ i \in Int /\ j \in Int /\ 0 <= i /\ i < j /\ j <= Len(s) /\ Len(s) \in Nat
  BY <1>0 DEF Within, Listed
<1>2. f.end \in Int
  BY <1>1 DEF EndsSo
<1>7. \A n \in Int : G[K][n] = G[f.of][OfLoop(f, n)]
  BY <1>0 DEF ShowsFilter, Shown
<1>8. j - i \in Int /\ j - i > 0
  BY <1>1
<1>3. ASSUME NEW p \in 1 .. i, p <= f.end + 1 PROVE G[K][p - 1] = s[p]
  <2>1. OfLoop(f, p - 1) = p - 1 /\ p - 1 \in Int
    BY <1>0, <1>1, <1>2, <1>3 DEF OfLoop
  <2>2. G[K][p - 1] = G[f.of][p - 1]
    BY <1>7, <2>1
  <2> QED
    BY <1>0, <1>1, <2>2
<1>4. ASSUME NEW p \in i + 1 .. i + t, p <= f.end + 1 PROVE G[K][p - 1] = Again(s, i, j, p)
  <2>1. PICK n \in Int : n = p - 1
    BY <1>1
  <2>2. PICK r \in Int : r = (n - i) % (j - i)
    BY <1>1, <1>8
  <2>3. r >= 0 /\ r < j - i
    BY <1>1, <1>8, <2>2
  <2>4. OfLoop(f, n) = r + i
    <3>1. ~(n > f.end) /\ n >= i
      BY <1>1, <1>2, <1>4, <2>1
    <3> QED
      BY <1>0, <2>2, <3>1 DEF OfLoop
  <2>5. G[K][n] = G[f.of][r + i]
    BY <1>7, <2>4
  <2>6. r + i + 1 \in 1 .. Len(s) /\ (r + i + 1) - 1 = r + i
    BY <1>1, <2>3
  <2>7. G[f.of][(r + i + 1) - 1] = s[r + i + 1]
    BY <1>0, <2>6
  <2>8. Again(s, i, j, p) = s[r + 1 + i] /\ r + 1 + i = r + i + 1
    BY <1>1, <2>1, <2>2, SMTT(30) DEF Again
  <2> QED
    BY <2>1, <2>5, <2>6, <2>7, <2>8
<1>5. CASE IsAgain(u, s, i, j, t) /\ f.end \in Int /\ e <= f.end + 1
  <2>1. /\ Len(u) = i + t
        /\ \A p \in 1 .. i : u[p] = s[p]
        /\ \A p \in i + 1 .. i + t : u[p] = Again(s, i, j, p)
    BY <1>5 DEF IsAgain
  <2>2. ASSUME NEW p \in 1 .. e PROVE G[K][p - 1] = u[p]
    <3>1. CASE p <= i
      BY <1>1, <1>2, <1>3, <1>5, <2>1, <3>1
    <3>2. CASE p > i
      <4>1. p \in i + 1 .. i + t /\ p <= f.end + 1
        BY <1>1, <1>2, <1>5, <2>1, <3>2
      <4> QED
        BY <1>4, <2>1, <4>1
    <3> QED
      BY <1>1, <2>1, <3>1, <3>2
  <2> QED
    BY <2>2 DEF ShowsUpto
<1>6. CASE IsLooped(u, s, i, j, t) /\ f.end = i + t - 1
  <2>1. /\ Len(u) = Len(s) - (j - i) + t
        /\ \A p \in 1 .. i : u[p] = s[p]
        /\ \A p \in i + 1 .. i + t : u[p] = Again(s, i, j, p)
        /\ \A p \in i + t + 1 .. Len(s) - (j - i) + t : u[p] = s[p - t + (j - i)]
    BY <1>6 DEF IsLooped
  <2>2. ASSUME NEW p \in i + t + 1 .. Len(s) - (j - i) + t PROVE G[K][p - 1] = s[p - t + (j - i)]
    <3>1. PICK q \in 1 .. Len(s) : q = p - t + (j - i)
      BY <1>1
    <3>2. p - 1 > f.end /\ OfLoop(f, p - 1) = q - 1
      BY <1>0, <1>1, <1>6, <3>1 DEF OfLoop
    <3>3. G[K][p - 1] = G[f.of][q - 1]
      BY <1>1, <1>7, <3>2
    <3> QED
      BY <1>0, <3>1, <3>3
  <2>3. ASSUME NEW p \in 1 .. e PROVE G[K][p - 1] = u[p]
    <3>1. CASE p <= i
      <4>1. p \in 1 .. i /\ p <= f.end + 1
        BY <1>1, <1>6, <3>1
      <4> QED
        BY <1>3, <2>1, <4>1
    <3>2. CASE p > i /\ p <= i + t
      <4>1. p \in i + 1 .. i + t /\ p <= f.end + 1
        BY <1>1, <1>6, <3>2
      <4> QED
        BY <1>4, <2>1, <4>1
    <3>3. CASE p > i + t
      <4>1. p \in i + t + 1 .. Len(s) - (j - i) + t
        BY <1>1, <2>1, <3>3
      <4> QED
        BY <2>1, <2>2, <4>1
    <3> QED
      BY <1>1, <2>1, <3>1, <3>2, <3>3
  <2> QED
    BY <2>3 DEF ShowsUpto
<1> QED
  BY <1>5, <1>6 DEF EndsSo

(* When a clip's VideoInfo and what it shows are as meant, it is right.    *)
Typed(w) == w.video \in BOOLEAN /\ w.frames \in Int /\ w.samples \in Int

ShowsList(G, K, w, fr) ==
  /\ Listed(fr) /\ w.frames = Len(fr)
  /\ \A n \in 1 .. Len(fr) : G[K][n - 1] = fr[n]

(* It is enough that a list of frames is shown. *)
LEMMA ListRight ==
  ASSUME NEW G, NEW K, NEW w, Typed(w), NEW m, IsClip(m), m.video = w.video,
         w.video /\ "frames" \notin m.loose => ShowsList(G, K, w, m.frames)
  PROVE  Right(G, K, w, m)
BY DEF Right, ShowsList, Typed, IsClip

(* When nothing is expected, nothing need be shown. *)
LEMMA LooseRight ==
  ASSUME NEW G, NEW K, NEW w, Typed(w), NEW m, IsClip(m), m.video = w.video
  PROVE  Right(G, K, w, [m EXCEPT !.loose = Both])
<1>1. PICK u : u = [m EXCEPT !.loose = Both]
  OBVIOUS
<1>2. u = Clip(m.video, m.frames, m.sound, Both, m.capped)
  BY <1>1, Loosened
<1>3. u.video = w.video /\ u.loose = Both /\ IsClip(u)
  BY <1>2, ClipIs
<1>4. Right(G, K, w, u)
  BY <1>3, ListRight DEF Both
<1> QED
  BY <1>1, <1>4

LoopedFrames(m, i, j, times, ever) ==
  IF times < 0 THEN Cut(Cut(m.frames, 0, i) \o Copies(Cut(m.frames, i, j), ever), 0, ever)
  ELSE Cut(m.frames, 0, i) \o Copies(Cut(m.frames, i, j), times) \o Cut(m.frames, j, Len(m.frames))

IsEndless(u, s, i, j, ever) ==
  \E w : \E t \in Nat : IsAgain(w, s, i, j, t) /\ ever <= Len(w) /\ IsCut(u, w, 0, ever)

IsRepeated(u, s, i, j, times) ==
  \E t \in Nat : t = times * (j - i) /\ IsLooped(u, s, i, j, t)

(* The part of the list that is repeated. *)
LEMMA BlockOf ==
  ASSUME NEW s, NEW i, NEW j, Within(s, i, j)
  PROVE  Len(Cut(s, i, j)) = j - i /\ j - i \in Nat /\ j - i > 0 /\ i \in Nat
<1>1. Listed(s) /\ i \in Int /\ j \in Int /\ 0 <= i /\ i < j /\ j <= Len(s)
  BY DEF Within
<1>2. IsCut(Cut(s, i, j), s, i, j)
  BY <1>1, CutList
<1> QED
  BY <1>1, <1>2 DEF IsCut

(* A part of one item or more, repeated n times, has at least n items. *)
LEMMA ManyTimes ==
  ASSUME NEW k \in Nat, NEW n \in Nat, n > 0
  PROVE  k * n \in Nat /\ k <= k * n
OBVIOUS

(* An endless loop, cut off at "ever" frames. *)
LEMMA EndlessLoopOf ==
  ASSUME NEW s, NEW i, NEW j, Within(s, i, j), NEW ever \in Nat
  PROVE  IsEndless(Cut(Cut(s, 0, i) \o Copies(Cut(s, i, j), ever), 0, ever), s, i, j, ever)
<1>1. PICK n \in Nat : n = j - i
  BY BlockOf
<1>2. PICK t \in Nat : t = ever * n
  OBVIOUS
<1>3. ever <= t
  BY <1>1, <1>2, BlockOf, ManyTimes
<1>4. AreCopies(Copies(Cut(s, i, j), ever), Cut(s, i, j), n, t)
  <2>1. n = Len(Cut(s, i, j))
    BY <1>1, BlockOf
  <2> QED
    BY <1>2, <2>1, CopiesOf
<1>5. PICK w : w = Cut(s, 0, i) \o Copies(Cut(s, i, j), ever)
  OBVIOUS
<1>6. IsAgain(w, s, i, j, t)
  BY <1>1, <1>4, <1>5, AgainAndAgain
<1>7. Listed(w) /\ ever <= Len(w)
  BY <1>3, <1>6, BlockOf DEF IsAgain
<1>8. IsCut(Cut(w, 0, ever), w, 0, ever)
  BY <1>7, CutList
<1>9. IsEndless(Cut(w, 0, ever), s, i, j, ever)
  BY <1>6, <1>7, <1>8 DEF IsEndless
<1> QED
  BY <1>5, <1>9

(* A loop of a number of turns. *)
LEMMA RepeatedLoopOf ==
  ASSUME NEW s, NEW i, NEW j, Within(s, i, j), NEW times \in Nat
  PROVE  IsRepeated(Cut(s, 0, i) \o Copies(Cut(s, i, j), times) \o Cut(s, j, Len(s)), s, i, j, times)
<1>1. PICK n \in Nat : n = j - i
  BY BlockOf
<1>2. PICK t \in Nat : t = times * n
  OBVIOUS
<1>4. AreCopies(Copies(Cut(s, i, j), times), Cut(s, i, j), n, t)
  <2>1. n = Len(Cut(s, i, j))
    BY <1>1, BlockOf
  <2> QED
    BY <1>2, <2>1, CopiesOf
<1>5. IsLooped(Cut(s, 0, i) \o Copies(Cut(s, i, j), times) \o Cut(s, j, Len(s)), s, i, j, t)
  BY <1>1, <1>4, AgainAndOn
<1> QED
  BY <1>1, <1>2, <1>5 DEF IsRepeated

LoopedTo(u, m, fr) ==
  \E so, lo : m.loose \subseteq lo /\ u = Clip(m.video, fr, so, lo, FALSE)

(* What is expected of a loop, as far as its frames go. *)
LEMMA LoopedIs ==
  ASSUME NEW m, NEW r, NEW i, NEW j, NEW times, NEW ever, m.video = TRUE,
         NEW u, u = Looped(m, r, i, j, times, ever), u # [m EXCEPT !.loose = Both]
  PROVE  ~(i >= j) /\ LoopedTo(u, m, LoopedFrames(m, i, j, times, ever))
<1> DEFINE s     == Samples(r, j)
           p     == Samples(r, i)
           block == Cut(Pad(m.sound, s), p, s)
           So == IF times < 0
                 THEN Cut(Cut(Pad(m.sound, s), 0, p) \o Copies(block, Samples(r, ever + 1)),
                          0, Samples(r, ever + 1))
                 ELSE Cut(Cut(Pad(m.sound, s), 0, p) \o Copies(block, times)
                                                     \o Cut(m.sound, s, Len(m.sound)),
                          0, Len(m.sound) + (times - 1) * Len(block))
           Lo == m.loose \cup Aligned(m, s) \cup Loose(~(Whole(r, i) /\ Whole(r, j)), {"sound"})
<1>1. ~(i >= j)
  BY DEF Looped
<1>2. u = Clip(m.video, LoopedFrames(m, i, j, times, ever), So, Lo, FALSE)
  BY <1>1 DEF Looped, LoopedFrames
<1>3. m.loose \subseteq Lo
  OBVIOUS
<1> HIDE DEF So, Lo
<1> QED
  BY <1>1, <1>2, <1>3 DEF LoopedTo

Silent(m) == m.video = FALSE

(* Of a clip without video, no frames. *)
LEMMA SilentLoopIs ==
  ASSUME NEW m, NEW r, NEW i, NEW j, NEW times, NEW ever, Silent(m),
         NEW u, u = Looped(m, r, i, j, times, ever), u # [m EXCEPT !.loose = Both]
  PROVE  IsClip(u) /\ u.video = m.video
<1>2. PICK c : c = (\/ m.sound = <<>>
                    \/ Len(m.sound) + (times - 1) * Len(Cut(Pad(m.sound, Len(m.sound)), 0, Len(m.sound))) < 0)
  OBVIOUS
<1>3. \E fr, so, lo : u = IF c THEN [m EXCEPT !.loose = Both]
                          ELSE Clip(m.video, fr, so, lo, FALSE)
  BY <1>2 DEF Looped, Silent
<1>4. PICK fr, so, lo : u = Clip(m.video, fr, so, lo, FALSE)
  BY <1>3
<1> QED
  BY <1>4 DEF IsClip, Clip

(* The parts of that clip. *)
LEMMA LoopedToClip ==
  ASSUME NEW u, NEW m, NEW fr, LoopedTo(u, m, fr)
  PROVE  u.video = m.video /\ u.frames = fr /\ m.loose \subseteq u.loose /\ IsClip(u)
<1>1. PICK so, lo : m.loose \subseteq lo /\ u = Clip(m.video, fr, so, lo, FALSE)
  BY DEF LoopedTo
<1> QED
  BY <1>1 DEF Clip, IsClip

(* The filter shows the frames of an endless loop, *)
LEMMA EndlessFrames ==
  ASSUME NEW G, NEW K, NEW f, NEW s, NEW i, NEW j, IsLoopOf(G, K, f, s, i, j),
         NEW u, NEW e \in Nat, IsEndless(u, s, i, j, e), f.end = e
  PROVE  Listed(u) /\ Len(u) = e /\ ShowsUpto(G, K, u, e)
<1>1. PICK w : \E t \in Nat : IsAgain(w, s, i, j, t) /\ e <= Len(w) /\ IsCut(u, w, 0, e)
  BY DEF IsEndless
<1>2. PICK t \in Nat : IsAgain(w, s, i, j, t) /\ e <= Len(w) /\ IsCut(u, w, 0, e)
  BY <1>1
<1>3. EndsSo(w, s, i, j, t, e, f.end)
  BY <1>2 DEF EndsSo
<1>4. ShowsUpto(G, K, w, e)
  BY <1>2, <1>3, LoopFrames
<1>5. Listed(u) /\ Len(u) = e /\ \A p \in 1 .. e : u[p] = w[p]
  BY <1>2 DEF IsCut
<1> QED
  BY <1>4, <1>5 DEF ShowsUpto

(* and those of a loop that ends. *)
LEMMA RepeatedFrames ==
  ASSUME NEW G, NEW K, NEW f, NEW s, NEW i, NEW j, IsLoopOf(G, K, f, s, i, j),
         NEW u, NEW times \in Nat, IsRepeated(u, s, i, j, times), f.end = i + times * (j - i) - 1
  PROVE  Listed(u) /\ Len(u) = Len(s) + (times - 1) * (j - i) /\ ShowsUpto(G, K, u, Len(u))
<1>1. PICK t \in Nat : t = times * (j - i) /\ IsLooped(u, s, i, j, t)
  BY DEF IsRepeated
<1>2. f.end = i + t - 1
  BY <1>1
<1>3. PICK b \in Nat : b = j - i
  BY BlockOf DEF IsLoopOf
<1>4. Len(u) = Len(s) - b + t /\ Listed(u) /\ Len(u) \in Nat /\ Len(s) \in Nat
  BY <1>1, <1>3 DEF IsLooped, IsLoopOf, Within, Listed
<1>5. Len(u) = Len(s) + (times - 1) * b
  <2>1. (times - 1) * b = times * b - b /\ times * b = t
    BY <1>1, <1>3
  <2> QED
    BY <1>4, <2>1
<1>6. PICK e \in Nat : e = Len(u)
  BY <1>4
<1>7. EndsSo(u, s, i, j, t, e, f.end)
  BY <1>1, <1>2 DEF EndsSo
<1>8. ShowsUpto(G, K, u, e)
  <2>1. e <= Len(u)
    BY <1>6
  <2> QED
    BY <1>7, <2>1, LoopFrames
<1> QED
  BY <1>3, <1>4, <1>5, <1>6, <1>8

(* Loop shows the head, the repeated part as often as it is asked to, and  *)
(* the tail.                                                               *)
LEMMA LoopShows ==
  ASSUME ShowsInv, NEW times \in Int, NEW from \in Int, NEW till \in Int, Loop(times, from, till)
  PROVE  ShowsInv'
<1> DEFINE first  == Clamp(from, 0, vi.frames - 1)
           last   == Clamp(till, first, vi.frames - 1)
           n      == last - first + 1
           end    == IF times < 0 THEN Forever ELSE first + times * n - 1
           frames == IF times < 0 THEN Forever ELSE vi.frames + (times - 1) * n
           block  == IF vi.video THEN Span(n) ELSE vi.samples
           audEnd == IF vi.video THEN Span(end + 1) - 1
                     ELSE IF times < 0 THEN Span(Forever) ELSE vi.samples * times
           f == [kind |-> "Loop", of |-> Top,
                 vi |-> Info(vi.video, frames,
                             IF times < 0 THEN audEnd + 1 ELSE vi.samples + (times - 1) * block),
                 cached |-> FALSE, frames |-> n, first |-> first, end |-> end,
                 audStart |-> IF vi.video THEN Span(first) ELSE 0,
                 audCount |-> block, audEnd |-> audEnd]
           i == Most(from, 0)
           j == Least(till + 1, vi.frames)
           means == Looped(meant, rate, i, j, times, Forever)
<1>1. Made(<<f>>, means) /\ frames >= 0
  BY DEF Loop
<1>2. /\ vi.frames \in Int /\ vi.samples \in Int /\ vi.video \in BOOLEAN /\ Top \in Nat /\ rate \in Rates
      /\ Top >= 2 /\ Right(GetFrame, Top, vi, meant) /\ Forever \in Nat
  BY Known, EditingAssumption
<1>3. i \in Nat /\ j \in Int /\ first \in Int
  BY <1>2 DEF Most, Least, Clamp
<1>4. n \in Int
  BY <1>2, <1>3 DEF Clamp
<1> HIDE DEF n
<1>5. end \in Int /\ frames \in Int
  <2>1. times * n \in Int /\ (times - 1) * n \in Int
    BY <1>4
  <2> QED
    BY <1>2, <1>3, <2>1
<1> HIDE DEF frames
<1>6. f.vi.video = vi.video /\ f.vi.frames = frames /\ Typed(f.vi)
  <2>1. block \in Int
    BY <1>2, <1>4, SpanIsInt
  <2>2. audEnd \in Int
    <3>1. end + 1 \in Int /\ Forever \in Int
      BY <1>2, <1>5
    <3> HIDE DEF end
    <3>2. Span(end + 1) \in Int /\ Span(Forever) \in Int
      BY <1>2, <3>1, SpanIsInt
    <3>3. vi.samples * times \in Int
      BY <1>2
    <3> QED
      BY <1>2, <3>2, <3>3
  <2> HIDE DEF block, audEnd, end
  <2>3. (times - 1) * block \in Int
    BY <2>1
  <2>4. (IF times < 0 THEN audEnd + 1 ELSE vi.samples + (times - 1) * block) \in Int
    BY <1>2, <2>2, <2>3
  <2> QED
    BY <1>2, <1>5, <2>4 DEF Info, Typed
<1>7. /\ f.kind = "Loop" /\ f.of = Top /\ f.cached = FALSE /\ f.first = first /\ f.frames = n
      /\ f.end = end
  OBVIOUS
<1> HIDE DEF f, means, i, j, first, end
<1>8. Fits(f, Top + 1)
  BY <1>2, <1>7 DEF Fits, Kinds, Joins
<1>9. IsClip(meant) /\ meant.video = vi.video
  BY <1>2 DEF Right, IsClip
<1>10. ASSUME NEW G, Extends(G, f) PROVE Right(G, Top + 1, f.vi, means)
  <2>1. CASE means = [meant EXCEPT !.loose = Both]
    BY <1>6, <1>9, <2>1, LooseRight
  <2>0. PICK m, r, i1, j1, u : m = meant /\ r = rate /\ i1 = i /\ j1 = j /\ u = means
    OBVIOUS
  <2>00. u = Looped(m, r, i1, j1, times, Forever) /\ Right(G, Top, vi, m)
    BY <1>2, <1>10, <2>0, StillRight DEF means
  <2>2. CASE means # [meant EXCEPT !.loose = Both] /\ ~vi.video
    <3>1. Silent(m) /\ u # [m EXCEPT !.loose = Both]
      BY <1>2, <1>9, <2>0, <2>2 DEF Silent
    <3>3. u.video = m.video /\ IsClip(u)
      BY <2>00, <3>1, SilentLoopIs
    <3>4. Right(G, Top + 1, f.vi, u)
      BY <1>6, <1>9, <2>0, <2>2, <3>3, ListRight
    <3> QED
      BY <2>0, <3>4
  <2>3. CASE means # [meant EXCEPT !.loose = Both] /\ vi.video
    <3>1. m.video = TRUE /\ u # [m EXCEPT !.loose = Both]
      BY <1>2, <1>9, <2>0, <2>3
    <3>2. PICK fr : fr = LoopedFrames(m, i1, j1, times, Forever)
      OBVIOUS
    <3>3. ~(i1 >= j1) /\ LoopedTo(u, m, fr)
      BY <2>00, <3>1, <3>2, LoopedIs
    <3>4. u.video = m.video /\ u.frames = fr /\ m.loose \subseteq u.loose /\ IsClip(u)
      BY <3>3, LoopedToClip
    <3>5. ASSUME "frames" \notin u.loose
          PROVE  ShowsList(G, Top + 1, f.vi, fr)
      <4>1. PICK s : s = m.frames
        OBVIOUS
      <4>3. /\ Listed(s) /\ vi.frames = Len(s)
            /\ \A p \in 1 .. Len(s) : G[Top][p - 1] = s[p]
        <5>1. "frames" \notin m.loose
          BY <3>4, <3>5
        <5> QED
          BY <2>00, <2>3, <4>1, <5>1 DEF Right
      <4>4. Within(s, i1, j1)
        <5>1. Within(s, i, j)
          BY <1>2, <1>3, <2>0, <3>3, <4>3 DEF i, j, Most, Least, Within
        <5> QED
          BY <2>0, <5>1
      <4>5. first = i1 /\ n = j1 - i1
        BY <1>2, <1>3, <2>0, <3>3 DEF first, n, i, j, Most, Least, Clamp
      <4>6. IsLoopOf(G, Top + 1, f, s, i1, j1)
        <5>1. ShowsFilter(G, Top + 1, f)
          BY <1>10 DEF Extends, ShowsFilter
        <5>2. \A p \in 1 .. Len(s) : G[f.of][p - 1] = s[p]
          BY <1>7, <4>3
        <5> QED
          BY <1>7, <4>4, <4>5, <5>1, <5>2 DEF IsLoopOf
      <4>7. PICK w : w = f.vi.frames
        OBVIOUS
      <4>8. Listed(fr) /\ w = Len(fr) /\ ShowsUpto(G, Top + 1, fr, Len(fr))
        <5>1. CASE times < 0
          <6>1. IsEndless(fr, s, i1, j1, Forever)
            BY <1>2, <3>2, <4>1, <4>4, <5>1, EndlessLoopOf DEF LoopedFrames
          <6>2. f.end = Forever /\ w = Forever
            BY <1>6, <1>7, <4>7, <5>1 DEF end, frames
          <6> QED
            BY <1>2, <4>6, <6>1, <6>2, EndlessFrames
        <5>2. CASE ~(times < 0)
          <6>0. times \in Nat
            BY <5>2
          <6>1. IsRepeated(fr, s, i1, j1, times)
            BY <3>2, <4>1, <4>4, <5>2, <6>0, RepeatedLoopOf DEF LoopedFrames
          <6>2. f.end = i1 + times * (j1 - i1) - 1
            BY <1>7, <4>5, <5>2 DEF end
          <6>3. w = Len(s) + (times - 1) * (j1 - i1)
            BY <1>6, <4>3, <4>5, <4>7, <5>2 DEF frames
          <6>4. Listed(fr) /\ Len(fr) = Len(s) + (times - 1) * (j1 - i1) /\ ShowsUpto(G, Top + 1, fr, Len(fr))
            BY <4>6, <6>0, <6>1, <6>2, RepeatedFrames
          <6> QED
            BY <6>3, <6>4
        <5> QED
          BY <5>1, <5>2
      <4> QED
        BY <4>7, <4>8 DEF ShowsList, ShowsUpto
    <3>6. Right(G, Top + 1, f.vi, u)
      BY <1>6, <1>9, <2>0, <3>4, <3>5, ListRight
    <3> QED
      BY <2>0, <3>6
  <2> QED
    BY <2>1, <2>2, <2>3
<1> QED
  BY <1>1, <1>8, <1>10, MadeOne

-----------------------------------------------------------------------------
(* The quotient of a division with remainder. *)
LEMMA DivBounds ==
  ASSUME NEW a \in Int, NEW b \in Nat, b > 0
  PROVE  a \div b \in Int /\ b * (a \div b) <= a /\ a < b * (a \div b) + b
OBVIOUS

(* A product grows with its factors. *)
LEMMA TimesMonotone ==
  ASSUME NEW a \in Int, NEW b \in Int, NEW q \in Nat, a <= b
  PROVE  a * q <= b * q
OBVIOUS

(* It is the only number between these bounds. *)
LEMMA DivUnique ==
  ASSUME NEW a \in Int, NEW b \in Nat, b > 0, NEW e \in Int, b * e <= a, a < b * e + b
  PROVE  a \div b = e
<1>1. PICK d \in Int : d = a \div b
  OBVIOUS
<1>2. b * d <= a /\ a < b * d + b
  BY <1>1, DivBounds
<1>3. CASE d < e
  <2>1. (d + 1) * b <= e * b
    BY <1>3, TimesMonotone
  <2>2. (d + 1) * b = b * d + b /\ e * b = b * e
    OBVIOUS
  <2> QED
    BY <1>2, <2>1, <2>2
<1>4. CASE e < d
  <2>1. (e + 1) * b <= d * b
    BY <1>4, TimesMonotone
  <2>2. (e + 1) * b = b * e + b /\ d * b = b * d
    OBVIOUS
  <2> QED
    BY <1>2, <2>1, <2>2
<1> QED
  BY <1>1, <1>3, <1>4

(* The quotient of a multiple, *)
LEMMA DivExact ==
  ASSUME NEW a \in Int, NEW b \in Nat, b > 0
  PROVE  (a * b) \div b = a
<1>1. a * b \in Int /\ b * a <= a * b /\ a * b < b * a + b
  OBVIOUS
<1> QED
  BY <1>1, DivUnique

(* and one of which a common factor is cancelled. *)
LEMMA DivCancel ==
  ASSUME NEW n \in Int, NEW q \in Nat, q > 0, NEW d \in Nat, d > 0
  PROVE  (n * d) \div (q * d) = n \div q
<1>1. PICK e \in Int : e = n \div q
  OBVIOUS
<1>2. q * e <= n /\ n < q * e + q
  BY <1>1, DivBounds
<1>3. PICK x \in Int : x = q * e
  OBVIOUS
<1>4. x * d <= n * d
  BY <1>2, <1>3, TimesMonotone
<1>5. (n + 1) * d <= (x + q) * d
  <2>1. n + 1 <= x + q /\ n + 1 \in Int /\ x + q \in Int
    BY <1>2, <1>3
  <2> QED
    BY <2>1, TimesMonotone
<1>6. PICK b \in Nat : b = q * d
  OBVIOUS
<1>7. b > 0
  BY <1>6
<1>8. x * d = b * e
  BY <1>3, <1>6
<1>9. (x + q) * d = x * d + b
  BY <1>6
<1>10. (n + 1) * d = n * d + d
  OBVIOUS
<1>11. b * e \in Int /\ n * d \in Int /\ x * d \in Int
  OBVIOUS
<1>12. b * e <= n * d /\ n * d < b * e + b
  BY <1>4, <1>5, <1>6, <1>8, <1>9, <1>10, <1>11
<1> QED
  BY <1>1, <1>6, <1>7, <1>11, <1>12, DivUnique

(* A whole number of samples in each frame. *)
Each(r, q) == q \in Nat /\ q > 0 /\ r.num \in Nat /\ r.den \in Nat /\ r.den > 0 /\ r.num = q * r.den

(* If one frame lasts for a whole number of samples, so does each. *)
LEMMA WholeRate ==
  ASSUME NEW r \in Rates, Whole(r, 1)
  PROVE  \E q \in Nat : Each(r, q)
<1>1. r.num \in Nat /\ r.den \in Nat /\ r.num > 0 /\ r.den > 0 /\ r.num >= r.den
  BY EditingAssumption
<1>2. PICK n \in Nat, d \in Nat : n = r.num /\ d = r.den
  BY <1>1
<1>3. (1 * n) % d = 0
  BY <1>2 DEF Whole
<1>4. n % d = 0
  BY <1>3
<1>5. PICK q \in Int : q = n \div d
  BY <1>1, <1>2
<1>6. n = q * d
  <2>1. d > 0
    BY <1>1, <1>2
  <2>2. n = d * (n \div d) + (n % d)
    BY <2>1
  <2>3. n = d * q
    BY <1>4, <1>5, <2>2
  <2> QED
    BY <2>3
<1>7. q > 0
  <2>1. CASE q <= 0
    <3>1. q * d <= 0 * d
      BY <2>1, TimesMonotone
    <3> QED
      BY <1>1, <1>2, <1>6, <3>1
  <2> QED
    BY <2>1
<1> QED
  BY <1>1, <1>2, <1>6, <1>7 DEF Each

(* Then f frames last for f * q samples, *)
LEMMA SamplesEach ==
  ASSUME NEW r, NEW q, Each(r, q), NEW f \in Int
  PROVE  Samples(r, f) = f * q
<1>1. PICK d \in Nat : d = r.den
  BY DEF Each
<1>2. q \in Nat /\ d > 0 /\ r.num = q * d
  BY <1>1 DEF Each
<1>3. f * r.num = (f * q) * d
  BY <1>2
<1>4. f * q \in Int
  BY <1>2
<1> QED
  BY <1>1, <1>2, <1>3, <1>4, DivExact DEF Samples

(* and n samples for n div q frames. *)
LEMMA FramesEach ==
  ASSUME NEW q, Each(rate, q), NEW n \in Nat
  PROVE  Frames(n) = n \div q
<1>1. PICK d \in Nat : d = rate.den
  BY DEF Each
<1>2. q \in Nat /\ d > 0 /\ q > 0 /\ rate.num = q * d
  BY <1>1 DEF Each
<1>3. n * d \in Nat
  OBVIOUS
<1>4. Frames(n) = (n * d) \div (q * d)
  BY <1>1, <1>2, <1>3 DEF Frames, Quotient
<1> QED
  BY <1>2, <1>4, DivCancel

(* One frame lasts for q samples. *)
LEMMA SpanOfOne ==
  ASSUME NEW q, Each(rate, q)
  PROVE  Span(1) = q
<1>1. PICK d \in Nat : d = rate.den
  BY DEF Each
<1>2. q \in Nat /\ d > 0 /\ q > 0 /\ rate.num = q * d
  BY <1>1 DEF Each
<1>3. q * d \in Nat /\ 1 * (q * d) = q * d
  BY <1>2
<1>4. Span(1) = (q * d) \div d
  BY <1>1, <1>2, <1>3 DEF Span, Quotient
<1> QED
  BY <1>2, <1>4, DivExact

(* KeptSound's choices. *)
StartFrame(r, i)   == CHOOSE f \in 0 .. i : Samples(r, f) <= i /\ Samples(r, f + 1) > i
LongEnough(r, i, j) ==
  CHOOSE f \in 0 .. j : Samples(r, f) >= j - i /\ \A g \in 0 .. f - 1 : Samples(r, g) < j - i

(* The first frame of a sample is the one that KeptSound chooses. *)
LEMMA StartIs ==
  ASSUME NEW r, NEW q, Each(r, q), NEW i \in Nat
  PROVE  StartFrame(r, i) = i \div q
<1>1. q \in Nat /\ q > 0
  BY DEF Each
<1>2. PICK e \in Int : e = i \div q
  BY <1>1
<1>3. q * e <= i /\ i < q * e + q
  BY <1>1, <1>2, DivBounds
<1>4. e \in 0 .. i
  <2>1. CASE e < 0
    <3>1. (e + 1) * q <= 0 * q
      BY <1>1, <2>1, TimesMonotone
    <3>2. (e + 1) * q = q * e + q
      BY <1>1
    <3> QED
      BY <1>1, <1>3, <3>1, <3>2
  <2>2. CASE e > i
    <3>1. (i + 1) * q <= e * q
      BY <1>1, <2>2, TimesMonotone
    <3>2. (i + 1) * 1 <= (i + 1) * q
      BY <1>1
    <3> QED
      BY <1>1, <1>3, <3>1, <3>2
  <2> QED
    BY <2>1, <2>2
<1>5. ASSUME NEW f \in 0 .. i PROVE (Samples(r, f) <= i /\ Samples(r, f + 1) > i) <=> f = e
  <2>1. Samples(r, f) = f * q /\ Samples(r, f + 1) = (f + 1) * q
    BY SamplesEach
  <2>2. f * q = q * f /\ (f + 1) * q = q * f + q /\ q * f \in Int
    BY <1>1
  <2>3. ASSUME q * f <= i, i < q * f + q PROVE f = e
    BY <1>1, <1>2, <2>3, DivUnique
  <2> QED
    BY <1>1, <1>3, <2>1, <2>2, <2>3
<1>6. (CHOOSE f \in 0 .. i : Samples(r, f) <= i /\ Samples(r, f + 1) > i) = e
  BY <1>4, <1>5
<1> QED
  BY <1>2, <1>6 DEF StartFrame

(* So is the number of frames that hold the samples kept. *)
LEMMA EnoughIs ==
  ASSUME NEW r, NEW q, Each(r, q), NEW i \in Nat, NEW j \in Nat, i <= j
  PROVE  LongEnough(r, i, j) = (j - i + q - 1) \div q
<1>1. q \in Nat /\ q > 0
  BY DEF Each
<1>0. PICK k \in Nat : k = j - i
  OBVIOUS
<1>2. PICK e \in Int : e = (k + q - 1) \div q
  BY <1>1
<1>3. q * e <= k + q - 1 /\ k + q - 1 < q * e + q
  BY <1>1, <1>2, DivBounds
<1>4. e \in 0 .. j
  <2>1. CASE e < 0
    <3>1. (e + 1) * q <= 0 * q
      BY <1>1, <2>1, TimesMonotone
    <3>2. (e + 1) * q = q * e + q
      BY <1>1
    <3> QED
      BY <1>1, <1>3, <3>1, <3>2
  <2>2. CASE e > j
    <3>1. (k + 1) * q <= e * q
      BY <1>0, <1>1, <2>2, TimesMonotone
    <3>2. (k + 1) * q = k * q + q /\ k * 1 <= k * q
      BY <1>1
    <3> QED
      BY <1>1, <1>3, <3>1, <3>2
  <2> QED
    BY <2>1, <2>2
<1>5. ASSUME NEW g \in Int PROVE Samples(r, g) >= k <=> g >= e
  <2>1. Samples(r, g) = g * q
    BY SamplesEach
  <2>2. CASE g >= e
    <3>1. e * q <= g * q
      BY <1>1, <2>2, TimesMonotone
    <3>2. e * q = q * e
      BY <1>1
    <3> QED
      BY <1>1, <1>3, <2>1, <2>2, <3>1, <3>2
  <2>3. CASE g < e
    <3>1. (g + 1) * q <= e * q
      BY <1>1, <2>3, TimesMonotone
    <3>2. e * q = q * e /\ (g + 1) * q = g * q + q
      BY <1>1
    <3> QED
      BY <1>1, <1>3, <2>1, <2>3, <3>1, <3>2
  <2> QED
    BY <2>2, <2>3
<1>50. \A g \in Int : Samples(r, g) < k <=> g < e
  <2>1. ASSUME NEW g \in Int PROVE Samples(r, g) < k <=> g < e
    <3>1. Samples(r, g) \in Int
      BY <1>1, SamplesEach
    <3> QED
      BY <1>5, <3>1
  <2> QED
    BY <2>1
<1>6. ASSUME NEW f \in 0 .. j PROVE (Samples(r, f) >= k /\ \A g \in 0 .. f - 1 : Samples(r, g) < k) <=> f = e
  <2>1. CASE f < e
    BY <1>5, <2>1
  <2>2. CASE f > e
    <3>1. e \in 0 .. f - 1 /\ ~(Samples(r, e) < k)
      BY <1>4, <1>50, <2>2
    <3> QED
      BY <2>2, <3>1
  <2>3. CASE f = e
    BY <1>5, <1>50, <2>3
  <2> QED
    BY <1>2, <2>1, <2>2, <2>3
<1>7. (CHOOSE f \in 0 .. j : Samples(r, f) >= k /\ \A g \in 0 .. f - 1 : Samples(r, g) < k) = e
  BY <1>4, <1>6
<1>8. LongEnough(r, i, j) = e
  BY <1>0, <1>7 DEF LongEnough
<1> QED
  BY <1>0, <1>2, <1>8

-----------------------------------------------------------------------------
(* A filter that shows another's frames from some frame on. *)
Shifts(G, K, k, i) == \A n \in Int : G[K][n] = G[k][n + i]

(* A filter that skips some frames shows the rest of the list. *)
LEMMA CutShows ==
  ASSUME NEW G, NEW k, NEW v, NEW s, ShowsList(G, k, v, s), NEW i \in Int, NEW j \in Int,
         0 <= i, i <= j, j <= Len(s), NEW w, w.frames = j - i, NEW K, Shifts(G, K, k, i)
  PROVE  ShowsList(G, K, w, Cut(s, i, j))
<1>1. Listed(s) /\ v.frames = Len(s) /\ Len(s) \in Nat
      /\ \A n \in 1 .. Len(s) : G[k][n - 1] = s[n]
  BY DEF ShowsList, Listed
<1>2. PICK u : u = Cut(s, i, j)
  OBVIOUS
<1>3. IsCut(u, s, i, j)
  BY <1>1, <1>2, CutList
<1>4. /\ Listed(u) /\ Len(u) = j - i
      /\ \A n \in 1 .. j - i : u[n] = s[n + i]
  BY <1>3 DEF IsCut
<1>5. ASSUME NEW n \in 1 .. j - i PROVE G[K][n - 1] = u[n]
  <2>1. n + i \in 1 .. Len(s) /\ (n - 1) + i = (n + i) - 1
    BY <1>1
  <2>2. G[K][n - 1] = G[k][(n - 1) + i]
    <3>1. n - 1 \in Int
      BY <1>1
    <3> QED
      BY <3>1 DEF Shifts
  <2> QED
    BY <1>1, <1>4, <2>1, <2>2
<1>6. ShowsList(G, K, w, u)
  BY <1>4, <1>5 DEF ShowsList
<1> QED
  BY <1>2, <1>6

KeptTo(u, m, r, first, upto) ==
  /\ u.video = m.video /\ IsClip(u) /\ u.frames = Cut(m.frames, first, upto)
  /\ "frames" \notin u.loose =>
       "frames" \notin m.loose /\ Whole(r, 1) /\ ~(upto > Len(m.frames)) /\ ~(first > upto)

(* What is expected of AudioTrim, as far as its frames go. *)
LEMMA KeptSoundIs ==
  ASSUME NEW m, NEW r, NEW i, NEW j, NEW rest, i <= j,
         NEW u, u = KeptSound(m, r, i, j, rest),
         NEW a, a = StartFrame(r, i), NEW upto, upto = IF rest THEN Len(m.frames) ELSE a + LongEnough(r, i, j)
  PROVE  KeptTo(u, m, r, a, upto)
<1>0. u = Clip(m.video,
               Cut(m.frames, StartFrame(r, i),
                   IF rest THEN Len(m.frames) ELSE StartFrame(r, i) + LongEnough(r, i, j)),
               Cut(m.sound, i, j), m.loose \cup
               Loose(\/ ~Whole(r, 1)
                     \/ (IF rest THEN Len(m.frames) ELSE StartFrame(r, i) + LongEnough(r, i, j)) > Len(m.frames)
                     \/ StartFrame(r, i)
                          > (IF rest THEN Len(m.frames) ELSE StartFrame(r, i) + LongEnough(r, i, j)),
                     {"frames"}), FALSE)
  BY Zenon DEF KeptSound, StartFrame, LongEnough
<1>1. u = Clip(m.video, Cut(m.frames, a, upto), Cut(m.sound, i, j), m.loose \cup
               Loose(~Whole(r, 1) \/ upto > Len(m.frames) \/ a > upto, {"frames"}), FALSE)
  BY Zenon, <1>0
<1>2. PICK s, l : /\ u = Clip(m.video, Cut(m.frames, a, upto), s, m.loose \cup l, FALSE)
                  /\ l = Loose(~Whole(r, 1) \/ upto > Len(m.frames) \/ a > upto, {"frames"})
  BY Zenon, <1>1
<1>3. u.video = m.video /\ u.frames = Cut(m.frames, a, upto) /\ u.loose = m.loose \cup l /\ IsClip(u)
  BY <1>2 DEF Clip, IsClip
<1> QED
  BY <1>2, <1>3 DEF KeptTo, Loose

(* AudioTrim shows the frames that its samples belong to. *)
LEMMA AudioTrimShows ==
  ASSUME ShowsInv, NEW mode \in Modes, NEW from \in Int, NEW till \in Int, AudioTrim(mode, from, till)
  PROVE  ShowsInv'
<1> DEFINE offset == Clamp(from, 0, vi.samples)
           end    == CASE mode = "Default" /\ till = 0 -> vi.samples
                       [] mode = "Default" /\ till < 0 -> from - till
                       [] mode = "Length"              -> from + till
                       [] OTHER                        -> till
           rest   == mode = "Default" /\ till = 0
           stop   == Least(end, vi.samples)
           kept   == Most(stop - offset, 0)
           first  == IF vi.video THEN Frames(offset) ELSE 0
           frames == IF rest THEN vi.frames - first
                     ELSE IF vi.video THEN Frames(kept + Span(1) - 1) ELSE 0
           f == [kind |-> "Trim", of |-> Top, vi |-> Info(vi.video, Most(frames, 0), kept),
                 cached |-> FALSE, first |-> first, offset |-> offset]
           means == KeptSound(meant, rate, offset, stop, rest)
<1>1. Made(<<f>>, means)
  BY DEF AudioTrim
<1>2. /\ vi.frames \in Int /\ vi.samples \in Int /\ vi.video \in BOOLEAN /\ Top \in Nat /\ rate \in Rates
      /\ Top >= 2 /\ Right(GetFrame, Top, vi, meant)
  BY Known
<1>3. offset \in Nat
  BY <1>2 DEF Clamp
<1>4. stop \in Int /\ kept \in Nat
  <2>1. end \in Int
    BY <1>2 DEF Modes
  <2> HIDE DEF end
  <2>2. stop \in Int
    BY <1>2, <2>1 DEF Least
  <2> HIDE DEF stop
  <2> QED
    BY <1>3, <2>2 DEF Most
<1> HIDE DEF offset, end, stop
<1>5. first \in Int /\ frames \in Int
  <2>1. first \in Int
    BY <1>2, <1>3, SpanIsInt
  <2>2. Span(1) \in Int
    BY <1>2, SpanIsInt
  <2>3. kept + Span(1) - 1 \in Int
    BY <1>4, <2>2
  <2>4. Frames(kept + Span(1) - 1) \in Int
    <3> HIDE DEF kept
    <3> QED
      BY <1>2, <2>3, SpanIsInt
  <2> HIDE DEF first, kept
  <2> QED
    BY <1>2, <2>1, <2>4
<1> HIDE DEF kept
<1>6. /\ f.kind = "Trim" /\ f.of = Top /\ f.cached = FALSE /\ f.first = first
      /\ f.vi.video = vi.video /\ f.vi.frames = Most(frames, 0) /\ Typed(f.vi)
  BY <1>2, <1>4, <1>5 DEF Info, Typed, Most
<1> HIDE DEF f, means
<1>7. Fits(f, Top + 1)
  BY <1>2, <1>6 DEF Fits, Kinds, Joins
<1>8. IsClip(meant) /\ meant.video = vi.video
  BY <1>2 DEF Right, IsClip
<1>9. ASSUME NEW G, Extends(G, f) PROVE Right(G, Top + 1, f.vi, means)
  <2>0. PICK m, r, u, all : m = meant /\ r = rate /\ u = means /\ all = rest
    OBVIOUS
  <2>1. PICK i \in Nat, j \in Int : i = offset /\ j = stop
    BY <1>3, <1>4
  <2>2. u = KeptSound(m, r, i, j, all) /\ Right(G, Top, vi, m) /\ IsClip(m) /\ m.video = vi.video
    BY <1>2, <1>8, <1>9, <2>0, <2>1, StillRight DEF means
  <2>3. CASE ~(i <= j)
    <3>1. u = [m EXCEPT !.loose = Both]
      BY <2>2, <2>3 DEF KeptSound
    <3>2. Right(G, Top + 1, f.vi, u)
      BY <1>6, <2>2, <3>1, LooseRight
    <3> QED
      BY <2>0, <3>2
  <2>4. CASE i <= j
    <3>1. PICK a, n, upto :
            /\ a = StartFrame(r, i) /\ n = LongEnough(r, i, j)
            /\ upto = IF all THEN Len(m.frames) ELSE a + n
      OBVIOUS
    <3>2. KeptTo(u, m, r, a, upto)
      BY <2>2, <2>4, <3>1, KeptSoundIs
    <3>3. u.video = m.video /\ IsClip(u) /\ u.frames = Cut(m.frames, a, upto)
      BY <3>2 DEF KeptTo
    <3>4. ASSUME vi.video, "frames" \notin u.loose
          PROVE  ShowsList(G, Top + 1, f.vi, u.frames)
      <4>1. "frames" \notin m.loose /\ Whole(r, 1) /\ ~(upto > Len(m.frames)) /\ ~(a > upto)
        BY <3>2, <3>4 DEF KeptTo
      <4>2. PICK q \in Nat : Each(r, q)
        BY <1>2, <2>0, <4>1, WholeRate
      <4>3. a = i \div q /\ n = (j - i + q - 1) \div q
        <5>1. i \in Nat /\ j \in Nat
          BY <2>1, <2>4
        <5>2. StartFrame(r, i) = i \div q
          BY <4>2, <5>1, StartIs
        <5>3. LongEnough(r, i, j) = (j - i + q - 1) \div q
          BY <2>4, <4>2, <5>1, EnoughIs
        <5> QED
          BY <3>1, <5>2, <5>3
      <4>4. q > 0
        BY <4>2 DEF Each
      <4>5. a \in Int /\ n \in Int
        BY <2>1, <4>3, <4>4
      <4>6. a >= 0 /\ n >= 0
        <5>1. ASSUME NEW x \in Nat PROVE x \div q >= 0
          BY <4>4
        <5>2. j - i + q - 1 \in Nat
          BY <2>1, <2>4, <4>4
        <5> QED
          BY <4>3, <5>1, <5>2
      <4>7. first = a
        BY <2>0, <2>1, <3>4, <4>2, <4>3, FramesEach DEF first
      <4>8. PICK s : s = m.frames
        OBVIOUS
      <4>9. ShowsList(G, Top, vi, s)
        BY <2>2, <3>4, <4>1, <4>8 DEF Right, ShowsList
      <4>10. Len(s) \in Nat /\ vi.frames = Len(s)
        BY <4>9 DEF ShowsList, Listed
      <4>11. upto \in Int /\ a <= upto /\ upto <= Len(s)
        BY <3>1, <4>1, <4>5, <4>8, <4>10
      <4>12. frames = upto - a
        <5>1. CASE all
          BY <2>0, <3>1, <4>7, <4>8, <4>10, <5>1
        <5>2. CASE ~all
          <6>1. kept = j - i
            BY <2>1, <2>4, <1>3 DEF kept, Most
          <6>2. Span(1) = q
            BY <2>0, <4>2, SpanOfOne
          <6>3. PICK x \in Nat : x = kept + Span(1) - 1 /\ x = j - i + q - 1
            BY <2>1, <2>4, <4>4, <6>1, <6>2
          <6>4. Frames(x) = n
            BY <2>0, <4>2, <4>3, <6>3, FramesEach
          <6>5. frames = Frames(kept + Span(1) - 1)
            BY <2>0, <3>4, <5>2
          <6>6. Frames(kept + Span(1) - 1) = Frames(x)
            BY <6>3
          <6>7. frames = n
            BY <6>4, <6>5, <6>6
          <6> QED
            BY <3>1, <4>5, <5>2, <6>7
        <5> QED
          BY <5>1, <5>2
      <4>13. f.vi.frames = upto - a
        BY <1>6, <4>5, <4>11, <4>12 DEF Most
      <4>14. Shifts(G, Top + 1, Top, a)
        <5>1. ASSUME NEW x \in Int PROVE Shown(G, f, x) = G[Top][x + a]
          BY <1>6, <4>7 DEF Shown, OfTrim
        <5> QED
          BY <1>9, <5>1 DEF Extends, Shifts
      <4>15. ShowsList(G, Top + 1, f.vi, Cut(s, a, upto))
        BY <4>5, <4>6, <4>9, <4>11, <4>13, <4>14, CutShows
      <4> QED
        BY <3>3, <4>8, <4>15
    <3>5. Right(G, Top + 1, f.vi, u)
      BY <1>6, <2>2, <3>3, <3>4, ListRight
    <3> QED
      BY <2>0, <3>5
  <2> QED
    BY <2>1, <2>3, <2>4
<1> QED
  BY <1>1, <1>7, <1>9, MadeOne

-----------------------------------------------------------------------------
(* Carrying a number along a list. *)
First(x) == [list |-> <<>>, x |-> x, same |-> FALSE]

IsPassing(Q, l, x, unique) ==
  Q = [j \in 0 .. Len(l) |-> IF j = 0 THEN First(x) ELSE Pass(Q[j - 1], l[j], unique)]
Passing(l, x, unique) == CHOOSE Q : IsPassing(Q, l, x, unique)

(* There is such a function. *)
LEMMA PassingExists ==
  ASSUME NEW l, Listed(l), NEW x, NEW unique
  PROVE  IsPassing(Passing(l, x, unique), l, x, unique)
<1> DEFINE Is(Q, m) == Q = [j \in 0 .. m |-> IF j = 0 THEN First(x) ELSE Pass(Q[j - 1], l[j], unique)]
           S == {m \in 0 .. Len(l) : \E Q : Is(Q, m)}
<1>0. Len(l) \in Nat
  BY DEF Listed
<1>1. 0 \in S
  <2>1. Is([j \in 0 .. 0 |-> First(x)], 0)
    OBVIOUS
  <2>2. \E Q : Is(Q, 0)
    <3> HIDE DEF Is
    <3> QED
      BY <2>1
  <2> HIDE DEF Is
  <2> QED
    BY <1>0, <2>2
<1>2. ASSUME NEW m \in 0 .. Len(l) - 1, m \in S PROVE m + 1 \in S
  <2>0. m \in Nat
    BY <1>0
  <2>1. PICK Q : Is(Q, m)
    BY <1>2
  <2> DEFINE H == [j \in 0 .. m + 1 |-> IF j <= m THEN Q[j] ELSE Pass(Q[m], l[m + 1], unique)]
  <2>2. ASSUME NEW j \in 0 .. m + 1
        PROVE  H[j] = IF j = 0 THEN First(x) ELSE Pass(H[j - 1], l[j], unique)
    <3>1. CASE j = 0
      <4>1. H[j] = Q[j] /\ Q[j] = First(x)
        BY <2>0, <2>1, <3>1
      <4> QED
        BY <3>1, <4>1
    <3>2. CASE j # 0 /\ j <= m
      <4>1. H[j] = Q[j] /\ H[j - 1] = Q[j - 1]
        BY <2>0, <3>2
      <4>2. Q[j] = Pass(Q[j - 1], l[j], unique)
        BY <2>0, <2>1, <3>2
      <4> HIDE DEF H
      <4> QED
        BY <3>2, <4>1, <4>2
    <3>3. CASE j = m + 1
      <4>1. H[j] = Pass(Q[m], l[m + 1], unique) /\ H[j - 1] = Q[m] /\ j # 0
        BY <2>0, <3>3
      <4> HIDE DEF H
      <4> QED
        BY <3>3, <4>1
    <3> QED
      BY <2>0, <3>1, <3>2, <3>3
  <2>3. Is(H, m + 1)
    <3>1. H = [j \in 0 .. m + 1 |-> H[j]]
      OBVIOUS
    <3> HIDE DEF H
    <3> QED
      BY <2>2, <3>1
  <2>4. \E K : Is(K, m + 1)
    <3> HIDE DEF Is, H
    <3> QED
      BY <2>3
  <2> QED
    BY <1>0, <2>4
<1>3. \A m \in 0 .. Len(l) : m \in S
  <2> HIDE DEF S
  <2> QED
    BY <1>0, <1>1, <1>2, NumbersUpTo
<1>4. \E Q : IsPassing(Q, l, x, unique)
  BY <1>0, <1>3 DEF IsPassing
<1> QED
  BY <1>4 DEF Passing

Carried(sorted, x, unique) == Passing(sorted.list, x, unique)[Len(sorted.list)]

(* Insert, in terms of it. *)
LEMMA InsertIs ==
  ASSUME NEW sorted, NEW x, NEW unique
  PROVE  Insert(sorted, x, unique)
           = [list |-> Append(Carried(sorted, x, unique).list, Carried(sorted, x, unique).x),
              n    |-> sorted.n - (IF Carried(sorted, x, unique).same THEN 1 ELSE 0)]
BY DEF Insert, Carried, Passing, IsPassing, First

(* Numbers inserted one after the other. *)
IsUpto(U, list, unique) ==
  U = [i \in 0 .. Len(list) |-> IF i = 0 THEN [list |-> <<>>, n |-> Len(list)]
                                ELSE Insert(U[i - 1], list[i], unique)]
Upto(list, unique) == CHOOSE U : IsUpto(U, list, unique)

(* There is such a function, too. *)
LEMMA UptoExists ==
  ASSUME NEW list, Listed(list), NEW unique
  PROVE  IsUpto(Upto(list, unique), list, unique)
<1> DEFINE Is(Q, m) == Q = [j \in 0 .. m |->
                              IF j = 0 THEN [list |-> <<>>, n |-> Len(list)]
                              ELSE Insert(Q[j - 1], list[j], unique)]
           S == {m \in 0 .. Len(list) : \E Q : Is(Q, m)}
<1>0. Len(list) \in Nat
  BY DEF Listed
<1>1. 0 \in S
  <2>1. Is([j \in 0 .. 0 |-> [list |-> <<>>, n |-> Len(list)]], 0)
    OBVIOUS
  <2>2. \E Q : Is(Q, 0)
    <3> HIDE DEF Is
    <3> QED
      BY <2>1
  <2> HIDE DEF Is
  <2> QED
    BY <1>0, <2>2
<1>2. ASSUME NEW m \in 0 .. Len(list) - 1, m \in S PROVE m + 1 \in S
  <2>0. m \in Nat
    BY <1>0
  <2>1. PICK Q : Is(Q, m)
    BY <1>2
  <2> DEFINE H == [j \in 0 .. m + 1 |-> IF j <= m THEN Q[j] ELSE Insert(Q[m], list[m + 1], unique)]
  <2>2. ASSUME NEW j \in 0 .. m + 1
        PROVE  H[j] = IF j = 0 THEN [list |-> <<>>, n |-> Len(list)] ELSE Insert(H[j - 1], list[j], unique)
    <3>1. CASE j = 0
      <4>1. H[j] = Q[j] /\ Q[j] = [list |-> <<>>, n |-> Len(list)]
        BY <2>0, <2>1, <3>1
      <4> QED
        BY <3>1, <4>1
    <3>2. CASE j # 0 /\ j <= m
      <4>1. H[j] = Q[j] /\ H[j - 1] = Q[j - 1]
        BY <2>0, <3>2
      <4>2. Q[j] = Insert(Q[j - 1], list[j], unique)
        BY <2>0, <2>1, <3>2
      <4> HIDE DEF H
      <4> QED
        BY <3>2, <4>1, <4>2
    <3>3. CASE j = m + 1
      <4>1. H[j] = Insert(Q[m], list[m + 1], unique) /\ H[j - 1] = Q[m] /\ j # 0
        BY <2>0, <3>3
      <4> HIDE DEF H
      <4> QED
        BY <3>3, <4>1
    <3> QED
      BY <2>0, <3>1, <3>2, <3>3
  <2>3. Is(H, m + 1)
    <3>1. H = [j \in 0 .. m + 1 |-> H[j]]
      OBVIOUS
    <3> HIDE DEF H
    <3> QED
      BY <2>2, <3>1
  <2>4. \E K : Is(K, m + 1)
    <3> HIDE DEF Is, H
    <3> QED
      BY <2>3
  <2> QED
    BY <1>0, <2>4
<1>3. \A m \in 0 .. Len(list) : m \in S
  <2> HIDE DEF S
  <2> QED
    BY <1>0, <1>1, <1>2, NumbersUpTo
<1>4. \E Q : IsUpto(Q, list, unique)
  BY <1>0, <1>3 DEF IsUpto
<1> QED
  BY <1>4 DEF Upto

(* Sorted, in terms of it. *)
LEMMA SortedIs ==
  ASSUME NEW list, NEW unique
  PROVE  Sorted(list, unique) = Upto(list, unique)[Len(list)]
BY DEF Sorted, Upto, IsUpto

-----------------------------------------------------------------------------
IsAppend(u, s, a) ==
  Listed(u) /\ Len(u) = Len(s) + 1 /\ (\A k \in 1 .. Len(s) : u[k] = s[k]) /\ u[Len(s) + 1] = a

(* A list with one item appended. *)
LEMMA Appended ==
  ASSUME NEW s, Listed(s), NEW a
  PROVE  IsAppend(Append(s, a), s, a)
<1>1. Len(Append(s, a)) = Len(s) + 1 /\ DOMAIN Append(s, a) = 1 .. Len(s) + 1
  BY DEF Listed
<1>2. Len(s) + 1 \in Nat
  BY DEF Listed
<1>3. \A k \in 1 .. Len(s) : Append(s, a)[k] = s[k]
  BY DEF Listed
<1>4. Append(s, a)[Len(s) + 1] = a
  BY DEF Listed
<1> QED
  BY <1>1, <1>2, <1>3, <1>4 DEF Listed, IsAppend

(* What is done with one number of the list. *)
Stays(d, c, y)  == d.list = Append(c.list, y) /\ d.x = c.x /\ (d.same <=> c.same)
Swaps(d, c, y)  == d.list = Append(c.list, c.x) /\ d.x = y /\ (d.same <=> c.same)
Repeats1(d, c, y) == d.list = Append(c.list, y) /\ d.x = INT_MAX /\ d.same

(* A greater number stays carried, and the one met stays where it is. *)
LEMMA PassStays ==
  ASSUME NEW c, NEW y, NEW unique, ~(c.x < y), ~(unique /\ ~c.same /\ c.x = y)
  PROVE  Stays(Pass(c, y, unique), c, y)
BY DEF Pass, Stays

(* A smaller one is put down, and the one met is carried on. *)
LEMMA PassSwaps ==
  ASSUME NEW c, NEW y, NEW unique, c.x < y, c.x # y
  PROVE  Swaps(Pass(c, y, unique), c, y)
BY DEF Pass, Swaps

(* One that meets its like is dropped, and INT_MAX is carried on. *)
LEMMA PassRepeats ==
  ASSUME NEW c, NEW y, NEW unique, unique, ~c.same, c.x = y
  PROVE  Repeats1(Pass(c, y, unique), c, y)
BY DEF Pass, Repeats1

(* A list of numbers, and where a new one belongs in it. *)
Integers(l) == Listed(l) /\ \A i \in 1 .. Len(l) : l[i] \in Int

Belongs(l, x, p, unique) ==
  /\ Integers(l) /\ x \in Int /\ p \in 0 .. Len(l)
  /\ \A i \in 1 .. p : l[i] < x \/ (~unique /\ l[i] = x)
  /\ \A i \in p + 1 .. Len(l) : x < l[i]
  /\ \A i \in p + 1 .. Len(l) - 1 : l[i] < l[i + 1] \/ (~unique /\ l[i] = l[i + 1])

Placed(l, x, p, i) == IF i <= p THEN l[i] ELSE IF i = p + 1 THEN x ELSE l[i - 1]

CarriesNew(c, l, x, p, j) ==
  /\ Listed(c.list) /\ Len(c.list) = j /\ ~c.same
  /\ c.x = (IF j <= p THEN x ELSE l[j])
  /\ \A i \in 1 .. j : c.list[i] = Placed(l, x, p, i)

(* At the end of the list what is carried is put down. *)
LEMMA AppendPlaced ==
  ASSUME NEW u, NEW s, NEW a, NEW l, NEW x, NEW p, NEW j \in Nat, IsAppend(u, s, a), Len(s) = j,
         \A i \in 1 .. j : s[i] = Placed(l, x, p, i), a = Placed(l, x, p, j + 1)
  PROVE  Listed(u) /\ Len(u) = j + 1 /\ \A i \in 1 .. j + 1 : u[i] = Placed(l, x, p, i)
<1>1. ASSUME NEW i \in 1 .. j + 1 PROVE u[i] = Placed(l, x, p, i)
  <2>1. CASE i <= j
    BY <2>1 DEF IsAppend
  <2>2. CASE i = j + 1
    BY <2>2 DEF IsAppend
  <2> QED
    BY <2>1, <2>2
<1> QED
  BY <1>1 DEF IsAppend

(* One more item of the list is passed. *)
LEMMA NewCarriedOn ==
  ASSUME NEW l, NEW x, NEW p, NEW unique, Belongs(l, x, p, unique), NEW j \in Nat, j < Len(l),
         NEW c, CarriesNew(c, l, x, p, j)
  PROVE  CarriesNew(Pass(c, l[j + 1], unique), l, x, p, j + 1)
<1>1. PICK d, y : d = Pass(c, y, unique) /\ y = l[j + 1]
  OBVIOUS
<1>2. /\ Len(l) \in Nat /\ x \in Int /\ p \in Nat /\ p <= Len(l) /\ \A i \in 1 .. Len(l) : l[i] \in Int
  BY DEF Belongs, Integers, Listed
<1>3. y \in Int
  BY <1>1, <1>2
<1>4. Listed(c.list) /\ Len(c.list) = j /\ ~c.same
      /\ \A i \in 1 .. j : c.list[i] = Placed(l, x, p, i)
  BY DEF CarriesNew
<1>5. c.x = IF j <= p THEN x ELSE l[j]
  BY DEF CarriesNew
<1>6. CASE j < p
  <2>1. c.x = x
    BY <1>2, <1>5, <1>6
  <2>2. y < x \/ (~unique /\ y = x)
    <3>1. j + 1 \in 1 .. p
      BY <1>2, <1>6
    <3> QED
      BY <1>1, <3>1 DEF Belongs
  <2>3. Stays(d, c, y)
    <3>1. ~(c.x < y) /\ ~(unique /\ ~c.same /\ c.x = y)
      BY <1>2, <1>3, <2>1, <2>2
    <3> QED
      BY <1>1, <3>1, PassStays
  <2>4. IsAppend(d.list, c.list, y) /\ ~d.same /\ d.x = x
    BY <1>4, <2>1, <2>3, Appended DEF Stays
  <2>5. y = Placed(l, x, p, j + 1)
    BY <1>1, <1>2, <1>6 DEF Placed
  <2>6. Listed(d.list) /\ Len(d.list) = j + 1 /\ \A i \in 1 .. j + 1 : d.list[i] = Placed(l, x, p, i)
    BY <1>4, <2>4, <2>5, AppendPlaced
  <2> QED
    BY <1>1, <1>2, <1>6, <2>4, <2>6 DEF CarriesNew
<1>7. CASE j = p
  <2>1. c.x = x
    BY <1>2, <1>5, <1>7
  <2>2. x < y
    <3>1. j + 1 \in p + 1 .. Len(l)
      BY <1>2, <1>7
    <3> QED
      BY <1>1, <3>1 DEF Belongs
  <2>3. Swaps(d, c, y)
    <3>1. c.x < y /\ c.x # y
      BY <1>2, <1>3, <2>1, <2>2
    <3> QED
      BY <1>1, <3>1, PassSwaps
  <2>4. IsAppend(d.list, c.list, x) /\ ~d.same /\ d.x = y
    BY <1>4, <2>1, <2>3, Appended DEF Swaps
  <2>5. x = Placed(l, x, p, j + 1)
    BY <1>2, <1>7 DEF Placed
  <2>6. Listed(d.list) /\ Len(d.list) = j + 1 /\ \A i \in 1 .. j + 1 : d.list[i] = Placed(l, x, p, i)
    BY <1>4, <2>4, <2>5, AppendPlaced
  <2> QED
    BY <1>1, <1>2, <1>7, <2>4, <2>6 DEF CarriesNew
<1>8. CASE j > p
  <2>1. c.x = l[j] /\ l[j] \in Int
    BY <1>2, <1>5, <1>8
  <2>2. l[j] < y \/ (~unique /\ l[j] = y)
    <3>1. j \in p + 1 .. Len(l) - 1
      BY <1>2, <1>8
    <3> QED
      BY <1>1, <3>1 DEF Belongs
  <2>3. d.list = Append(c.list, c.x) /\ d.x = y /\ ~d.same
    <3>1. CASE l[j] < y
      <4>1. c.x < y /\ c.x # y
        BY <1>3, <2>1, <3>1
      <4>2. Swaps(d, c, y)
        BY <1>1, <4>1, PassSwaps
      <4> QED
        BY <1>4, <4>2 DEF Swaps
    <3>2. CASE ~unique /\ l[j] = y
      <4>1. ~(c.x < y) /\ ~(unique /\ ~c.same /\ c.x = y)
        BY <1>3, <2>1, <3>2
      <4>2. Stays(d, c, y)
        BY <1>1, <4>1, PassStays
      <4> QED
        BY <1>4, <2>1, <3>2, <4>2 DEF Stays
    <3> QED
      BY <2>2, <3>1, <3>2
  <2>4. IsAppend(d.list, c.list, c.x)
    BY <1>4, <2>3, Appended
  <2>5. c.x = Placed(l, x, p, j + 1)
    BY <1>2, <1>8, <2>1 DEF Placed
  <2>6. Listed(d.list) /\ Len(d.list) = j + 1 /\ \A i \in 1 .. j + 1 : d.list[i] = Placed(l, x, p, i)
    BY <1>4, <2>4, <2>5, AppendPlaced
  <2> QED
    BY <1>1, <1>2, <1>8, <2>3, <2>6 DEF CarriesNew
<1> QED
  BY <1>2, <1>6, <1>7, <1>8

-----------------------------------------------------------------------------
(* Item by item. *)
LEMMA PassingSteps ==
  ASSUME NEW l, Listed(l), NEW x, NEW unique, NEW Q, Q = Passing(l, x, unique)
  PROVE  /\ Q[0] = First(x)
         /\ \A j \in 0 .. Len(l) - 1 : Q[j + 1] = Pass(Q[j], l[j + 1], unique)
<1>1. IsPassing(Q, l, x, unique)
  BY PassingExists
<1>2. Q = [j \in 0 .. Len(l) |-> IF j = 0 THEN First(x) ELSE Pass(Q[j - 1], l[j], unique)] /\ Len(l) \in Nat
  BY <1>1 DEF IsPassing, Listed
<1>3. ASSUME NEW j \in 0 .. Len(l) - 1 PROVE Q[j + 1] = Pass(Q[j], l[j + 1], unique)
  <2>1. PICK k \in 0 .. Len(l) : k = j + 1
    BY <1>2
  <2>2. Q[k] = Pass(Q[k - 1], l[k], unique) /\ k - 1 = j
    BY <1>2, <2>1
  <2> QED
    BY <2>1, <2>2
<1> QED
  BY <1>2, <1>3

IsPlaced(u, l, x, p) ==
  Listed(u) /\ Len(u) = Len(l) + 1 /\ \A i \in 1 .. Len(l) + 1 : u[i] = Placed(l, x, p, i)

(* All items are passed. *)
LEMMA NewCarried ==
  ASSUME NEW l, NEW x, NEW p, NEW unique, Belongs(l, x, p, unique)
  PROVE  CarriesNew(Passing(l, x, unique)[Len(l)], l, x, p, Len(l))
<1>0. Listed(l) /\ Len(l) \in Nat /\ p \in Nat
  BY DEF Belongs, Integers, Listed
<1>1. PICK Q : Q = Passing(l, x, unique)
  OBVIOUS
<1>2. Q[0] = First(x) /\ \A j \in 0 .. Len(l) - 1 : Q[j + 1] = Pass(Q[j], l[j + 1], unique)
  BY <1>0, <1>1, PassingSteps
<1> DEFINE S == {j \in 0 .. Len(l) : CarriesNew(Q[j], l, x, p, j)}
<1>3. 0 \in S
  <2>1. CarriesNew(First(x), l, x, p, 0)
    BY <1>0 DEF First, CarriesNew, Listed
  <2> QED
    BY <1>0, <1>2, <2>1
<1>4. ASSUME NEW j \in 0 .. Len(l) - 1, j \in S PROVE j + 1 \in S
  <2>1. CarriesNew(Q[j], l, x, p, j) /\ j \in Nat /\ j < Len(l) /\ j + 1 \in 0 .. Len(l)
    BY <1>0, <1>4
  <2>2. CarriesNew(Pass(Q[j], l[j + 1], unique), l, x, p, j + 1)
    BY <2>1, NewCarriedOn
  <2> QED
    BY <1>2, <2>1, <2>2
<1>5. \A j \in 0 .. Len(l) : j \in S
  <2> HIDE DEF S
  <2> QED
    BY <1>0, <1>3, <1>4, NumbersUpTo
<1> QED
  BY <1>0, <1>1, <1>5

(* A new number is put where it belongs. *)
LEMMA InsertNew ==
  ASSUME NEW sorted, NEW l, l = sorted.list, sorted.n \in Int,
         NEW x, NEW p, NEW unique, Belongs(l, x, p, unique)
  PROVE  /\ IsPlaced(Insert(sorted, x, unique).list, l, x, p)
         /\ Insert(sorted, x, unique).n = sorted.n
<1>1. PICK c : c = Carried(sorted, x, unique)
  OBVIOUS
<1>2. CarriesNew(c, l, x, p, Len(l))
  BY <1>1, NewCarried DEF Carried
<1>3. Len(l) \in Nat /\ p \in Nat /\ p <= Len(l)
  BY DEF Belongs, Integers, Listed
<1>4. PICK u : u = Append(c.list, c.x)
  OBVIOUS
<1>5. IsAppend(u, c.list, c.x)
  BY <1>2, <1>4, Appended DEF CarriesNew
<1>6. c.x = Placed(l, x, p, Len(l) + 1)
  BY <1>2, <1>3 DEF CarriesNew, Placed
<1>7. Len(c.list) = Len(l) /\ \A i \in 1 .. Len(l) : c.list[i] = Placed(l, x, p, i)
  BY <1>2 DEF CarriesNew
<1>8. IsPlaced(u, l, x, p)
  <2>1. Listed(u) /\ Len(u) = Len(l) + 1 /\ \A i \in 1 .. Len(l) + 1 : u[i] = Placed(l, x, p, i)
    BY <1>3, <1>5, <1>6, <1>7, AppendPlaced
  <2> QED
    BY <2>1 DEF IsPlaced
<1>9. ~c.same
  BY <1>2 DEF CarriesNew
<1>10. Insert(sorted, x, unique) = [list |-> u, n |-> sorted.n - (IF c.same THEN 1 ELSE 0)]
  BY <1>1, <1>4, InsertIs
<1> QED
  BY <1>8, <1>9, <1>10

(* A number that is there already. *)
Unique(unique) == unique
OldSame(d, x, p, j) == (j < p /\ d.x = x /\ ~d.same) \/ (j >= p /\ d.x = INT_MAX /\ d.same)

SameUpto(s, l, j) == \A i \in 1 .. j : s[i] = l[i]

(* At the end of the list INT_MAX is put down. *)
LEMMA AppendSame ==
  ASSUME NEW u, NEW s, NEW a, NEW l, NEW j \in Nat, IsAppend(u, s, a), Len(s) = j,
         SameUpto(s, l, j), a = l[j + 1]
  PROVE  Listed(u) /\ Len(u) = j + 1 /\ SameUpto(u, l, j + 1)
<1>1. ASSUME NEW i \in 1 .. j + 1 PROVE u[i] = l[i]
  <2>1. CASE i <= j
    BY <2>1 DEF IsAppend, SameUpto
  <2>2. CASE i = j + 1
    BY <2>2 DEF IsAppend
  <2> QED
    BY <2>1, <2>2
<1> QED
  BY <1>1 DEF IsAppend, SameUpto

SitsAt(l, x, p) ==
  /\ Integers(l) /\ p \in 1 .. Len(l) /\ x \in Int /\ l[p] = x
  /\ \A i \in 1 .. p - 1 : l[i] < x
  /\ \A i \in 1 .. Len(l) : l[i] <= INT_MAX

CarriesOld(c, l, x, p, j) ==
  /\ Listed(c.list) /\ Len(c.list) = j
  /\ \A i \in 1 .. j : c.list[i] = l[i]
  /\ OldSame(c, x, p, j)

(* One more item is passed, on the way to the like of the number or after  *)
(* it.                                                                     *)
LEMMA OldCarriedOn ==
  ASSUME NEW l, NEW x, NEW p, SitsAt(l, x, p), NEW unique, Unique(unique), NEW j \in Nat, j < Len(l),
         NEW c, CarriesOld(c, l, x, p, j)
  PROVE  CarriesOld(Pass(c, l[j + 1], unique), l, x, p, j + 1)
<1>0. INT_MAX \in Int
  BY EditingAssumption
<1>1. PICK d, y : d = Pass(c, y, unique) /\ y = l[j + 1]
  OBVIOUS
<1>2. /\ Len(l) \in Nat /\ x \in Int /\ p \in Nat /\ p <= Len(l) /\ \A i \in 1 .. Len(l) : l[i] \in Int
  BY DEF SitsAt, Integers, Listed
<1>3. y \in Int /\ y <= INT_MAX
  BY <1>1, <1>2 DEF SitsAt
<1>4. Listed(c.list) /\ Len(c.list) = j /\ \A i \in 1 .. j : c.list[i] = l[i]
  BY DEF CarriesOld
<1>5. OldSame(d, x, p, j + 1) /\ d.list = Append(c.list, y)
  <2>6. CASE j + 1 < p
    <3>1. c.x = x /\ ~c.same
      BY <1>2, <2>6 DEF CarriesOld, OldSame
    <3>2. y < x
      <4>1. j + 1 \in 1 .. p - 1
        BY <1>2, <2>6
      <4> QED
        BY <1>1, <4>1 DEF SitsAt
    <3>3. Stays(d, c, y)
      <4>1. ~(c.x < y) /\ ~(unique /\ ~c.same /\ c.x = y)
        BY <1>2, <1>3, <3>1, <3>2
      <4> QED
        BY <1>1, <4>1, PassStays
    <3>4. d.list = Append(c.list, y) /\ d.x = x /\ ~d.same
      BY <3>1, <3>3 DEF Stays
    <3> QED
      BY <1>2, <2>6, <3>4 DEF OldSame
  <2>7. CASE j + 1 = p
    <3>1. c.x = x /\ ~c.same
      BY <1>2, <2>7 DEF CarriesOld, OldSame
    <3>2. y = x
      BY <1>1, <2>7 DEF SitsAt
    <3>3. Repeats1(d, c, y)
      BY <1>1, <3>1, <3>2, PassRepeats DEF Unique
    <3>4. d.list = Append(c.list, y) /\ d.x = INT_MAX /\ d.same
      BY <3>3 DEF Repeats1
    <3> QED
      BY <1>2, <2>7, <3>4 DEF OldSame
  <2>8. CASE j + 1 > p
    <3>1. c.x = INT_MAX /\ c.same
      BY <1>2, <2>8 DEF CarriesOld, OldSame
    <3>2. Stays(d, c, y)
      <4>1. ~(c.x < y) /\ ~(unique /\ ~c.same /\ c.x = y)
        BY <1>0, <1>3, <3>1
      <4> QED
        BY <1>1, <4>1, PassStays
    <3>3. d.list = Append(c.list, y) /\ d.x = INT_MAX /\ d.same
      BY <3>1, <3>2 DEF Stays
    <3> QED
      BY <1>2, <2>8, <3>3 DEF OldSame
  <2> QED
    BY <1>2, <2>6, <2>7, <2>8
<1>6. IsAppend(d.list, c.list, y)
  BY <1>4, <1>5, Appended
<1>7. Listed(d.list) /\ Len(d.list) = j + 1 /\ \A i \in 1 .. j + 1 : d.list[i] = l[i]
  <2>1. PICK v, t : v = d.list /\ t = c.list
    OBVIOUS
  <2>2. IsAppend(v, t, y) /\ Len(t) = j /\ SameUpto(t, l, j) /\ y = l[j + 1]
    BY <1>1, <1>4, <1>6, <2>1 DEF SameUpto
  <2>3. Listed(v) /\ Len(v) = j + 1 /\ SameUpto(v, l, j + 1)
    BY <2>2, AppendSame
  <2> QED
    BY <2>1, <2>3 DEF SameUpto
<1> QED
  BY <1>1, <1>5, <1>7 DEF CarriesOld

(* All items are passed. *)
LEMMA OldCarried ==
  ASSUME NEW l, NEW x, NEW p, SitsAt(l, x, p), NEW unique, Unique(unique)
  PROVE  CarriesOld(Passing(l, x, unique)[Len(l)], l, x, p, Len(l))
<1>0. Listed(l) /\ Len(l) \in Nat /\ p \in Nat /\ p > 0
  BY DEF SitsAt, Integers, Listed
<1>1. PICK Q : Q = Passing(l, x, unique)
  OBVIOUS
<1>2. Q[0] = First(x) /\ \A j \in 0 .. Len(l) - 1 : Q[j + 1] = Pass(Q[j], l[j + 1], unique)
  BY <1>0, <1>1, PassingSteps
<1> DEFINE S == {j \in 0 .. Len(l) : CarriesOld(Q[j], l, x, p, j)}
<1>3. 0 \in S
  <2>1. CarriesOld(First(x), l, x, p, 0)
    BY <1>0 DEF First, CarriesOld, Listed, OldSame
  <2> QED
    BY <1>0, <1>2, <2>1
<1>4. ASSUME NEW j \in 0 .. Len(l) - 1, j \in S PROVE j + 1 \in S
  <2>1. CarriesOld(Q[j], l, x, p, j) /\ j \in Nat /\ j < Len(l) /\ j + 1 \in 0 .. Len(l)
    BY <1>0, <1>4
  <2>2. CarriesOld(Pass(Q[j], l[j + 1], unique), l, x, p, j + 1)
    BY <2>1, OldCarriedOn
  <2> QED
    BY <1>2, <2>1, <2>2
<1>5. \A j \in 0 .. Len(l) : j \in S
  <2> HIDE DEF S
  <2> QED
    BY <1>0, <1>3, <1>4, NumbersUpTo
<1> QED
  BY <1>0, <1>1, <1>5

(* A number that is there already adds INT_MAX at the end, and one         *)
(* repeat.                                                                 *)
LEMMA InsertOld ==
  ASSUME NEW sorted, NEW l, l = sorted.list, sorted.n \in Int, NEW x, NEW p, SitsAt(l, x, p),
         NEW unique, Unique(unique)
  PROVE  /\ IsAppend(Insert(sorted, x, unique).list, l, INT_MAX)
         /\ Insert(sorted, x, unique).n = sorted.n - 1
<1>1. PICK c : c = Carried(sorted, x, unique)
  OBVIOUS
<1>2. CarriesOld(c, l, x, p, Len(l))
  BY <1>1, OldCarried DEF Carried
<1>3. Len(l) \in Nat /\ p \in Nat /\ p <= Len(l)
  BY DEF SitsAt, Integers, Listed
<1>4. PICK u : u = Append(c.list, c.x)
  OBVIOUS
<1>5. /\ Listed(c.list) /\ Len(c.list) = Len(l) /\ c.x = INT_MAX /\ c.same
      /\ \A i \in 1 .. Len(l) : c.list[i] = l[i]
  BY <1>2, <1>3 DEF CarriesOld, OldSame
<1>6. IsAppend(u, c.list, c.x)
  BY <1>4, <1>5, Appended
<1>7. IsAppend(u, l, INT_MAX)
  BY <1>5, <1>6 DEF IsAppend
<1>8. PICK r : r = Insert(sorted, x, unique)
  OBVIOUS
<1>9. r = [list |-> u, n |-> sorted.n - (IF c.same THEN 1 ELSE 0)]
  BY <1>1, <1>4, <1>8, InsertIs
<1>10. r.list = u /\ r.n = sorted.n - 1
  BY <1>5, <1>9
<1> QED
  BY <1>7, <1>8, <1>10

-----------------------------------------------------------------------------
(* How many numbers are not above another: those in a set, and the first   *)
(* m of a list.                                                            *)
CountOf(S)       == [v \in Int |-> Cardinality({y \in S : y <= v})]
CountIn(list, m) == [v \in Int |-> Cardinality({i \in 1 .. m : list[i] <= v})]

Plus(c, b) == c + (IF b THEN 1 ELSE 0)

(* A set that may have one more. *)
LEMMA CountWithOneMore ==
  ASSUME NEW T, IsFiniteSet(T), NEW x, NEW b, x \notin T,
         NEW U, U = IF b THEN T \cup {x} ELSE T
  PROVE  Cardinality(U) = Plus(Cardinality(T), b) /\ IsFiniteSet(U) /\ Cardinality(T) \in Nat
<1>1. Cardinality(T) \in Nat
  BY FS_CardinalityType
<1>2. IsFiniteSet(T \cup {x}) /\ Cardinality(T \cup {x}) = Cardinality(T) + 1
  BY FS_AddElement
<1> QED
  BY <1>1, <1>2 DEF Plus

(* From a number to the next, one more is counted if it is in the set. *)
LEMMA RankStep ==
  ASSUME NEW S, IsFiniteSet(S), S \subseteq Int, NEW v \in Int
  PROVE  CountOf(S)[v] = Plus(CountOf(S)[v - 1], v \in S) /\ CountOf(S)[v - 1] \in Nat
<1>1. PICK T, U : T = {y \in S : y <= v - 1} /\ U = {y \in S : y <= v}
  OBVIOUS
<1>2. IsFiniteSet(T)
  BY <1>1, FS_Subset
<1>3. U = IF v \in S THEN T \cup {v} ELSE T
  <2>1. \A y \in Int : y <= v <=> (y <= v - 1 \/ y = v)
    OBVIOUS
  <2>2. \A y \in S : y <= v <=> (y <= v - 1 \/ y = v)
    BY <2>1
  <2>3. CASE v \in S
    BY <1>1, <2>2, <2>3
  <2>4. CASE v \notin S
    BY <1>1, <2>2, <2>4
  <2> QED
    BY <2>3, <2>4
<1>4. v \notin T
  BY <1>1
<1>5. PICK b : b = (v \in S)
  OBVIOUS
<1>6. Cardinality(U) = Plus(Cardinality(T), b) /\ Cardinality(T) \in Nat
  BY <1>2, <1>3, <1>4, <1>5, CountWithOneMore
<1>7. CountOf(S)[v] = Cardinality(U) /\ CountOf(S)[v - 1] = Cardinality(T)
  BY <1>1 DEF CountOf
<1> QED
  BY <1>5, <1>6, <1>7

(* A number added to the set is one more for all from it on. *)
LEMMA RankAdd ==
  ASSUME NEW S, IsFiniteSet(S), S \subseteq Int, NEW v \in Int, NEW x \in Int, x \notin S
  PROVE  CountOf(S \cup {x})[v] = Plus(CountOf(S)[v], x <= v)
<1>1. PICK T, U : T = {y \in S : y <= v} /\ U = {y \in S \cup {x} : y <= v}
  OBVIOUS
<1>2. IsFiniteSet(T)
  BY <1>1, FS_Subset
<1>5. PICK b : b = (x <= v)
  OBVIOUS
<1>3. U = IF b THEN T \cup {x} ELSE T
  BY <1>1, <1>5
<1>4. x \notin T
  BY <1>1
<1>6. Cardinality(U) = Plus(Cardinality(T), b)
  BY <1>2, <1>3, <1>4, CountWithOneMore
<1>7. CountOf(S \cup {x})[v] = Cardinality(U) /\ CountOf(S)[v] = Cardinality(T)
  BY <1>1 DEF CountOf
<1> QED
  BY <1>5, <1>6, <1>7

(* An item added to the list likewise. *)
LEMMA IndexAdd ==
  ASSUME NEW list, NEW m \in Nat, NEW v \in Int
  PROVE  CountIn(list, m + 1)[v] = Plus(CountIn(list, m)[v], list[m + 1] <= v)
<1>1. PICK T, U : T = {i \in 1 .. m : list[i] <= v} /\ U = {i \in 1 .. m + 1 : list[i] <= v}
  OBVIOUS
<1>2. IsFiniteSet(T)
  <2>1. IsFiniteSet(1 .. m)
    BY FS_Interval
  <2>2. T \in SUBSET (1 .. m)
    BY <1>1
  <2> QED
    BY <2>1, <2>2, FS_Subset
<1>5. PICK b : b = (list[m + 1] <= v)
  OBVIOUS
<1>3. U = IF b THEN T \cup {m + 1} ELSE T
  <2>1. 1 .. m + 1 = (1 .. m) \cup {m + 1}
    OBVIOUS
  <2>2. U = {i \in (1 .. m) \cup {m + 1} : list[i] <= v}
    BY <1>1, <2>1
  <2>3. CASE b
    BY <1>1, <1>5, <2>2, <2>3
  <2>4. CASE ~b
    BY <1>1, <1>5, <2>2, <2>4
  <2> QED
    BY <2>3, <2>4
<1>4. m + 1 \notin T
  BY <1>1
<1>6. Cardinality(U) = Plus(Cardinality(T), b)
  BY <1>2, <1>3, <1>4, CountWithOneMore
<1>7. CountIn(list, m + 1)[v] = Cardinality(U) /\ CountIn(list, m)[v] = Cardinality(T)
  BY <1>1 DEF CountIn
<1> QED
  BY <1>5, <1>6, <1>7

(* A list in the order that the counts say. *)
OrderedBy(l, C) ==
  /\ Integers(l)
  /\ \A i \in 1 .. Len(l) : l[i] <= INT_MAX
  /\ \A v \in Int : v < INT_MAX => C[v] \in 0 .. Len(l)
  /\ \A v \in Int : v < INT_MAX => \A i \in 1 .. C[v] : l[i] <= v
  /\ \A v \in Int : v < INT_MAX => \A i \in C[v] + 1 .. Len(l) : v < l[i]

(* Putting a number where it belongs keeps the order. *)
LEMMA PlacedInOrder ==
  ASSUME NEW l, NEW C, OrderedBy(l, C), NEW x \in Int, x < INT_MAX, NEW u, IsPlaced(u, l, x, C[x]),
         NEW D, \A v \in Int : v < INT_MAX => D[v] = Plus(C[v], x <= v)
  PROVE  OrderedBy(u, D)
<1>0. INT_MAX \in Int
  BY EditingAssumption
<1>1. /\ Len(l) \in Nat /\ \A i \in 1 .. Len(l) : l[i] \in Int /\ l[i] <= INT_MAX
  BY DEF OrderedBy, Integers, Listed
<1>2. PICK p \in 0 .. Len(l) : p = C[x]
  BY DEF OrderedBy
<1>3. Listed(u) /\ Len(u) = Len(l) + 1 /\ \A i \in 1 .. Len(l) + 1 : u[i] = Placed(l, x, p, i)
  BY <1>2 DEF IsPlaced
<1>4. ASSUME NEW i \in 1 .. Len(u)
      PROVE  (i <= p /\ i \in 1 .. Len(l) /\ u[i] = l[i]) \/ (i = p + 1 /\ u[i] = x)
             \/ (i > p + 1 /\ i - 1 \in 1 .. Len(l) /\ u[i] = l[i - 1])
  BY <1>1, <1>2, <1>3 DEF Placed
<1>5. \A i \in 1 .. p : l[i] <= x
  BY <1>2 DEF OrderedBy
<1>6. \A i \in p + 1 .. Len(l) : x < l[i]
  BY <1>2 DEF OrderedBy
<1>7. ASSUME NEW i \in 1 .. Len(u) PROVE u[i] \in Int /\ u[i] <= INT_MAX
  BY <1>0, <1>1, <1>4, SMTT(30)
<1>8. ASSUME NEW v \in Int, v < INT_MAX
      PROVE  /\ D[v] \in 0 .. Len(u)
             /\ \A i \in 1 .. D[v] : u[i] <= v
             /\ \A i \in D[v] + 1 .. Len(u) : v < u[i]
  <2>1. PICK c \in 0 .. Len(l) : c = C[v]
    BY <1>8 DEF OrderedBy
  <2>2. \A i \in 1 .. c : l[i] <= v
    BY <1>8, <2>1 DEF OrderedBy
  <2>3. \A i \in c + 1 .. Len(l) : v < l[i]
    BY <1>8, <2>1 DEF OrderedBy
  <2>4. CASE x <= v
    <3>1. D[v] = c + 1
      BY <1>8, <2>1, <2>4 DEF Plus
    <3>2. p <= c
      <4>1. CASE c < p
        <5>1. p \in 1 .. p /\ p \in c + 1 .. Len(l)
          BY <1>1, <4>1
        <5>2. l[p] <= x /\ v < l[p] /\ l[p] \in Int
          BY <1>1, <1>5, <2>3, <5>1
        <5> QED
          BY <2>4, <5>2
      <4> QED
        BY <4>1
    <3>3. ASSUME NEW i \in 1 .. c + 1 PROVE u[i] <= v
      <4>1. i \in 1 .. Len(u)
        BY <1>1, <1>3
      <4>2. CASE i <= p /\ i \in 1 .. Len(l) /\ u[i] = l[i]
        BY <1>1, <1>5, <2>4, <4>2
      <4>3. CASE i > p + 1 /\ i - 1 \in 1 .. Len(l) /\ u[i] = l[i - 1]
        <5>1. i - 1 \in 1 .. c
          BY <4>3
        <5> QED
          BY <2>2, <4>3, <5>1
      <4> QED
        BY <1>4, <2>4, <4>1, <4>2, <4>3
    <3>4. ASSUME NEW i \in c + 1 + 1 .. Len(u) PROVE v < u[i]
      <4>1. i \in 1 .. Len(u) /\ i > p + 1 /\ i - 1 \in c + 1 .. Len(l)
        BY <1>1, <1>3, <3>2
      <4>2. u[i] = l[i - 1]
        BY <1>4, <4>1
      <4> QED
        BY <2>3, <4>1, <4>2
    <3> QED
      BY <1>1, <1>3, <3>1, <3>3, <3>4
  <2>5. CASE v < x
    <3>1. D[v] = c
      BY <1>8, <2>1, <2>5 DEF Plus
    <3>2. c <= p
      <4>1. CASE p < c
        <5>1. c \in 1 .. c /\ c \in p + 1 .. Len(l)
          BY <1>1, <4>1
        <5>2. l[c] <= v /\ x < l[c] /\ l[c] \in Int
          BY <1>1, <1>6, <2>2, <5>1
        <5> QED
          BY <2>5, <5>2
      <4> QED
        BY <4>1
    <3>3. ASSUME NEW i \in 1 .. c PROVE u[i] <= v
      <4>1. i \in 1 .. Len(u) /\ i <= p
        BY <1>1, <1>3, <3>2
      <4> QED
        BY <1>4, <2>2, <4>1
    <3>4. ASSUME NEW i \in c + 1 .. Len(u) PROVE v < u[i]
      <4>1. i \in 1 .. Len(u)
        BY <1>1, <1>3
      <4>2. CASE i <= p /\ i \in 1 .. Len(l) /\ u[i] = l[i]
        BY <2>3, <4>2
      <4>3. CASE i > p + 1 /\ i - 1 \in 1 .. Len(l) /\ u[i] = l[i - 1]
        <5>1. x < l[i - 1] /\ l[i - 1] \in Int
          BY <1>1, <1>6, <4>3
        <5> QED
          BY <2>5, <4>3, <5>1
      <4> QED
        BY <1>4, <2>5, <4>1, <4>2, <4>3
    <3> QED
      BY <1>1, <1>3, <3>1, <3>3, <3>4
  <2> QED
    BY <2>4, <2>5
<1>9. Integers(u)
  BY <1>3, <1>7 DEF Integers
<1> QED
  BY <1>7, <1>8, <1>9 DEF OrderedBy

(* So does INT_MAX at the end. *)
LEMMA AppendInOrder ==
  ASSUME NEW l, NEW C, OrderedBy(l, C), NEW u, IsAppend(u, l, INT_MAX)
  PROVE  OrderedBy(u, C)
<1>0. INT_MAX \in Int
  BY EditingAssumption
<1>1. /\ Len(l) \in Nat /\ \A i \in 1 .. Len(l) : l[i] \in Int /\ l[i] <= INT_MAX
  BY DEF OrderedBy, Integers, Listed
<1>2. /\ Listed(u) /\ Len(u) = Len(l) + 1 /\ u[Len(l) + 1] = INT_MAX
      /\ \A k \in 1 .. Len(l) : u[k] = l[k]
  BY DEF IsAppend
<1>3. ASSUME NEW i \in 1 .. Len(u)
      PROVE  (i \in 1 .. Len(l) /\ u[i] = l[i]) \/ (i = Len(l) + 1 /\ u[i] = INT_MAX)
  BY <1>1, <1>2
<1>4. ASSUME NEW i \in 1 .. Len(u) PROVE u[i] \in Int /\ u[i] <= INT_MAX
  BY <1>0, <1>1, <1>3
<1>5. ASSUME NEW v \in Int, v < INT_MAX
      PROVE  /\ C[v] \in 0 .. Len(u)
             /\ \A i \in 1 .. C[v] : u[i] <= v
             /\ \A i \in C[v] + 1 .. Len(u) : v < u[i]
  <2>1. PICK c \in 0 .. Len(l) : c = C[v]
    BY <1>5 DEF OrderedBy
  <2>2. \A i \in 1 .. c : l[i] <= v
    BY <1>5, <2>1 DEF OrderedBy
  <2>3. \A i \in c + 1 .. Len(l) : v < l[i]
    BY <1>5, <2>1 DEF OrderedBy
  <2>4. \A i \in 1 .. c : u[i] <= v
    BY <1>1, <1>2, <2>2
  <2>5. ASSUME NEW i \in c + 1 .. Len(u) PROVE v < u[i]
    <3>1. i \in 1 .. Len(u)
      BY <1>1, <1>2
    <3> QED
      BY <1>3, <1>5, <2>3, <3>1
  <2> QED
    BY <1>1, <1>2, <2>1, <2>4, <2>5
<1> QED
  BY <1>2, <1>4, <1>5 DEF OrderedBy, Integers

-----------------------------------------------------------------------------
(* Number by number. *)
LEMMA UptoSteps ==
  ASSUME NEW list, Listed(list), NEW unique, NEW U, U = Upto(list, unique)
  PROVE  /\ U[0] = [list |-> <<>>, n |-> Len(list)]
         /\ \A j \in 0 .. Len(list) - 1 : U[j + 1] = Insert(U[j], list[j + 1], unique)
<1>1. IsUpto(U, list, unique)
  BY UptoExists
<1>2. /\ U = [j \in 0 .. Len(list) |-> IF j = 0 THEN [list |-> <<>>, n |-> Len(list)]
                                       ELSE Insert(U[j - 1], list[j], unique)]
      /\ Len(list) \in Nat
  BY <1>1 DEF IsUpto, Listed
<1>3. ASSUME NEW j \in 0 .. Len(list) - 1 PROVE U[j + 1] = Insert(U[j], list[j + 1], unique)
  <2>1. PICK k \in 0 .. Len(list) : k = j + 1
    BY <1>2
  <2>2. U[k] = Insert(U[k - 1], list[k], unique) /\ k - 1 = j
    BY <1>2, <2>1
  <2> QED
    BY <2>1, <2>2
<1> QED
  BY <1>2, <1>3

IsGiven(list) == Integers(list) /\ \A i \in 1 .. Len(list) : list[i] < INT_MAX

(* The lists of a script are such lists. *)
LEMMA GivenLists ==
  ASSUME NEW list \in Lists
  PROVE  IsGiven(list)
<1>1. list \in Seq(Int) /\ \A i \in DOMAIN list : list[i] < INT_MAX
  BY EditingAssumption
<1>2. Listed(list) /\ \A i \in 1 .. Len(list) : list[i] \in Int
  BY <1>1 DEF Listed
<1> QED
  BY <1>1, <1>2 DEF IsGiven, Integers, Listed

(* No numbers are in order. *)
LEMMA NoNumbers ==
  ASSUME NEW C, \A v \in Int : C[v] = 0
  PROVE  OrderedBy(<<>>, C)
<1>1. Listed(<<>>) /\ Len(<<>>) = 0
  BY DEF Listed
<1>2. Integers(<<>>)
  BY <1>1 DEF Integers
<1> QED
  BY <1>1, <1>2 DEF OrderedBy

(* Every number kept. *)
LEMMA BelongsThere ==
  ASSUME NEW l, NEW C, OrderedBy(l, C), NEW x \in Int, x < INT_MAX, NEW unique, ~Unique(unique)
  PROVE  Belongs(l, x, C[x], unique)
<1>0. INT_MAX \in Int
  BY EditingAssumption
<1>1. /\ Len(l) \in Nat /\ \A i \in 1 .. Len(l) : l[i] \in Int /\ l[i] <= INT_MAX
  BY DEF OrderedBy, Integers, Listed
<1>2. PICK p \in 0 .. Len(l) : p = C[x]
  BY DEF OrderedBy
<1>3. \A i \in 1 .. p : l[i] <= x
  BY <1>2 DEF OrderedBy
<1>4. \A i \in p + 1 .. Len(l) : x < l[i]
  BY <1>2 DEF OrderedBy
<1>5. ASSUME NEW i \in 1 .. Len(l) - 1 PROVE l[i] <= l[i + 1]
  <2>1. PICK v \in Int : v = l[i + 1]
    BY <1>1
  <2>2. i \in 1 .. Len(l) /\ i + 1 \in 1 .. Len(l)
    BY <1>1
  <2>3. CASE v < INT_MAX
    <3>1. PICK c \in 0 .. Len(l) : c = C[v]
      BY <2>3 DEF OrderedBy
    <3>2. \A k \in c + 1 .. Len(l) : v < l[k]
      BY <2>3, <3>1 DEF OrderedBy
    <3>3. i + 1 <= c
      <4>1. CASE c < i + 1
        <5>1. v < l[i + 1]
          BY <1>1, <2>2, <3>2, <4>1
        <5> QED
          BY <2>1, <5>1
      <4> QED
        BY <1>1, <4>1
    <3>4. \A k \in 1 .. c : l[k] <= v
      BY <2>3, <3>1 DEF OrderedBy
    <3> QED
      BY <1>1, <2>1, <3>3, <3>4
  <2>4. CASE ~(v < INT_MAX)
    BY <1>0, <1>1, <2>1, <2>2, <2>4
  <2> QED
    BY <2>3, <2>4
<1>6. Integers(l)
  BY DEF OrderedBy
<1>7. Belongs(l, x, p, unique)
  <2>1. \A i \in 1 .. p : l[i] < x \/ (~unique /\ l[i] = x)
    BY <1>1, <1>2, <1>3 DEF Unique
  <2>2. \A i \in p + 1 .. Len(l) - 1 : l[i] < l[i + 1] \/ (~unique /\ l[i] = l[i + 1])
    <3>1. ASSUME NEW i \in p + 1 .. Len(l) - 1 PROVE l[i] < l[i + 1] \/ (~unique /\ l[i] = l[i + 1])
      <4>1. i \in 1 .. Len(l) - 1 /\ i \in 1 .. Len(l) /\ i + 1 \in 1 .. Len(l)
        BY <1>1
      <4>2. l[i] <= l[i + 1] /\ l[i] \in Int /\ l[i + 1] \in Int
        BY <1>1, <1>5, <4>1
      <4> QED
        BY <4>2 DEF Unique
    <3> QED
      BY <3>1
  <2> QED
    BY <1>4, <1>6, <2>1, <2>2 DEF Belongs
<1> QED
  BY <1>2, <1>7

AllSorted(s, list, m) == OrderedBy(s.list, CountIn(list, m)) /\ Len(s.list) = m /\ s.n = Len(list)

(* One more number is sorted in. *)
LEMMA OneMoreSorted ==
  ASSUME NEW list, IsGiven(list), NEW m \in Nat, m < Len(list), NEW unique, ~Unique(unique),
         NEW s, AllSorted(s, list, m)
  PROVE  AllSorted(Insert(s, list[m + 1], unique), list, m + 1)
<1>1. PICK x \in Int : x = list[m + 1] /\ x < INT_MAX
  BY DEF IsGiven, Integers, Listed
<1>2. PICK l, C, D : l = s.list /\ C = CountIn(list, m) /\ D = CountIn(list, m + 1)
  OBVIOUS
<1>3. OrderedBy(l, C) /\ Len(l) = m /\ s.n = Len(list) /\ Len(list) \in Nat
  BY <1>2 DEF AllSorted, IsGiven, Integers, Listed
<1>4. Belongs(l, x, C[x], unique)
  BY <1>1, <1>3, BelongsThere
<1>5. PICK t : t = Insert(s, x, unique)
  OBVIOUS
<1>6. IsPlaced(t.list, l, x, C[x]) /\ t.n = s.n
  BY <1>2, <1>3, <1>4, <1>5, InsertNew
<1>7. \A v \in Int : v < INT_MAX => D[v] = Plus(C[v], x <= v)
  BY <1>1, <1>2, IndexAdd
<1>8. OrderedBy(t.list, D)
  <2>1. PICK u : u = t.list
    OBVIOUS
  <2>2. OrderedBy(u, D)
    BY <1>1, <1>3, <1>6, <1>7, <2>1, PlacedInOrder
  <2> QED
    BY <2>1, <2>2
<1>9. Len(t.list) = m + 1
  BY <1>3, <1>6 DEF IsPlaced
<1> QED
  BY <1>1, <1>2, <1>3, <1>5, <1>6, <1>8, <1>9 DEF AllSorted

(* DuplicateFrame sorts all the numbers. *)
LEMMA SortedAll ==
  ASSUME NEW list, IsGiven(list), NEW unique, ~Unique(unique)
  PROVE  AllSorted(Sorted(list, unique), list, Len(list))
<1>0. Listed(list) /\ Len(list) \in Nat
  BY DEF IsGiven, Integers, Listed
<1>1. PICK U : U = Upto(list, unique)
  OBVIOUS
<1>2. /\ U[0] = [list |-> <<>>, n |-> Len(list)]
      /\ \A j \in 0 .. Len(list) - 1 : U[j + 1] = Insert(U[j], list[j + 1], unique)
  BY <1>0, <1>1, UptoSteps
<1> DEFINE S == {m \in 0 .. Len(list) : AllSorted(U[m], list, m)}
<1>3. 0 \in S
  <2>1. PICK C : C = CountIn(list, 0)
    OBVIOUS
  <2>2. ASSUME NEW v \in Int PROVE C[v] = 0
    <3>1. {i \in 1 .. 0 : list[i] <= v} = {}
      OBVIOUS
    <3> QED
      BY <2>1, <3>1, FS_EmptySet DEF CountIn
  <2>3. OrderedBy(<<>>, C)
    BY <2>2, NoNumbers
  <2>4. U[0].list = <<>> /\ U[0].n = Len(list) /\ Len(<<>>) = 0
    BY <1>2
  <2>5. AllSorted(U[0], list, 0)
    BY <2>1, <2>3, <2>4 DEF AllSorted
  <2> QED
    BY <1>0, <2>5
<1>4. ASSUME NEW j \in 0 .. Len(list) - 1, j \in S PROVE j + 1 \in S
  <2>1. AllSorted(U[j], list, j) /\ j \in Nat /\ j < Len(list) /\ j + 1 \in 0 .. Len(list)
    BY <1>0, <1>4
  <2>2. AllSorted(Insert(U[j], list[j + 1], unique), list, j + 1)
    BY <2>1, OneMoreSorted
  <2> QED
    BY <1>2, <2>1, <2>2
<1>5. \A j \in 0 .. Len(list) : j \in S
  <2> HIDE DEF S
  <2> QED
    BY <1>0, <1>3, <1>4, NumbersUpTo
<1>6. AllSorted(U[Len(list)], list, Len(list))
  BY <1>0, <1>5
<1> QED
  BY <1>1, <1>6, SortedIs

-----------------------------------------------------------------------------
(* The numbers kept once. *)
IsNumbers(S) == IsFiniteSet(S) /\ S \subseteq Int /\ \A y \in S : y < INT_MAX

(* All numbers are below INT_MAX. *)
LEMMA AllBelow ==
  ASSUME NEW S, IsNumbers(S)
  PROVE  CountOf(S)[INT_MAX - 1] = Cardinality(S)
<1>0. INT_MAX \in Int
  BY EditingAssumption
<1>1. PICK v \in Int : v = INT_MAX - 1
  BY <1>0
<1>2. {y \in S : y <= v} = S
  <2>1. \A y \in Int : y < INT_MAX => y <= v
    BY <1>0, <1>1
  <2>2. \A y \in S : y <= v
    BY <2>1 DEF IsNumbers
  <2> QED
    BY <2>2
<1> QED
  BY <1>1, <1>2 DEF CountOf

(* The item at which a count steps up is the number counted. *)
LEMMA StepsUp ==
  ASSUME NEW l, NEW S, IsNumbers(S), OrderedBy(l, CountOf(S)), NEW v \in Int, v < INT_MAX
  PROVE  \E c \in 0 .. Len(l), d \in 0 .. Len(l) :
           /\ c = CountOf(S)[v] /\ d = CountOf(S)[v - 1] /\ c = Plus(d, v \in S)
           /\ \A i \in 1 .. c : l[i] <= v
           /\ \A i \in 1 .. d : l[i] < v
           /\ \A i \in d + 1 .. Len(l) : v <= l[i]
           /\ \A i \in c + 1 .. Len(l) : v < l[i]
<1>0. INT_MAX \in Int
  BY EditingAssumption
<1>1. PICK C : C = CountOf(S)
  OBVIOUS
<1>2. OrderedBy(l, C)
  BY <1>1
<1>3. PICK w \in Int : w = v - 1
  OBVIOUS
<1>4. w < INT_MAX
  BY <1>0, <1>3
<1>5. PICK c \in 0 .. Len(l) : c = C[v]
  BY <1>2 DEF OrderedBy
<1>6. PICK d \in 0 .. Len(l) : d = C[w]
  BY <1>2, <1>4 DEF OrderedBy
<1>7. c = Plus(d, v \in S)
  BY <1>1, <1>3, <1>5, <1>6, RankStep DEF IsNumbers
<1>8. \A i \in 1 .. c : l[i] <= v
  BY <1>2, <1>5 DEF OrderedBy
<1>9. \A i \in c + 1 .. Len(l) : v < l[i]
  BY <1>2, <1>5 DEF OrderedBy
<1>10. \A i \in 1 .. d : l[i] <= w
  BY <1>2, <1>4, <1>6 DEF OrderedBy
<1>11. \A i \in d + 1 .. Len(l) : w < l[i]
  BY <1>2, <1>4, <1>6 DEF OrderedBy
<1>12. Len(l) \in Nat /\ \A i \in 1 .. Len(l) : l[i] \in Int
  BY <1>2 DEF OrderedBy, Integers, Listed
<1>13. \A i \in 1 .. d : l[i] < v
  BY <1>3, <1>10, <1>12
<1>14. \A i \in d + 1 .. Len(l) : v <= l[i]
  BY <1>3, <1>11, <1>12
<1> QED
  BY <1>1, <1>3, <1>5, <1>6, <1>7, <1>8, <1>9, <1>13, <1>14

(* With at most one INT_MAX behind the numbers, a new number finds its     *)
(* place.                                                                  *)
LEMMA NewBelongs ==
  ASSUME NEW l, NEW S, IsNumbers(S), OrderedBy(l, CountOf(S)), NEW x \in Int, x < INT_MAX, x \notin S,
         Len(l) <= Cardinality(S) + 1, NEW unique
  PROVE  Belongs(l, x, CountOf(S)[x], unique)
<1>0. INT_MAX \in Int
  BY EditingAssumption
<1>1. /\ Len(l) \in Nat /\ \A i \in 1 .. Len(l) : l[i] \in Int /\ l[i] <= INT_MAX
  BY DEF OrderedBy, Integers, Listed
<1>2. PICK p \in 0 .. Len(l), q \in 0 .. Len(l) :
           /\ p = CountOf(S)[x] /\ q = CountOf(S)[x - 1] /\ p = Plus(q, x \in S)
           /\ \A i \in 1 .. q : l[i] < x
           /\ \A i \in p + 1 .. Len(l) : x < l[i]
  BY StepsUp
<1>3. p = q
  BY <1>2 DEF Plus
<1>4. ASSUME NEW i \in 1 .. Len(l) - 1 PROVE l[i] < l[i + 1]
  <2>1. PICK v \in Int : v = l[i + 1]
    BY <1>1
  <2>2. i \in 1 .. Len(l) /\ i + 1 \in 1 .. Len(l)
    BY <1>1
  <2>3. CASE v < INT_MAX
    <3>1. PICK c \in 0 .. Len(l), d \in 0 .. Len(l) :
           /\ c = CountOf(S)[v] /\ d = CountOf(S)[v - 1] /\ c = Plus(d, v \in S)
           /\ \A k \in 1 .. d : l[k] < v
           /\ \A k \in c + 1 .. Len(l) : v < l[k]
      BY <2>3, StepsUp
    <3>2. i + 1 <= c
      <4>1. CASE c < i + 1
        <5>1. v < l[i + 1]
          BY <1>1, <2>2, <3>1, <4>1
        <5> QED
          BY <2>1, <5>1
      <4> QED
        BY <1>1, <4>1
    <3>3. c <= d + 1
      BY <3>1 DEF Plus
    <3>4. i \in 1 .. d
      BY <3>2, <3>3
    <3> QED
      BY <2>1, <3>1, <3>4
  <2>4. CASE ~(v < INT_MAX)
    <3>1. PICK w \in Int : w = INT_MAX - 1
      BY <1>0
    <3>2. PICK c \in 0 .. Len(l) : c = CountOf(S)[w]
      BY <1>0, <3>1 DEF OrderedBy
    <3>3. \A k \in 1 .. c : l[k] <= w
      BY <1>0, <3>1, <3>2 DEF OrderedBy
    <3>4. c = Cardinality(S)
      BY <3>1, <3>2, AllBelow
    <3>5. i \in 1 .. c
      BY <1>1, <3>4
    <3>6. l[i] <= w
      BY <3>3, <3>5
    <3> QED
      BY <1>0, <1>1, <2>1, <2>2, <2>4, <3>1, <3>6
  <2> QED
    BY <2>3, <2>4
<1>5. Integers(l)
  BY DEF OrderedBy
<1>6. Belongs(l, x, p, unique)
  <2>1. \A i \in 1 .. p : l[i] < x
    BY <1>2, <1>3
  <2>2. \A i \in p + 1 .. Len(l) - 1 : l[i] < l[i + 1]
    BY <1>1, <1>4
  <2> QED
    BY <1>2, <1>5, <2>1, <2>2 DEF Belongs
<1> QED
  BY <1>2, <1>6

(* One that is there already sits at the end of those up to it. *)
LEMMA OldSits ==
  ASSUME NEW l, NEW S, IsNumbers(S), OrderedBy(l, CountOf(S)), NEW x \in Int, x < INT_MAX, x \in S
  PROVE  SitsAt(l, x, CountOf(S)[x])
<1>1. /\ Len(l) \in Nat /\ \A i \in 1 .. Len(l) : l[i] \in Int /\ l[i] <= INT_MAX
  BY DEF OrderedBy, Integers, Listed
<1>2. PICK p \in 0 .. Len(l), q \in 0 .. Len(l) :
           /\ p = CountOf(S)[x] /\ q = CountOf(S)[x - 1] /\ p = Plus(q, x \in S)
           /\ \A i \in 1 .. p : l[i] <= x
           /\ \A i \in 1 .. q : l[i] < x
           /\ \A i \in q + 1 .. Len(l) : x <= l[i]
  BY StepsUp
<1>3. p = q + 1
  BY <1>2 DEF Plus
<1>4. p \in 1 .. Len(l) /\ p \in 1 .. p /\ p \in q + 1 .. Len(l)
  BY <1>1, <1>3
<1>5. l[p] = x
  BY <1>1, <1>2, <1>4
<1>6. \A i \in 1 .. p - 1 : l[i] < x
  BY <1>2, <1>3
<1>7. Integers(l)
  BY DEF OrderedBy
<1>8. SitsAt(l, x, p)
  BY <1>1, <1>4, <1>5, <1>6, <1>7 DEF SitsAt
<1> QED
  BY <1>2, <1>8

Numbered(list, m) == {list[i] : i \in 1 .. m}

(* No new number comes after two repeats. *)
LosesNone(list) ==
  \A m \in 0 .. Len(list) - 1 :
    list[m + 1] \in Numbered(list, m) \/ m <= Cardinality(Numbered(list, m)) + 1

(* The numbers up to the next place. *)
LEMMA NumberedNext ==
  ASSUME NEW list, IsGiven(list), NEW m \in Nat, m < Len(list)
  PROVE  Numbered(list, m + 1) = Numbered(list, m) \cup {list[m + 1]}
<1>1. 1 .. m + 1 = (1 .. m) \cup {m + 1}
  OBVIOUS
<1> QED
  BY <1>1 DEF Numbered

AllDistinct(s, list, m) ==
  /\ IsNumbers(Numbered(list, m)) /\ OrderedBy(s.list, CountOf(Numbered(list, m))) /\ Len(s.list) = m
  /\ s.n = Len(list) - (m - Cardinality(Numbered(list, m)))

(* The parts of that. *)
LEMMA SoDistinct ==
  ASSUME NEW s, NEW list, NEW m, NEW T, T = Numbered(list, m), IsNumbers(T),
         OrderedBy(s.list, CountOf(T)), Len(s.list) = m, s.n = Len(list) - (m - Cardinality(T))
  PROVE  AllDistinct(s, list, m)
BY DEF AllDistinct

(* One more number is sorted in, or dropped as a repeat. *)
LEMMA OneMoreDistinct ==
  ASSUME NEW list, IsGiven(list), LosesNone(list), NEW m \in Nat, m < Len(list), NEW unique, Unique(unique),
         NEW s, AllDistinct(s, list, m)
  PROVE  AllDistinct(Insert(s, list[m + 1], unique), list, m + 1)
<1>1. PICK x \in Int : x = list[m + 1] /\ x < INT_MAX
  BY DEF IsGiven, Integers, Listed
<1>2. PICK l, S, T : l = s.list /\ S = Numbered(list, m) /\ T = Numbered(list, m + 1)
  OBVIOUS
<1>3. IsNumbers(S) /\ OrderedBy(l, CountOf(S)) /\ Len(l) = m /\ s.n = Len(list) - (m - Cardinality(S))
  BY <1>2 DEF AllDistinct
<1>4. Cardinality(S) \in Nat /\ Len(list) \in Nat
  BY <1>3, FS_CardinalityType DEF IsNumbers, IsGiven, Integers, Listed
<1>5. T = S \cup {x}
  BY <1>1, <1>2, NumberedNext
<1>6. IsNumbers(T) /\ Cardinality(T) = IF x \in S THEN Cardinality(S) ELSE Cardinality(S) + 1
  BY <1>1, <1>3, <1>5, FS_AddElement DEF IsNumbers
<1>7. PICK t : t = Insert(s, x, unique)
  OBVIOUS
<1>8. s.n \in Int
  BY <1>3, <1>4
<1>9. CASE x \in S
  <2>1. SitsAt(l, x, CountOf(S)[x])
    BY <1>1, <1>3, <1>9, OldSits
  <2>2. IsAppend(t.list, l, INT_MAX) /\ t.n = s.n - 1
    BY <1>2, <1>7, <1>8, <2>1, InsertOld
  <2>3. T = S
    BY <1>5, <1>9
  <2>4. OrderedBy(t.list, CountOf(T))
    BY <1>3, <2>2, <2>3, AppendInOrder
  <2>5. Len(t.list) = m + 1
    BY <1>3, <2>2 DEF IsAppend
  <2>6. t.n = Len(list) - (m + 1 - Cardinality(T))
    BY <1>3, <1>4, <2>2, <2>3
  <2>7. AllDistinct(t, list, m + 1)
    <3>1. PICK k \in Nat : k = m + 1
      OBVIOUS
    <3>2. T = Numbered(list, k) /\ Len(t.list) = k
      BY <1>2, <2>5, <3>1
    <3>3. t.n = Len(list) - (k - Cardinality(T))
      <4>1. Cardinality(T) \in Nat
        BY <1>4, <1>6
      <4> QED
        BY <1>4, <2>6, <3>1, <4>1
    <3>4. AllDistinct(t, list, k)
      BY <1>6, <2>4, <3>2, <3>3, SoDistinct
    <3> QED
      BY <3>1, <3>4
  <2> QED
    BY <1>1, <1>7, <2>7
<1>10. CASE x \notin S
  <2>1. Len(l) <= Cardinality(S) + 1
    BY <1>1, <1>2, <1>3, <1>4, <1>10 DEF LosesNone
  <2>2. Belongs(l, x, CountOf(S)[x], unique)
    BY <1>1, <1>3, <1>10, <2>1, NewBelongs
  <2>3. IsPlaced(t.list, l, x, CountOf(S)[x]) /\ t.n = s.n
    BY <1>2, <1>7, <1>8, <2>2, InsertNew
  <2>4. OrderedBy(t.list, CountOf(T))
    <3>1. PICK u, C, D : u = t.list /\ C = CountOf(S) /\ D = CountOf(T)
      OBVIOUS
    <3>2. \A v \in Int : v < INT_MAX => D[v] = Plus(C[v], x <= v)
      BY <1>3, <1>5, <1>10, <3>1, RankAdd DEF IsNumbers
    <3>3. IsPlaced(u, l, x, C[x]) /\ OrderedBy(l, C)
      BY <1>3, <2>3, <3>1
    <3>4. OrderedBy(u, D)
      BY <1>1, <3>2, <3>3, PlacedInOrder
    <3> QED
      BY <3>1, <3>4
  <2>5. Len(t.list) = m + 1
    BY <1>3, <2>3 DEF IsPlaced
  <2>6. t.n = Len(list) - (m + 1 - Cardinality(T))
    BY <1>3, <1>4, <1>6, <1>10, <2>3
  <2>7. AllDistinct(t, list, m + 1)
    <3>1. PICK k \in Nat : k = m + 1
      OBVIOUS
    <3>2. T = Numbered(list, k) /\ Len(t.list) = k
      BY <1>2, <2>5, <3>1
    <3>3. t.n = Len(list) - (k - Cardinality(T))
      <4>1. Cardinality(T) \in Nat
        BY <1>4, <1>6
      <4> QED
        BY <1>4, <2>6, <3>1, <4>1
    <3>4. AllDistinct(t, list, k)
      BY <1>6, <2>4, <3>2, <3>3, SoDistinct
    <3> QED
      BY <3>1, <3>4
  <2> QED
    BY <1>1, <1>7, <2>7
<1> QED
  BY <1>9, <1>10

(* DeleteFrame sorts the numbers, each counted once, when it loses none    *)
(* of them.                                                                *)
LEMMA SortedDistinct ==
  ASSUME NEW list, IsGiven(list), LosesNone(list), NEW unique, Unique(unique)
  PROVE  AllDistinct(Sorted(list, unique), list, Len(list))
<1>0. Listed(list) /\ Len(list) \in Nat
  BY DEF IsGiven, Integers, Listed
<1>1. PICK U : U = Upto(list, unique)
  OBVIOUS
<1>2. /\ U[0] = [list |-> <<>>, n |-> Len(list)]
      /\ \A j \in 0 .. Len(list) - 1 : U[j + 1] = Insert(U[j], list[j + 1], unique)
  BY <1>0, <1>1, UptoSteps
<1> DEFINE S == {m \in 0 .. Len(list) : AllDistinct(U[m], list, m)}
<1>3. 0 \in S
  <2>0. Numbered(list, 0) = {}
    BY DEF Numbered
  <2>00. IsNumbers({}) /\ Cardinality({}) = 0
    BY FS_EmptySet DEF IsNumbers
  <2>1. PICK C : C = CountOf({})
    OBVIOUS
  <2>2. ASSUME NEW v \in Int PROVE C[v] = 0
    <3>1. {y \in {} : y <= v} = {}
      OBVIOUS
    <3> QED
      BY <2>1, <3>1, FS_EmptySet DEF CountOf
  <2>3. OrderedBy(<<>>, C)
    BY <2>2, NoNumbers
  <2>4. U[0].list = <<>> /\ U[0].n = Len(list) /\ Len(<<>>) = 0
    BY <1>2
  <2>5. AllDistinct(U[0], list, 0)
    <3>1. PICK s, e : s = U[0] /\ e = s.list
      OBVIOUS
    <3>2. e = <<>> /\ s.n = Len(list) - (0 - Cardinality({})) /\ Len(e) = 0
      BY <1>0, <2>00, <2>4, <3>1
    <3>3. OrderedBy(s.list, CountOf({}))
      BY <2>1, <2>3, <3>1, <3>2
    <3>4. AllDistinct(s, list, 0)
      BY <2>0, <2>00, <3>1, <3>2, <3>3, SoDistinct
    <3> QED
      BY <3>1, <3>4
  <2> QED
    BY <1>0, <2>5
<1>4. ASSUME NEW j \in 0 .. Len(list) - 1, j \in S PROVE j + 1 \in S
  <2>1. AllDistinct(U[j], list, j) /\ j \in Nat /\ j < Len(list) /\ j + 1 \in 0 .. Len(list)
    BY <1>0, <1>4
  <2>2. AllDistinct(Insert(U[j], list[j + 1], unique), list, j + 1)
    BY <2>1, OneMoreDistinct
  <2> QED
    BY <1>2, <2>1, <2>2
<1>5. \A j \in 0 .. Len(list) : j \in S
  <2> HIDE DEF S
  <2> QED
    BY <1>0, <1>3, <1>4, NumbersUpTo
<1>6. AllDistinct(U[Len(list)], list, Len(list))
  BY <1>0, <1>5
<1> QED
  BY <1>1, <1>6, SortedIs

(* As many are counted as the list has, at most. *)
LEMMA SortedCounts ==
  ASSUME NEW list, IsGiven(list), NEW unique
  PROVE  Sorted(list, unique).n \in Nat
<1>0. Listed(list) /\ Len(list) \in Nat
  BY DEF IsGiven, Integers, Listed
<1>1. PICK U : U = Upto(list, unique)
  OBVIOUS
<1>2. /\ U[0] = [list |-> <<>>, n |-> Len(list)]
      /\ \A j \in 0 .. Len(list) - 1 : U[j + 1] = Insert(U[j], list[j + 1], unique)
  BY <1>0, <1>1, UptoSteps
<1> DEFINE S == {m \in 0 .. Len(list) : U[m].n \in Int /\ U[m].n >= Len(list) - m}
<1>3. 0 \in S
  BY <1>0, <1>2
<1>4. ASSUME NEW j \in 0 .. Len(list) - 1, j \in S PROVE j + 1 \in S
  <2>1. PICK s, t : s = U[j] /\ t = Insert(s, list[j + 1], unique) /\ t = U[j + 1]
    BY <1>2
  <2>2. t.n = s.n \/ t.n = s.n - 1
    <3>1. s.n \in Int
      BY <1>4, <2>1
    <3>2. PICK a : t = [list |-> a, n |-> s.n - (IF Carried(s, list[j + 1], unique).same THEN 1 ELSE 0)]
      BY <2>1, InsertIs
    <3> QED
      BY <3>1, <3>2
  <2> QED
    BY <1>0, <1>4, <2>1, <2>2
<1>5. \A j \in 0 .. Len(list) : j \in S
  <2> HIDE DEF S
  <2> QED
    BY <1>0, <1>3, <1>4, NumbersUpTo
<1>6. U[Len(list)].n \in Int /\ U[Len(list)].n >= 0
  BY <1>0, <1>5
<1> QED
  BY <1>1, <1>6, SortedIs

-----------------------------------------------------------------------------
(* The first n of a list are all the numbers counted, in order.            *)
InOrder(s, n, C) ==
  /\ n \in Nat
  /\ \A i \in 1 .. n : s[i] \in Int
  /\ \A v \in Int : C[v] \in 0 .. n
  /\ \A v \in Int : \A i \in 1 .. C[v] : s[i] <= v
  /\ \A v \in Int : \A i \in C[v] + 1 .. n : v < s[i]

(* The part of an ordered list that is below INT_MAX is in order as it     *)
(* is.                                                                     *)
LEMMA WholeInOrder ==
  ASSUME NEW l, NEW C, OrderedBy(l, C), NEW n \in Nat, n <= Len(l), NEW w \in Int, w < INT_MAX, C[w] = n,
         \A v \in Int : C[v] \in 0 .. n, \A v \in Int : w <= v => C[v] = n
  PROVE  InOrder(l, n, C)
<1>0. INT_MAX \in Int
  BY EditingAssumption
<1>1. /\ Len(l) \in Nat /\ \A i \in 1 .. Len(l) : l[i] \in Int
  BY DEF OrderedBy, Integers, Listed
<1>2. \A i \in 1 .. n : l[i] <= w
  BY DEF OrderedBy
<1>3. ASSUME NEW v \in Int
      PROVE  /\ \A i \in 1 .. C[v] : l[i] <= v
             /\ \A i \in C[v] + 1 .. n : v < l[i]
  <2>1. PICK c \in 0 .. n : c = C[v]
    OBVIOUS
  <2>2. CASE v < INT_MAX
    <3>1. \A i \in 1 .. c : l[i] <= v
      BY <2>1, <2>2 DEF OrderedBy
    <3>2. \A i \in c + 1 .. Len(l) : v < l[i]
      BY <2>1, <2>2 DEF OrderedBy
    <3>3. ASSUME NEW i \in c + 1 .. n PROVE v < l[i]
      <4>1. i \in c + 1 .. Len(l)
        BY <1>1
      <4> QED
        BY <3>2, <4>1
    <3> QED
      BY <2>1, <3>1, <3>3
  <2>3. CASE ~(v < INT_MAX)
    <3>1. w <= v
      BY <1>0, <2>3
    <3>2. c = n
      BY <2>1, <3>1
    <3>3. ASSUME NEW i \in 1 .. c PROVE l[i] <= v
      <4>1. l[i] <= w /\ l[i] \in Int
        BY <1>1, <1>2, <3>2
      <4> QED
        BY <3>1, <4>1
    <3> QED
      BY <2>1, <3>2, <3>3
  <2> QED
    BY <2>2, <2>3
<1> QED
  BY <1>1, <1>3 DEF InOrder

(* No more are counted than there are. *)
LEMMA CountBounds ==
  ASSUME NEW S, IsNumbers(S), NEW v \in Int
  PROVE  CountOf(S)[v] \in 0 .. Cardinality(S) /\ Cardinality(S) \in Nat
<1>1. PICK T : T = {y \in S : y <= v}
  OBVIOUS
<1>2. IsFiniteSet(T) /\ Cardinality(T) <= Cardinality(S)
  BY <1>1, FS_Subset DEF IsNumbers
<1>3. Cardinality(T) \in Nat /\ Cardinality(S) \in Nat
  BY <1>2, FS_CardinalityType DEF IsNumbers
<1> QED
  BY <1>1, <1>2, <1>3 DEF CountOf

(* So are the different numbers that DeleteFrame sorts, *)
LEMMA DistinctInOrder ==
  ASSUME NEW s, NEW list, IsGiven(list), AllDistinct(s, list, Len(list)),
         NEW S, S = Numbered(list, Len(list))
  PROVE  IsNumbers(S) /\ s.n = Cardinality(S) /\ InOrder(s.list, s.n, CountOf(S))
<1>0. INT_MAX \in Int
  BY EditingAssumption
<1>1. IsNumbers(S) /\ OrderedBy(s.list, CountOf(S)) /\ Len(s.list) = Len(list)
  BY DEF AllDistinct
<1>2. Len(list) \in Nat /\ Cardinality(S) \in Nat
  BY <1>1, FS_CardinalityType DEF IsGiven, Integers, Listed, IsNumbers
<1>3. s.n = Cardinality(S)
  <2>1. s.n = Len(list) - (Len(list) - Cardinality(S))
    BY DEF AllDistinct
  <2> QED
    BY <1>2, <2>1
<1>20. PICK n \in Nat : n = s.n
  BY <1>2, <1>3
<1>21. PICK w \in Int : w = INT_MAX - 1
  BY <1>0
<1>22. PICK l, C : l = s.list /\ C = CountOf(S)
  OBVIOUS
<1>4. l = s.list /\ C = CountOf(S) /\ n = s.n /\ w = INT_MAX - 1
  BY <1>20, <1>21, <1>22
<1>5. w < INT_MAX /\ OrderedBy(l, C)
  BY <1>0, <1>1, <1>4
<1>6. C[w] = n
  BY <1>1, <1>3, <1>4, AllBelow
<1>7. n <= Len(l)
  <2>1. C[w] \in 0 .. Len(l)
    BY <1>5 DEF OrderedBy
  <2> QED
    BY <1>6, <2>1
<1>8. \A v \in Int : C[v] \in 0 .. n
  BY <1>1, <1>3, <1>4, CountBounds
<1>9. ASSUME NEW v \in Int, w <= v PROVE C[v] = n
  <2>1. \A y \in Int : y < INT_MAX => y <= v
    BY <1>0, <1>4, <1>9
  <2>2. {y \in S : y <= v} = S
    BY <1>1, <2>1 DEF IsNumbers
  <2> QED
    BY <1>3, <1>4, <2>2 DEF CountOf
<1>10. InOrder(l, n, C)
  BY <1>5, <1>6, <1>7, <1>8, <1>9, WholeInOrder
<1> QED
  BY <1>1, <1>3, <1>4, <1>10

(* and all the numbers that DuplicateFrame does. *)
LEMMA SortedInOrder ==
  ASSUME NEW s, NEW list, IsGiven(list), AllSorted(s, list, Len(list))
  PROVE  s.n = Len(list) /\ InOrder(s.list, s.n, CountIn(list, Len(list)))
<1>0. INT_MAX \in Int
  BY EditingAssumption
<1>1. Len(list) \in Nat /\ \A i \in 1 .. Len(list) : list[i] \in Int /\ list[i] < INT_MAX
  BY DEF IsGiven, Integers, Listed
<1>20. PICK n \in Nat : n = Len(list)
  BY <1>1
<1>21. PICK w \in Int : w = INT_MAX - 1
  BY <1>0
<1>22. PICK l, C : l = s.list /\ C = CountIn(list, Len(list))
  OBVIOUS
<1>4. l = s.list /\ C = CountIn(list, Len(list)) /\ n = Len(list) /\ w = INT_MAX - 1
  BY <1>20, <1>21, <1>22
<1>5. w < INT_MAX /\ OrderedBy(l, C) /\ Len(l) = n /\ s.n = n
  BY <1>0, <1>4 DEF AllSorted
<1>6. IsFiniteSet(1 .. n) /\ Cardinality(1 .. n) = n
  BY FS_Interval
<1>8. ASSUME NEW v \in Int PROVE C[v] \in 0 .. n
  <2>1. PICK T \in SUBSET (1 .. n) : T = {i \in 1 .. n : list[i] <= v}
    OBVIOUS
  <2>2. IsFiniteSet(T) /\ Cardinality(T) <= n
    BY <1>6, FS_Subset
  <2>3. Cardinality(T) \in Nat
    BY <2>2, FS_CardinalityType
  <2> QED
    BY <1>4, <2>1, <2>2, <2>3 DEF CountIn
<1>9. ASSUME NEW v \in Int, w <= v PROVE C[v] = n
  <2>1. \A y \in Int : y < INT_MAX => y <= v
    BY <1>0, <1>4, <1>9
  <2>2. {i \in 1 .. n : list[i] <= v} = 1 .. n
    BY <1>1, <1>4, <2>1
  <2> QED
    BY <1>4, <1>6, <2>2 DEF CountIn
<1>11. C[w] = n
  BY <1>9
<1>10. InOrder(l, n, C)
  BY <1>5, <1>11, <1>8, <1>9, WholeInOrder
<1> QED
  BY <1>4, <1>5, <1>10

(* In order, and strictly so when every number is counted once.            *)
LEMMA Ascending ==
  ASSUME NEW s, NEW n, NEW C, InOrder(s, n, C), NEW a \in 1 .. n, NEW b \in 1 .. n, a <= b
  PROVE  s[a] <= s[b]
<1>1. n \in Nat /\ \A i \in 1 .. n : s[i] \in Int
  BY DEF InOrder
<1>2. PICK v \in Int : v = s[b]
  BY <1>1
<1>3. PICK c \in 0 .. n : c = C[v]
  BY DEF InOrder
<1>4. \A i \in 1 .. c : s[i] <= v
  BY <1>3 DEF InOrder
<1>5. \A i \in c + 1 .. n : v < s[i]
  BY <1>3 DEF InOrder
<1>6. b <= c
  <2>1. CASE c < b
    <3>1. v < s[b]
      BY <1>1, <1>5, <2>1
    <3> QED
      BY <1>2, <3>1
  <2> QED
    BY <1>1, <2>1
<1> QED
  BY <1>1, <1>2, <1>4, <1>6

Jumps(C, S) == \A v \in Int : C[v] = Plus(C[v - 1], v \in S)

(* Numbers counted once each rise from one to the next, *)
LEMMA NextHigher ==
  ASSUME NEW s, NEW n, NEW C, InOrder(s, n, C), NEW S, Jumps(C, S), NEW b \in 1 .. n - 1
  PROVE  s[b] < s[b + 1]
<1>1. n \in Nat /\ \A i \in 1 .. n : s[i] \in Int
  BY DEF InOrder
<1>2. PICK v \in Int, w \in Int : v = s[b + 1] /\ w = v - 1
  BY <1>1
<1>3. PICK c \in 0 .. n, d \in 0 .. n : c = C[v] /\ d = C[w]
  BY DEF InOrder
<1>4. \A i \in 1 .. d : s[i] <= w
  BY <1>3 DEF InOrder
<1>5. \A i \in c + 1 .. n : v < s[i]
  BY <1>3 DEF InOrder
<1>6. b + 1 <= c
  <2>1. CASE c < b + 1
    <3>1. v < s[b + 1]
      BY <1>1, <1>5, <2>1
    <3> QED
      BY <1>2, <3>1
  <2> QED
    BY <1>1, <2>1
<1>7. c <= d + 1
  BY <1>2, <1>3 DEF Jumps, Plus
<1>8. s[b] <= w
  BY <1>1, <1>4, <1>6, <1>7
<1> QED
  BY <1>1, <1>2, <1>8

Apart(s, n) == \A a \in 1 .. n : \A b \in a .. n : s[a] + (b - a) <= s[b]

(* and are as far apart as their places. *)
LEMMA WellApart ==
  ASSUME NEW s, NEW n, NEW C, InOrder(s, n, C), NEW S, Jumps(C, S)
  PROVE  Apart(s, n)
<1>1. n \in Nat /\ \A i \in 1 .. n : s[i] \in Int
  BY DEF InOrder
<1>2. SUFFICES ASSUME NEW a \in 1 .. n PROVE \A b \in a .. n : s[a] + (b - a) <= s[b]
  BY DEF Apart
<1> DEFINE T == {k \in 0 .. n - a : s[a] + k <= s[a + k]}
<1>3. 0 \in T
  BY <1>1
<1>4. ASSUME NEW k \in 0 .. (n - a) - 1, k \in T PROVE k + 1 \in T
  <2>1. PICK b \in 1 .. n - 1 : b = a + k
    BY <1>1
  <2>2. s[b] < s[b + 1]
    BY NextHigher
  <2>3. s[a] \in Int /\ s[b] \in Int /\ s[b + 1] \in Int /\ s[a] + k <= s[b]
    BY <1>1, <1>4, <2>1
  <2>4. s[a] + (k + 1) <= s[b + 1] /\ b + 1 = a + (k + 1)
    BY <2>1, <2>2, <2>3
  <2>5. k + 1 \in 0 .. n - a
    BY <1>1
  <2> QED
    BY <2>4, <2>5
<1>5. \A k \in 0 .. n - a : k \in T
  <2>1. n - a \in Nat
    BY <1>1
  <2> HIDE DEF T
  <2> QED
    BY <1>3, <1>4, <2>1, NumbersUpTo
<1>6. ASSUME NEW b \in a .. n PROVE s[a] + (b - a) <= s[b]
  <2>1. PICK k \in 0 .. n - a : k = b - a
    BY <1>1
  <2>2. k \in T
    BY <1>5
  <2>3. s[a] + k <= s[a + k] /\ a + k = b
    BY <1>1, <2>1, <2>2
  <2> QED
    BY <2>1, <2>3
<1> QED
  BY <1>6

-----------------------------------------------------------------------------
(* A filter that leaves out, or repeats, frame a of the one it asks.       *)
Deletes(G, K, k, a)    == \A x \in Int : G[K][x] = G[k][IF x >= a THEN x + 1 ELSE x]
Duplicates(G, K, k, a) == \A x \in Int : G[K][x] = G[k][IF x > a THEN x - 1 ELSE x]

(* One after the other, the greatest frame first.                          *)
DeleteChain(G, t, s, n)    == \A k \in 1 .. n : Deletes(G, t + k, t + k - 1, s[n + 1 - k])
DuplicateChain(G, t, s, n) == \A k \in 1 .. n : Duplicates(G, t + k, t + k - 1, s[n + 1 - k])

IntList(s, n)  == n \in Nat /\ \A i \in 1 .. n : s[i] \in Int
Risen(s, n)    == \A a \in 1 .. n : \A b \in a .. n : s[a] <= s[b]

DeletedTo(G, t, s, n, k) ==
  \A i \in n - k .. n : \A j \in Int :
    (i > n - k => s[i] < j) /\ (i < n => j < s[i + 1]) => G[t + k][j - (i - (n - k))] = G[t][j]

DuplicatedTo(G, t, s, n, k) ==
  \A i \in n - k .. n : \A j \in Int :
    (i > n - k => s[i] <= j) /\ (i < n => j <= s[i + 1]) => G[t + k][j + (i - (n - k))] = G[t][j]

(* One filter more leaves out one frame more, before all those left out    *)
(* so far.                                                                 *)
LEMMA DeletedOneMore ==
  ASSUME NEW G, NEW t \in Nat, NEW s, NEW n, IntList(s, n), Apart(s, n), NEW k \in Nat, k < n,
         DeletedTo(G, t, s, n, k), NEW K, K = t + (k + 1), Deletes(G, K, t + k, s[n - k])
  PROVE  DeletedTo(G, t, s, n, k + 1)
<1>0. n \in Nat /\ \A i \in 1 .. n : s[i] \in Int
  BY DEF IntList
<1> DEFINE lo == n - (k + 1)
<1>1. lo \in Nat /\ lo + 1 = n - k /\ lo + 1 \in 1 .. n /\ lo < n
  BY <1>0
<1>2. SUFFICES ASSUME NEW i \in lo .. n, NEW j \in Int, i > lo => s[i] < j, i < n => j < s[i + 1]
               PROVE  G[K][j - (i - lo)] = G[t][j]
  BY DEF DeletedTo
<1> HIDE DEF lo
<1>3. PICK a \in Int : a = s[lo + 1]
  BY <1>0, <1>1
<1>4. \A x \in Int : G[K][x] = G[t + k][IF x >= a THEN x + 1 ELSE x]
  BY <1>1, <1>3 DEF Deletes
<1>5. CASE i = lo
  <2>1. j < a
    BY <1>0, <1>1, <1>2, <1>3, <1>5
  <2>2. G[K][j] = G[t + k][j]
    BY <1>4, <2>1
  <2>3. ASSUME lo + 1 < n PROVE j < s[(lo + 1) + 1]
    <3>1. lo + 2 \in 1 .. n /\ lo + 2 \in lo + 1 .. n
      BY <1>0, <1>1, <2>3
    <3>2. s[lo + 1] + ((lo + 2) - (lo + 1)) <= s[lo + 2]
      BY <1>1, <3>1 DEF Apart
    <3> QED
      BY <1>0, <1>1, <1>3, <2>1, <3>1, <3>2
  <2>4. lo + 1 \in n - k .. n
    BY <1>0, <1>1
  <2>5. G[t + k][j - ((lo + 1) - (n - k))] = G[t][j]
    BY <1>0, <1>1, <2>3, <2>4 DEF DeletedTo
  <2>6. j - ((lo + 1) - (n - k)) = j /\ j - (i - lo) = j
    BY <1>0, <1>1, <1>5
  <2> QED
    BY <2>2, <2>5, <2>6
<1>6. CASE i > lo
  <2>1. i \in 1 .. n /\ i \in lo + 1 .. n /\ i \in n - k .. n
    BY <1>0, <1>1, <1>6
  <2>2. s[i] \in Int /\ s[i] < j
    BY <1>0, <1>2, <1>6, <2>1
  <2>3. a + (i - (lo + 1)) <= s[i]
    BY <1>1, <1>3, <2>1 DEF Apart
  <2>4. PICK x \in Int : x = j - (i - lo)
    BY <1>1
  <2>5. x >= a
    BY <1>1, <2>1, <2>2, <2>3, <2>4
  <2>6. G[K][x] = G[t + k][x + 1]
    BY <1>4, <2>5
  <2>7. G[t + k][j - (i - (n - k))] = G[t][j]
    BY <1>0, <1>1, <1>2, <2>1, <2>2 DEF DeletedTo
  <2>8. x + 1 = j - (i - (n - k))
    BY <1>0, <1>1, <2>1, <2>4
  <2> QED
    BY <2>4, <2>6, <2>7, <2>8
<1> QED
  BY <1>0, <1>1, <1>5, <1>6

(* One filter more repeats one frame more. *)
LEMMA DuplicatedOneMore ==
  ASSUME NEW G, NEW t \in Nat, NEW s, NEW n, IntList(s, n), Risen(s, n), NEW k \in Nat, k < n,
         DuplicatedTo(G, t, s, n, k), NEW K, K = t + (k + 1), Duplicates(G, K, t + k, s[n - k])
  PROVE  DuplicatedTo(G, t, s, n, k + 1)
<1>0. n \in Nat /\ \A i \in 1 .. n : s[i] \in Int
  BY DEF IntList
<1> DEFINE lo == n - (k + 1)
<1>1. lo \in Nat /\ lo + 1 = n - k /\ lo + 1 \in 1 .. n /\ lo < n
  BY <1>0
<1>2. SUFFICES ASSUME NEW i \in lo .. n, NEW j \in Int, i > lo => s[i] <= j, i < n => j <= s[i + 1]
               PROVE  G[K][j + (i - lo)] = G[t][j]
  BY DEF DuplicatedTo
<1> HIDE DEF lo
<1>3. PICK a \in Int : a = s[lo + 1]
  BY <1>0, <1>1
<1>4. \A x \in Int : G[K][x] = G[t + k][IF x > a THEN x - 1 ELSE x]
  BY <1>1, <1>3 DEF Duplicates
<1>5. CASE i = lo
  <2>1. j <= a
    BY <1>0, <1>1, <1>2, <1>3, <1>5
  <2>2. G[K][j] = G[t + k][j]
    BY <1>4, <2>1
  <2>3. ASSUME lo + 1 < n PROVE j <= s[(lo + 1) + 1]
    <3>1. lo + 2 \in 1 .. n /\ lo + 2 \in lo + 1 .. n
      BY <1>0, <1>1, <2>3
    <3>2. s[lo + 1] <= s[lo + 2]
      BY <1>1, <3>1 DEF Risen
    <3> QED
      BY <1>0, <1>1, <1>3, <2>1, <3>1, <3>2
  <2>4. lo + 1 \in n - k .. n
    BY <1>0, <1>1
  <2>5. G[t + k][j + ((lo + 1) - (n - k))] = G[t][j]
    <3>1. PICK e \in n - k .. n : e = lo + 1
      BY <2>4
    <3>2. ~(e > n - k) /\ (e < n => j <= s[e + 1])
      BY <1>0, <1>1, <2>3, <3>1
    <3>3. G[t + k][j + (e - (n - k))] = G[t][j]
      BY <3>2 DEF DuplicatedTo
    <3> QED
      BY <3>1, <3>3
  <2>6. j + ((lo + 1) - (n - k)) = j /\ j + (i - lo) = j
    BY <1>0, <1>1, <1>5
  <2> QED
    BY <2>2, <2>5, <2>6
<1>6. CASE i > lo
  <2>1. i \in 1 .. n /\ i \in lo + 1 .. n /\ i \in n - k .. n
    BY <1>0, <1>1, <1>6
  <2>2. s[i] \in Int /\ s[i] <= j
    BY <1>0, <1>2, <1>6, <2>1
  <2>3. a <= s[i]
    BY <1>1, <1>3, <2>1 DEF Risen
  <2>4. PICK x \in Int : x = j + (i - lo)
    BY <1>1
  <2>5. x > a
    BY <1>1, <1>6, <2>1, <2>2, <2>3, <2>4
  <2>6. G[K][x] = G[t + k][x - 1]
    BY <1>4, <2>5
  <2>7. G[t + k][j + (i - (n - k))] = G[t][j]
    BY <1>0, <1>1, <1>2, <2>1, <2>2 DEF DuplicatedTo
  <2>8. x - 1 = j + (i - (n - k))
    BY <1>0, <1>1, <2>1, <2>4
  <2> QED
    BY <2>4, <2>6, <2>7, <2>8
<1> QED
  BY <1>0, <1>1, <1>5, <1>6

(* All frames are left out. *)
LEMMA AllDeletedTo ==
  ASSUME NEW G, NEW t \in Nat, NEW s, NEW n, IntList(s, n), Apart(s, n), DeleteChain(G, t, s, n)
  PROVE  DeletedTo(G, t, s, n, n)
<1>0. n \in Nat /\ \A i \in 1 .. n : s[i] \in Int
  BY DEF IntList
<1> DEFINE T == {k \in 0 .. n : DeletedTo(G, t, s, n, k)}
<1>1. 0 \in T
  <2>1. DeletedTo(G, t, s, n, 0)
    <3>1. SUFFICES ASSUME NEW i \in n .. n, NEW j \in Int PROVE G[t][j - (i - n)] = G[t][j]
      BY <1>0 DEF DeletedTo
    <3>2. j - (i - n) = j
      BY <1>0
    <3> QED
      BY <3>2
  <2> QED
    BY <1>0, <2>1
<1>2. ASSUME NEW k \in 0 .. n - 1, k \in T PROVE k + 1 \in T
  <2>1. k + 1 \in 1 .. n /\ k < n /\ k \in Nat
    BY <1>0
  <2>2. PICK K \in Nat : K = t + (k + 1)
    BY <2>1
  <2>3. Deletes(G, t + (k + 1), t + (k + 1) - 1, s[n + 1 - (k + 1)])
    BY <2>1 DEF DeleteChain
  <2>4. t + (k + 1) - 1 = t + k /\ n + 1 - (k + 1) = n - k
    BY <1>0, <2>1
  <2>5. Deletes(G, K, t + k, s[n - k])
    BY <2>2, <2>3, <2>4
  <2>6. DeletedTo(G, t, s, n, k)
    BY <1>2
  <2>7. DeletedTo(G, t, s, n, k + 1)
    BY <2>1, <2>2, <2>5, <2>6, DeletedOneMore
  <2> QED
    BY <2>1, <2>7
<1>3. \A k \in 0 .. n : k \in T
  <2> HIDE DEF T
  <2> QED
    BY <1>0, <1>1, <1>2, NumbersUpTo
<1> QED
  BY <1>0, <1>3

(* All are repeated. *)
LEMMA AllDuplicatedTo ==
  ASSUME NEW G, NEW t \in Nat, NEW s, NEW n, IntList(s, n), Risen(s, n), DuplicateChain(G, t, s, n)
  PROVE  DuplicatedTo(G, t, s, n, n)
<1>0. n \in Nat /\ \A i \in 1 .. n : s[i] \in Int
  BY DEF IntList
<1> DEFINE T == {k \in 0 .. n : DuplicatedTo(G, t, s, n, k)}
<1>1. 0 \in T
  <2>1. DuplicatedTo(G, t, s, n, 0)
    <3>1. SUFFICES ASSUME NEW i \in n .. n, NEW j \in Int PROVE G[t][j + (i - n)] = G[t][j]
      BY <1>0 DEF DuplicatedTo
    <3>2. j + (i - n) = j
      BY <1>0
    <3> QED
      BY <3>2
  <2> QED
    BY <1>0, <2>1
<1>2. ASSUME NEW k \in 0 .. n - 1, k \in T PROVE k + 1 \in T
  <2>1. k + 1 \in 1 .. n /\ k < n /\ k \in Nat
    BY <1>0
  <2>2. PICK K \in Nat : K = t + (k + 1)
    BY <2>1
  <2>3. Duplicates(G, t + (k + 1), t + (k + 1) - 1, s[n + 1 - (k + 1)])
    BY <2>1 DEF DuplicateChain
  <2>4. t + (k + 1) - 1 = t + k /\ n + 1 - (k + 1) = n - k
    BY <1>0, <2>1
  <2>5. Duplicates(G, K, t + k, s[n - k])
    BY <2>2, <2>3, <2>4
  <2>6. DuplicatedTo(G, t, s, n, k)
    BY <1>2
  <2>7. DuplicatedTo(G, t, s, n, k + 1)
    BY <2>1, <2>2, <2>5, <2>6, DuplicatedOneMore
  <2> QED
    BY <2>1, <2>7
<1>3. \A k \in 0 .. n : k \in T
  <2> HIDE DEF T
  <2> QED
    BY <1>0, <1>1, <1>2, NumbersUpTo
<1> QED
  BY <1>0, <1>3

(* A frame not left out is shown as many places earlier as there are       *)
(* frames left out before it.                                              *)
LEMMA DeleteShows ==
  ASSUME NEW s, NEW n, NEW C, InOrder(s, n, C), NEW S, Jumps(C, S),
         NEW G, NEW t \in Nat, DeleteChain(G, t, s, n), NEW j \in Int, j \notin S
  PROVE  G[t + n][j - C[j]] = G[t][j]
<1>1. n \in Nat /\ \A i \in 1 .. n : s[i] \in Int
  BY DEF InOrder
<1>2. DeletedTo(G, t, s, n, n)
  <2>1. IntList(s, n)
    BY <1>1 DEF IntList
  <2>2. Apart(s, n)
    BY WellApart
  <2> QED
    BY <2>1, <2>2, AllDeletedTo
<1>3. PICK i \in 0 .. n : i = C[j]
  BY DEF InOrder
<1>4. PICK v \in Int : v = j - 1
  OBVIOUS
<1>5. C[v] = i
  <2>1. PICK d \in 0 .. n : d = C[v]
    BY DEF InOrder
  <2>2. i = Plus(d, j \in S)
    BY <1>3, <1>4, <2>1 DEF Jumps
  <2> QED
    BY <2>1, <2>2 DEF Plus
<1>6. i > 0 => s[i] < j
  <2>1. \A b \in 1 .. i : s[b] <= v
    BY <1>5 DEF InOrder
  <2> QED
    BY <1>1, <1>4, <2>1
<1>7. i < n => j < s[i + 1]
  <2>1. \A b \in i + 1 .. n : j < s[b]
    BY <1>3 DEF InOrder
  <2> QED
    BY <1>1, <2>1
<1>8. n - n = 0 /\ i \in n - n .. n /\ j - (i - (n - n)) = j - i
  BY <1>1
<1>9. G[t + n][j - (i - (n - n))] = G[t][j]
  BY <1>1, <1>2, <1>6, <1>7, <1>8 DEF DeletedTo
<1> QED
  BY <1>3, <1>8, <1>9

(* A frame is shown once more for each time that it is repeated, after as  *)
(* many others as there are repeats before it.                             *)
CopiesBefore(C, j, i) == i \in C[j - 1] .. C[j]
ShownLater(G, K, k, j, i) == G[K][j + i] = G[k][j]

(* By the way that the filters ask one another. *)
LEMMA DuplicateShows ==
  ASSUME NEW s, NEW n, NEW C, InOrder(s, n, C),
         NEW G, NEW t \in Nat, DuplicateChain(G, t, s, n), NEW j \in Int, NEW i, CopiesBefore(C, j, i)
  PROVE  ShownLater(G, t + n, t, j, i)
<1>1. n \in Nat /\ \A k \in 1 .. n : s[k] \in Int
  BY DEF InOrder
<1>2. DuplicatedTo(G, t, s, n, n)
  <2>1. IntList(s, n)
    BY <1>1 DEF IntList
  <2>2. Risen(s, n)
    BY Ascending, <1>1 DEF Risen
  <2> QED
    BY <2>1, <2>2, AllDuplicatedTo
<1>4. PICK v \in Int : v = j - 1
  OBVIOUS
<1>3. PICK c \in 0 .. n, d \in 0 .. n : c = C[j] /\ d = C[v]
  BY DEF InOrder
<1>5. i \in d .. c
  BY <1>3, <1>4 DEF CopiesBefore
<1>6. i > 0 => s[i] <= j
  <2>1. \A b \in 1 .. c : s[b] <= j
    BY <1>3 DEF InOrder
  <2> QED
    BY <1>1, <1>5, <2>1
<1>7. i < n => j <= s[i + 1]
  <2>1. \A b \in d + 1 .. n : v < s[b]
    BY <1>3 DEF InOrder
  <2> QED
    BY <1>1, <1>4, <1>5, <2>1
<1>8. n - n = 0 /\ i \in n - n .. n /\ j + (i - (n - n)) = j + i
  BY <1>1, <1>5
<1>9. G[t + n][j + (i - (n - n))] = G[t][j]
  BY <1>1, <1>2, <1>6, <1>7, <1>8 DEF DuplicatedTo
<1> QED
  BY <1>8, <1>9 DEF ShownLater

-----------------------------------------------------------------------------
(* Frames 1 .. F but for those after the numbers in S. *)
IsKept(kept, F, S) == F \in Nat /\ IsNumbers(S) /\ kept = {x \in 1 .. F : x - 1 \notin S} /\ \A y \in S : y >= 0

(* A number has as many of the kept below it as are not left out.          *)
KeptBelow(D, C, F) == \A j \in 0 .. F : D[j] \in Nat /\ D[j] = j - C[j - 1]

(* None is counted below the least. *)
LEMMA NoneBelow ==
  ASSUME NEW S, NEW v \in Int, \A y \in S : ~(y <= v)
  PROVE  CountOf(S)[v] = 0
<1>1. {y \in S : y <= v} = {}
  OBVIOUS
<1> QED
  BY <1>1, FS_EmptySet DEF CountOf

(* There are finitely many frames. *)
LEMMA KeptFinite ==
  ASSUME NEW kept, NEW F, NEW S, IsKept(kept, F, S)
  PROVE  IsFiniteSet(kept) /\ kept \subseteq Int
<1>1. IsFiniteSet(1 .. F) /\ kept \subseteq 1 .. F
  BY FS_Interval DEF IsKept
<1>2. kept \subseteq Int
  BY DEF IsKept
<1> QED
  BY <1>1, <1>2, FS_Subset

(* Of the first j frames those are kept that are not left out. *)
LEMMA KeptCount ==
  ASSUME NEW kept, NEW F, NEW S, IsKept(kept, F, S)
  PROVE  KeptBelow(CountOf(kept), CountOf(S), F)
<1>0. F \in Nat /\ IsFiniteSet(S) /\ S \subseteq Int /\ IsFiniteSet(kept) /\ kept \subseteq Int
  BY KeptFinite DEF IsKept, IsNumbers
<1>1. PICK C, D : C = CountOf(S) /\ D = CountOf(kept)
  OBVIOUS
<1> DEFINE T == {j \in 0 .. F : D[j] \in Nat /\ D[j] = j - C[j - 1]}
<1>2. 0 \in T
  <2>1. D[0] = 0
    <3>1. \A y \in kept : ~(y <= 0)
      BY DEF IsKept
    <3> QED
      BY <1>1, <3>1, NoneBelow
  <2>2. C[0 - 1] = 0
    <3>1. PICK v \in Int : v = 0 - 1
      OBVIOUS
    <3>2. \A y \in S : ~(y <= v)
      BY <1>0, <3>1 DEF IsKept
    <3> QED
      BY <1>1, <3>1, <3>2, NoneBelow
  <2> QED
    BY <1>0, <2>1, <2>2
<1>3. ASSUME NEW j \in 0 .. F - 1, j \in T PROVE j + 1 \in T
  <2>1. PICK k \in Int : k = j + 1
    BY <1>0
  <2>2. j \in Int /\ k - 1 = j /\ k \in 0 .. F /\ k \in 1 .. F
    BY <1>0, <2>1
  <2>3. PICK b, e : b = (k \in kept) /\ e = (j \in S)
    OBVIOUS
  <2>4. D[k] = Plus(D[j], b)
    BY <1>0, <1>1, <2>2, <2>3, RankStep
  <2>5. C[j] = Plus(C[j - 1], e) /\ C[j - 1] \in Nat
    BY <1>0, <1>1, <2>2, <2>3, RankStep
  <2>6. (k \in kept) <=> ~(j \in S)
    BY <2>2 DEF IsKept
  <2>7. D[j] \in Nat /\ D[j] = j - C[j - 1]
    BY <1>3
  <2>8. D[k] \in Nat /\ D[k] = k - C[j]
    <3>1. CASE j \in S
      <4>1. C[j] = C[j - 1] + 1 /\ D[k] = D[j] + 0
        BY <2>3, <2>4, <2>5, <2>6, <3>1 DEF Plus
      <4> QED
        BY <2>1, <2>2, <2>5, <2>7, <4>1
    <3>2. CASE j \notin S
      <4>1. C[j] = C[j - 1] + 0 /\ D[k] = D[j] + 1
        BY <2>3, <2>4, <2>5, <2>6, <3>2 DEF Plus
      <4> QED
        BY <2>1, <2>2, <2>5, <2>7, <4>1
    <3> QED
      BY <3>1, <3>2
  <2> QED
    BY <2>1, <2>2, <2>8
<1>4. \A j \in 0 .. F : j \in T
  <2> HIDE DEF T
  <2> QED
    BY <1>0, <1>2, <1>3, NumbersUpTo
<1> QED
  BY <1>1, <1>4 DEF KeptBelow

Rises(D, S, v, w) ==
  /\ D[w] \in Nat
  /\ v \in S => D[v] = D[w] + 1
  /\ v \notin S => D[v] = D[w]

(* RankStep, as it is needed here. *)
LEMMA RankNext ==
  ASSUME NEW S, IsFiniteSet(S), S \subseteq Int, NEW D, D = CountOf(S), NEW v \in Int, NEW w \in Int, w = v - 1
  PROVE  Rises(D, S, v, w)
<1>1. D[v] = Plus(D[w], v \in S) /\ D[w] \in Nat
  BY RankStep
<1>2. v \in S => D[v] = D[w] + 1
  BY <1>1 DEF Plus
<1>3. v \notin S => D[v] = D[w]
  BY <1>1 DEF Plus
<1> QED
  BY <1>1, <1>2, <1>3 DEF Rises

(* Each of them is the n-th for some n.                                    *)
Reached(kept, D, m) == \A q \in 1 .. m : \E k \in kept : D[k] = q

(* There is an n-th kept frame for every n up to their number. *)
LEMMA AllReached ==
  ASSUME NEW kept, NEW F, NEW S, IsKept(kept, F, S)
  PROVE  Reached(kept, CountOf(kept), CountOf(kept)[F])
<1>0. F \in Nat /\ IsFiniteSet(kept) /\ kept \subseteq Int
  BY KeptFinite DEF IsKept
<1>1. PICK C, D : C = CountOf(S) /\ D = CountOf(kept)
  OBVIOUS
<1>2. \A j \in 0 .. F : D[j] \in Nat
  BY <1>1, KeptCount DEF KeptBelow
<1> DEFINE T == {j \in 0 .. F : Reached(kept, D, D[j])}
<1>3. 0 \in T
  <2>1. \A y \in kept : ~(y <= 0)
    BY DEF IsKept
  <2>2. D[0] = 0
    BY <1>1, <2>1, NoneBelow
  <2> QED
    BY <1>0, <2>2 DEF Reached
<1>4. ASSUME NEW j \in 0 .. F - 1, j \in T PROVE j + 1 \in T
  <2>1. PICK k \in Int : k = j + 1
    BY <1>0
  <2>2. j \in Int /\ j = k - 1 /\ k \in 0 .. F /\ j \in 0 .. F
    BY <1>0, <2>1
  <2>4. D[k] = IF k \in kept THEN D[j] + 1 ELSE D[j]
    <3>1. IsFiniteSet(kept) /\ kept \subseteq Int /\ D = CountOf(kept)
      BY <1>0, <1>1
    <3>2. PICK w \in Int : w = j
      BY <2>2
    <3>3. w = k - 1
      BY <2>2, <3>2
    <3>4. Rises(D, kept, k, w)
      BY <3>1, <3>3, RankNext
    <3> QED
      BY <3>2, <3>4 DEF Rises
  <2>5. D[j] \in Nat /\ D[k] \in Nat
    BY <1>2, <2>2
  <2>6. \A q \in 1 .. D[j] : \E x \in kept : D[x] = q
    BY <1>4 DEF Reached
  <2>7. CASE k \in kept
    <3>1. D[k] = D[j] + 1
      BY <2>4, <2>7
    <3>2. ASSUME NEW q \in 1 .. D[k] PROVE \E x \in kept : D[x] = q
      BY <2>5, <2>6, <2>7, <3>1
    <3> QED
      BY <2>1, <2>2, <3>2 DEF Reached
  <2>8. CASE k \notin kept
    <3>1. D[k] = D[j]
      BY <2>4, <2>8
    <3> QED
      BY <2>1, <2>2, <2>5, <2>6, <3>1 DEF Reached
  <2> QED
    BY <2>7, <2>8
<1>5. \A j \in 0 .. F : j \in T
  <2> HIDE DEF T
  <2> QED
    BY <1>0, <1>3, <1>4, NumbersUpTo
<1> QED
  BY <1>0, <1>1, <1>5

(* It is the one that Nth chooses. *)
LEMMA NthIs ==
  ASSUME NEW kept, kept \subseteq Int, NEW q, \E k \in kept : CountOf(kept)[k] = q
  PROVE  Nth(kept, q) \in kept /\ CountOf(kept)[Nth(kept, q)] = q
<1>1. \A k \in kept : CountOf(kept)[k] = Cardinality({j \in kept : j <= k})
  BY DEF CountOf
<1>2. \E k \in kept : Cardinality({j \in kept : j <= k}) = q
  BY <1>1
<1>3. Nth(kept, q) \in kept /\ Cardinality({j \in kept : j <= Nth(kept, q)}) = q
  BY <1>2 DEF Nth
<1> QED
  BY <1>1, <1>3

(* All are counted up to the greatest. *)
LEMMA AllCounted ==
  ASSUME NEW S, S \subseteq Int, NEW v \in Int, \A y \in S : y <= v
  PROVE  CountOf(S)[v] = Cardinality(S)
<1>1. {y \in S : y <= v} = S
  OBVIOUS
<1> QED
  BY <1>1 DEF CountOf

KeptFrames(fr, kept) == [q \in 1 .. Cardinality(kept) |-> fr[Nth(kept, q)]]

AreShown(G, K, u, c) == Listed(u) /\ Len(u) = c /\ ShowsUpto(G, K, u, Len(u))

(* The numbers of a set, in order, and the frames that are kept.           *)
Leaving(s, n, S, fr, kept, F) ==
  /\ n = Cardinality(S) /\ InOrder(s, n, CountOf(S))
  /\ Listed(fr) /\ F = Len(fr) /\ IsKept(kept, F, S) /\ \A y \in S : y < F

(* The frames that are kept, where the filters show them. *)
LEMMA DeletedFrames ==
  ASSUME NEW s, NEW n, NEW S, NEW fr, NEW kept, NEW F, Leaving(s, n, S, fr, kept, F),
         NEW G, NEW t \in Nat, DeleteChain(G, t, s, n), ShowsUpto(G, t, fr, F),
         NEW u, u = KeptFrames(fr, kept)
  PROVE  AreShown(G, t + n, u, F - n)
<1>20. /\ n = Cardinality(S) /\ InOrder(s, n, CountOf(S))
       /\ Listed(fr) /\ F = Len(fr) /\ IsKept(kept, F, S) /\ \A y \in S : y < F
  BY DEF Leaving
<1>0. F \in Nat /\ IsFiniteSet(S) /\ S \subseteq Int /\ IsFiniteSet(kept) /\ kept \subseteq Int
  BY <1>20, KeptFinite DEF IsKept, IsNumbers, Listed
<1>1. PICK C, D : C = CountOf(S) /\ D = CountOf(kept)
  OBVIOUS
<1>2. \A j \in 0 .. F : D[j] \in Nat /\ D[j] = j - C[j - 1]
  BY <1>1, <1>20, KeptCount DEF KeptBelow
<1>3. C[F - 1] = n
  <2>1. PICK v \in Int : v = F - 1
    BY <1>0
  <2>2. \A y \in S : y <= v
    BY <1>0, <1>20, <2>1
  <2> QED
    BY <1>0, <1>1, <1>20, <2>1, <2>2, AllCounted
<1>4. D[F] = Cardinality(kept)
  <2>1. \A y \in kept : y <= F
    BY <1>0, <1>20 DEF IsKept
  <2> QED
    <3>2. kept \subseteq Int /\ F \in Int
      BY <1>0
    <3> QED
      BY <1>1, <2>1, <3>2, AllCounted
<1>5. PICK c \in Nat : c = Cardinality(kept)
  BY <1>0, FS_CardinalityType
<1>6. c = F - n
  BY <1>0, <1>2, <1>3, <1>4, <1>5
<1>7. Listed(u) /\ Len(u) = c
  <2>1. DOMAIN u = 1 .. c
    BY <1>5 DEF KeptFrames
  <2> QED
    BY <2>1, LengthOf
<1>8. Jumps(CountOf(S), S)
  BY <1>0, RankStep DEF Jumps
<1>9. ASSUME NEW q \in 1 .. c PROVE G[t + n][q - 1] = u[q]
  <2>1. \E k \in kept : D[k] = q
    BY <1>1, <1>4, <1>5, <1>20, AllReached DEF Reached
  <2>2. PICK k : k = Nth(kept, q)
    OBVIOUS
  <2>3. k \in kept /\ D[k] = q
    BY <1>0, <1>1, <2>1, <2>2, NthIs
  <2>4. k \in 1 .. F /\ k - 1 \notin S
    BY <1>20, <2>3 DEF IsKept
  <2>5. PICK j \in Int : j = k - 1
    BY <1>0, <2>4
  <2>6. G[t + n][j - C[j]] = G[t][j]
    BY <1>1, <1>8, <1>20, <2>4, <2>5, DeleteShows
  <2>7. D[k] \in Nat /\ D[k] = k - C[k - 1]
    BY <1>0, <1>2, <2>4
  <2>8. C[j] \in Nat
    BY <1>1, <1>20, <2>5 DEF InOrder
  <2>9. j - C[j] = q - 1
    BY <1>0, <2>3, <2>4, <2>5, <2>7, <2>8
  <2>10. G[t][j] = fr[k]
    BY <2>4, <2>5 DEF ShowsUpto
  <2>11. u[q] = fr[k]
    BY <1>5, <2>2 DEF KeptFrames
  <2> QED
    BY <2>6, <2>9, <2>10, <2>11
<1> QED
  BY <1>6, <1>7, <1>9 DEF ShowsUpto, AreShown

-----------------------------------------------------------------------------
OneFilter(kind, top, k, v, more, a) ==
  [kind |-> kind, of |-> top + k - 1, vi |-> Info(v.video, v.frames + k * more, v.samples),
   cached |-> FALSE, frame |-> a]

(* The filters for the first n numbers of list a, the last first.          *)
AreOnes(fs, kind, more, a, n) ==
  /\ Listed(fs) /\ n \in Nat /\ Len(fs) = n
  /\ \A k \in 1 .. n : fs[k] = OneFilter(kind, Top, k, vi, more, a[n + 1 - k])

(* OnePerFrame yields such filters. *)
LEMMA OnePerFrameIs ==
  ASSUME NEW kind, NEW list, NEW unique, NEW more, NEW s, s = Sorted(list, unique), NEW n \in Nat, n = s.n,
         NEW fs, fs = OnePerFrame(kind, list, unique, more)
  PROVE  AreOnes(fs, kind, more, s.list, n)
<1>1. fs = [k \in 1 .. n |-> OneFilter(kind, Top, k, vi, more, s.list[n + 1 - k])]
  BY DEF OnePerFrame, OneFilter
<1>2. DOMAIN fs = 1 .. n
  BY <1>1
<1>3. Listed(fs) /\ Len(fs) = n
  BY <1>2, LengthOf
<1> QED
  BY <1>1, <1>3 DEF AreOnes

(* Each asks the one before it. *)
LEMMA OnesFit ==
  ASSUME ShowsInv, NEW kind \in {"DeleteFrame", "DuplicateFrame"}, NEW more, NEW a, NEW n, NEW fs,
         AreOnes(fs, kind, more, a, n)
  PROVE  AllFit(graph, fs)
<1>1. Top \in Nat /\ Top >= 2 /\ Len(graph) = Top /\ n \in Nat /\ Len(fs) = n
  BY Known DEF AreOnes, Top
<1>2. ASSUME NEW k \in 1 .. n PROVE Fits(fs[k], Top + k)
  <2>1. PICK f : f = fs[k]
    OBVIOUS
  <2>2. f.kind = kind /\ f.of = Top + k - 1
    BY <2>1 DEF AreOnes, OneFilter
  <2>3. f.of \in 1 .. (Top + k) - 1
    BY <1>1, <2>2
  <2>4. Fits(f, Top + k)
    BY <2>2, <2>3 DEF Fits, Kinds, Joins
  <2> QED
    BY <2>1, <2>4
<1> QED
  BY <1>1, <1>2 DEF AllFit

ShowThem(G, t, fs) == \A k \in 1 .. Len(fs) : G[t + k] = [x \in Int |-> Shown(G, fs[k], x)]

(* They leave out frames one after the other, *)
LEMMA OnesDelete ==
  ASSUME NEW more, NEW a, NEW n, NEW fs, AreOnes(fs, "DeleteFrame", more, a, n), NEW G, ShowThem(G, Top, fs)
  PROVE  DeleteChain(G, Top, a, n)
<1>1. n \in Nat /\ Len(fs) = n
  BY DEF AreOnes
<1>2. SUFFICES ASSUME NEW k \in 1 .. n, NEW x \in Int
               PROVE  G[Top + k][x] = G[Top + k - 1][IF x >= a[n + 1 - k] THEN x + 1 ELSE x]
  BY DEF DeleteChain, Deletes
<1>3. PICK f, b, t : f = fs[k] /\ b = a[n + 1 - k] /\ t = Top + k - 1
  OBVIOUS
<1>4. f.kind = "DeleteFrame" /\ f.of = t /\ f.frame = b /\ f.cached = FALSE
  BY <1>3 DEF AreOnes, OneFilter
<1>5. G[Top + k][x] = Shown(G, f, x)
  BY <1>1, <1>3 DEF ShowThem
<1>6. Shown(G, f, x) = G[t][IF x >= b THEN x + 1 ELSE x]
  BY <1>4 DEF Shown, OfDeleteFrame
<1> QED
  BY <1>3, <1>5, <1>6

(* or repeat them. *)
LEMMA OnesDuplicate ==
  ASSUME NEW more, NEW a, NEW n, NEW fs, AreOnes(fs, "DuplicateFrame", more, a, n), NEW G, ShowThem(G, Top, fs)
  PROVE  DuplicateChain(G, Top, a, n)
<1>1. n \in Nat /\ Len(fs) = n
  BY DEF AreOnes
<1>2. SUFFICES ASSUME NEW k \in 1 .. n, NEW x \in Int
               PROVE  G[Top + k][x] = G[Top + k - 1][IF x > a[n + 1 - k] THEN x - 1 ELSE x]
  BY DEF DuplicateChain, Duplicates
<1>3. PICK f, b, t : f = fs[k] /\ b = a[n + 1 - k] /\ t = Top + k - 1
  OBVIOUS
<1>4. f.kind = "DuplicateFrame" /\ f.of = t /\ f.frame = b /\ f.cached = FALSE
  BY <1>3 DEF AreOnes, OneFilter
<1>5. G[Top + k][x] = Shown(G, f, x)
  BY <1>1, <1>3 DEF ShowThem
<1>6. Shown(G, f, x) = G[t][IF x > b THEN x - 1 ELSE x]
  BY <1>4 DEF Shown, OfDuplicateFrame
<1> QED
  BY <1>3, <1>5, <1>6

(* What follows when the filters are there. *)
OnesVi(n, more) == IF n = 0 THEN vi ELSE Info(vi.video, vi.frames + n * more, vi.samples)

(* Of the last of them as many frames are expected as there are numbers    *)
(* more or less.                                                           *)
LEMMA OnesTyped ==
  ASSUME ShowsInv, NEW n \in Nat, NEW more \in Int
  PROVE  /\ Typed(OnesVi(n, more)) /\ OnesVi(n, more).video = vi.video
         /\ OnesVi(n, more).frames = vi.frames + n * more
<1>1. vi.video \in BOOLEAN /\ vi.frames \in Int /\ vi.samples \in Int /\ n * more \in Int
  BY Known
<1>2. CASE n = 0
  <2>1. n * more = 0
    BY <1>2
  <2> QED
    BY <1>1, <1>2, <2>1 DEF OnesVi, Typed
<1>3. CASE n # 0
  BY <1>1, <1>3 DEF OnesVi, Typed, Info
<1> QED
  BY <1>2, <1>3

(* What the constructor does, and what is left to show. *)
LEMMA OnesMade ==
  ASSUME ShowsInv, NEW kind \in {"DeleteFrame", "DuplicateFrame"}, NEW more \in Int, NEW a, NEW n, NEW fs,
         AreOnes(fs, kind, more, a, n), NEW means, Made(fs, means)
  PROVE  /\ ShowThem(GetFrame', Top, fs)
         /\ GetFrame'[Top] = GetFrame[Top]
         /\ Right(GetFrame', Top + n, OnesVi(n, more), means) => ShowsInv'
<1>00. AllFit(graph, fs)
  BY OnesFit
<1>0. Listed(fs) /\ n \in Nat /\ Len(fs) = n /\ AllFit(graph, fs)
  BY <1>00 DEF AreOnes
<1>1. /\ rate' \in Rates /\ meant' = means
      /\ Listed(graph') /\ Top' = Top + Len(fs) /\ Acyclic(graph')
      /\ \E src \in Sources : graph'[1] = Source("B", src)
      /\ \A k \in 1 .. Top : GetFrame'[k] = GetFrame[k]
      /\ \A k \in 1 .. Len(fs) : GetFrame'[Top + k] = [x \in Int |-> Shown(GetFrame', fs[k], x)]
      /\ Len(fs) > 0 => vi' = fs[Len(fs)].vi
      /\ Len(fs) = 0 => vi' = vi
  BY <1>0, MadeShows
<1>2. Top >= 2 /\ Top \in Nat
  BY Known
<1>3. Top' >= 2
  BY <1>0, <1>1, <1>2
<1>4. ShowThem(GetFrame', Top, fs)
  <2>1. PICK G : G = GetFrame'
    OBVIOUS
  <2>2. \A k \in 1 .. Len(fs) : G[Top + k] = [x \in Int |-> Shown(G, fs[k], x)]
    BY <1>1, <2>1
  <2> QED
    BY <2>1, <2>2 DEF ShowThem
<1>5. vi' = OnesVi(n, more)
  <2>1. CASE n = 0
    BY <1>0, <1>1, <2>1 DEF OnesVi
  <2>2. CASE n # 0
    <3>1. n \in 1 .. n
      BY <1>0, <2>2
    <3>2. fs[n].vi = Info(vi.video, vi.frames + n * more, vi.samples)
      BY <3>1 DEF AreOnes, OneFilter
    <3> QED
      BY <1>0, <1>1, <2>2, <3>2 DEF OnesVi
  <2> QED
    BY <2>1, <2>2
<1>6. ASSUME Right(GetFrame', Top + n, OnesVi(n, more), means) PROVE ShowsInv'
  <2>1. Right(GetFrame', Top', vi', meant')
    BY <1>0, <1>1, <1>5, <1>6
  <2>2. Right(GetFrame, Top, vi, meant)'
    BY <2>1 DEF Right
  <2> QED
    BY <1>1, <1>3, <2>2 DEF ShowsInv, Listed, Acyclic, AsksEarlier, Source, Info
<1> QED
  BY <1>1, <1>2, <1>4, <1>6

-----------------------------------------------------------------------------
(* The numbers of a list that a script gives. *)
LEMMA AreNumbers ==
  ASSUME NEW list, IsGiven(list), NEW m \in 0 .. Len(list)
  PROVE  IsNumbers(Numbered(list, m))
<1>0. Len(list) \in Nat /\ \A i \in 1 .. Len(list) : list[i] \in Int /\ list[i] < INT_MAX
  BY DEF IsGiven, Integers, Listed
<1> DEFINE T == {k \in 0 .. Len(list) : IsFiniteSet(Numbered(list, k))}
<1>1. 0 \in T
  <2>1. Numbered(list, 0) = {}
    BY DEF Numbered
  <2>2. IsFiniteSet(Numbered(list, 0))
    BY <2>1, FS_EmptySet
  <2> QED
    BY <1>0, <2>2
<1>2. ASSUME NEW k \in 0 .. Len(list) - 1, k \in T PROVE k + 1 \in T
  <2>1. k \in Nat /\ k < Len(list) /\ k + 1 \in 0 .. Len(list)
    BY <1>0
  <2>2. Numbered(list, k + 1) = Numbered(list, k) \cup {list[k + 1]}
    BY <2>1, NumberedNext
  <2>3. IsFiniteSet(Numbered(list, k) \cup {list[k + 1]})
    BY <1>2, FS_AddElement
  <2> QED
    BY <2>1, <2>2, <2>3
<1>3. \A k \in 0 .. Len(list) : k \in T
  <2> HIDE DEF T
  <2> QED
    BY <1>0, <1>1, <1>2, NumbersUpTo
<1>4. IsFiniteSet(Numbered(list, m))
  BY <1>3
<1>5. \A y \in Numbered(list, m) : y \in Int /\ y < INT_MAX
  BY <1>0 DEF Numbered
<1> QED
  BY <1>4, <1>5 DEF IsNumbers

(* Those before some place in it. *)
LEMMA NumbersBefore ==
  ASSUME NEW list, Listed(list), NEW m \in 0 .. Len(list), NEW b, b = SubSeq(list, 1, m)
  PROVE  Len(b) = m /\ ToSet(b) = Numbered(list, m)
<1>1. Len(list) \in Nat
  BY DEF Listed
<1>2. Len(b) = m /\ DOMAIN b = 1 .. m
  BY <1>1
<1>3. \A i \in 1 .. m : b[i] = list[i]
  BY <1>1
<1> QED
  BY <1>2, <1>3 DEF ToSet, Numbered

(* When LosesNumber does not hold, none is lost. *)
LEMMA KeepsAll ==
  ASSUME NEW list, IsGiven(list), ~LosesNumber(list)
  PROVE  LosesNone(list)
<1>1. Listed(list) /\ Len(list) \in Nat /\ DOMAIN list = 1 .. Len(list)
  BY DEF IsGiven, Integers, Listed
<1>2. SUFFICES ASSUME NEW m \in 0 .. Len(list) - 1
               PROVE  list[m + 1] \in Numbered(list, m) \/ m <= Cardinality(Numbered(list, m)) + 1
  BY DEF LosesNone
<1>3. PICK k \in Nat : k = m + 1
  BY <1>1
<1>4. k \in DOMAIN list /\ k - 1 = m /\ m \in 0 .. Len(list)
  BY <1>1, <1>3
<1>5. PICK b : b = SubSeq(list, 1, m)
  OBVIOUS
<1>6. Len(b) = m /\ ToSet(b) = Numbered(list, m)
  BY <1>1, <1>4, <1>5, NumbersBefore
<1>7. list[k] \in ToSet(b) \/ ~(Len(b) >= Cardinality(ToSet(b)) + 2)
  BY <1>4, <1>5 DEF LosesNumber
<1>8. Cardinality(Numbered(list, m)) \in Nat
  BY <1>4, AreNumbers, FS_CardinalityType DEF IsNumbers
<1> QED
  BY <1>1, <1>3, <1>6, <1>7, <1>8

Gone(S) == {y + 1 : y \in S}

IsDeleted(d, m, S) ==
  /\ IsClip(d) /\ d.video = m.video
  /\ d.frames = KeptFrames(m.frames, DOMAIN m.frames \ Gone(S))
  /\ d.loose = m.loose \cup Loose(~ Gone(S) \subseteq DOMAIN m.frames, {"frames"})

(* What is expected of DeleteFrame, as far as its frames go. *)
LEMMA DeletedIs ==
  ASSUME NEW m, NEW list, Listed(list)
  PROVE  IsDeleted(Deleted(m, list), m, Numbered(list, Len(list)))
<1>1. PICK d, S : d = Deleted(m, list) /\ S = Numbered(list, Len(list))
  OBVIOUS
<1>2. {list[i] + 1 : i \in DOMAIN list} = Gone(S)
  BY <1>1 DEF Gone, Numbered, Listed
<1>3. PICK g, kept : g = Gone(S) /\ kept = DOMAIN m.frames \ g
  OBVIOUS
<1>4. d = Clip(m.video, KeptFrames(m.frames, kept), m.sound,
               m.loose \cup Loose(~ g \subseteq DOMAIN m.frames, {"frames"}), FALSE)
  BY <1>1, <1>2, <1>3 DEF Deleted, KeptFrames
<1>5. PICK fr, l : /\ fr = KeptFrames(m.frames, kept)
                   /\ l = m.loose \cup Loose(~ g \subseteq DOMAIN m.frames, {"frames"})
  OBVIOUS
<1>6. PICK b, z, c : b = m.video /\ z = m.sound /\ c = FALSE
  OBVIOUS
<1>8. d = Clip(b, fr, z, l, c)
  BY <1>4, <1>5, <1>6
<1>7. d.video = m.video /\ d.frames = fr /\ d.loose = l /\ IsClip(d)
  BY <1>6, <1>8, ClipIs
<1> QED
  BY <1>1, <1>3, <1>5, <1>7 DEF IsDeleted

(* A clip of which frames are expected only if none of the numbers is lost *)
(* and all are frames there are.                                           *)
Expects(u, m, S, list) ==
  /\ IsClip(u) /\ u.video = m.video
  /\ u.frames = KeptFrames(m.frames, DOMAIN m.frames \ Gone(S))
  /\ "frames" \notin u.loose =>
       "frames" \notin m.loose /\ Gone(S) \subseteq DOMAIN m.frames /\ ~LosesNumber(list)

(* A clip of which less is expected, part by part. *)
LEMMA LoosenedClip ==
  ASSUME NEW d, IsClip(d), NEW l, NEW u, u = [d EXCEPT !.loose = l]
  PROVE  u.video = d.video /\ u.frames = d.frames /\ u.loose = l /\ IsClip(u)
<1>1. PICK b, fr, z, c : b = d.video /\ fr = d.frames /\ z = d.sound /\ c = d.capped
  OBVIOUS
<1>2. u = Clip(d.video, d.frames, d.sound, l, d.capped)
  BY Loosened
<1>3. u = Clip(b, fr, z, l, c)
  BY <1>1, <1>2
<1> QED
  BY <1>1, <1>3, ClipIs

(* So it is with the numbers that get lost. *)
LEMMA LoosenedExpects ==
  ASSUME NEW d, NEW m, NEW S, IsDeleted(d, m, S), NEW list,
         NEW u, u = [d EXCEPT !.loose = @ \cup Loose(LosesNumber(list), {"frames"})]
  PROVE  Expects(u, m, S, list)
<1>1. PICK l : l = d.loose \cup Loose(LosesNumber(list), {"frames"})
  OBVIOUS
<1>2. u = [d EXCEPT !.loose = l]
  BY <1>1
<1>3. IsClip(d)
  BY DEF IsDeleted
<1>5. u.video = d.video /\ u.frames = d.frames /\ u.loose = l /\ IsClip(u)
  BY <1>2, <1>3, LoosenedClip
<1>6. ASSUME "frames" \notin u.loose
      PROVE  "frames" \notin m.loose /\ Gone(S) \subseteq DOMAIN m.frames /\ ~LosesNumber(list)
  <2>1. "frames" \notin d.loose /\ "frames" \notin Loose(LosesNumber(list), {"frames"})
    BY <1>1, <1>5, <1>6
  <2>2. ~LosesNumber(list)
    BY <2>1 DEF Loose
  <2>3. "frames" \notin m.loose /\ "frames" \notin Loose(~ Gone(S) \subseteq DOMAIN m.frames, {"frames"})
    BY <2>1 DEF IsDeleted
  <2>4. Gone(S) \subseteq DOMAIN m.frames
    BY <2>3 DEF Loose
  <2> QED
    BY <2>2, <2>3, <2>4
<1> QED
  BY <1>5, <1>6 DEF IsDeleted, Expects

(* The last filter shows the frames that are kept. *)
LEMMA DeletedRight ==
  ASSUME NEW G, NEW t \in Nat, NEW v, NEW m, Right(G, t, v, m), NEW list, IsGiven(list),
         NEW S, S = Numbered(list, Len(list)),
         NEW unique, Unique(unique), NEW s, s = Sorted(list, unique), NEW n \in Nat, n = s.n,
         DeleteChain(G, t, s.list, n), NEW u, Expects(u, m, S, list),
         NEW w, Typed(w), w.video = v.video, w.frames = v.frames - n
  PROVE  Right(G, t + n, w, u)
<1>1. IsClip(u) /\ u.video = w.video
  BY DEF Expects, Right
<1>2. ASSUME w.video, "frames" \notin u.loose PROVE ShowsList(G, t + n, w, u.frames)
  <2>1. "frames" \notin m.loose /\ Gone(S) \subseteq DOMAIN m.frames /\ ~LosesNumber(list)
    BY <1>2 DEF Expects
  <2>2. PICK fr : fr = m.frames
    OBVIOUS
  <2>3. Listed(fr) /\ v.frames = Len(fr) /\ \A p \in 1 .. Len(fr) : G[t][p - 1] = fr[p]
    BY <1>2, <2>1, <2>2 DEF Right
  <2>4. PICK F \in Nat : F = Len(fr)
    BY <2>3 DEF Listed
  <2>5. AllDistinct(s, list, Len(list))
    <3>1. LosesNone(list)
      BY <2>1, KeepsAll
    <3> QED
      BY <3>1, SortedDistinct
  <2>6. IsNumbers(S) /\ n = Cardinality(S) /\ InOrder(s.list, n, CountOf(S))
    <3>1. IsNumbers(S) /\ s.n = Cardinality(S) /\ InOrder(s.list, s.n, CountOf(S))
      BY <2>5, DistinctInOrder
    <3> QED
      BY <3>1
  <2>7. \A y \in S : y \in Int /\ y >= 0 /\ y < F
    <3>1. S \subseteq Int /\ DOMAIN fr = 1 .. F
      BY <2>3, <2>4, <2>6 DEF IsNumbers, Listed
    <3>2. \A y \in S : y + 1 \in 1 .. F
      BY <2>1, <2>2, <3>1 DEF Gone
    <3> QED
      BY <3>1, <3>2
  <2>8. PICK kept : kept = DOMAIN fr \ Gone(S)
    OBVIOUS
  <2>9. IsKept(kept, F, S)
    <3>1. DOMAIN fr = 1 .. F
      BY <2>3, <2>4 DEF Listed
    <3>2. \A x \in 1 .. F : x \in Gone(S) <=> x - 1 \in S
      BY <2>7 DEF Gone
    <3>3. kept = {x \in 1 .. F : x - 1 \notin S}
      BY <2>8, <3>1, <3>2
    <3> QED
      BY <2>6, <2>7, <3>3 DEF IsKept
  <2>10. ShowsUpto(G, t, fr, F)
    BY <2>3, <2>4 DEF ShowsUpto
  <2>11. PICK us, a : us = u.frames /\ a = s.list
    OBVIOUS
  <2>12. us = KeptFrames(fr, kept)
    BY <2>2, <2>8, <2>11 DEF Expects
  <2>13. Listed(us) /\ Len(us) = F - n /\ ShowsUpto(G, t + n, us, Len(us))
    <3>1. Leaving(a, n, S, fr, kept, F)
      BY <2>3, <2>4, <2>6, <2>7, <2>9, <2>11 DEF Leaving
    <3>2. DeleteChain(G, t, a, n)
      BY <2>11
    <3>3. AreShown(G, t + n, us, F - n)
      BY <2>10, <2>12, <3>1, <3>2, DeletedFrames
    <3> QED
      BY <3>3 DEF AreShown
  <2> QED
    BY <2>3, <2>4, <2>11, <2>13 DEF ShowsList, ShowsUpto
<1> QED
  BY <1>1, <1>2, ListRight

(* DeleteFrame shows the frames that are not deleted. *)
LEMMA DeleteFrameShows ==
  ASSUME ShowsInv, NEW list \in Lists, DeleteFrame(list)
  PROVE  ShowsInv'
<1>1. IsGiven(list)
  BY GivenLists
<1>20. PICK unique : unique = TRUE
  OBVIOUS
<1>21. PICK kind : kind = "DeleteFrame"
  OBVIOUS
<1>22. PICK more \in Int : more = -1
  OBVIOUS
<1>2. Unique(unique) /\ unique = TRUE /\ kind = "DeleteFrame" /\ more = -1
  BY <1>20, <1>21, <1>22 DEF Unique
<1>3. PICK s : s = Sorted(list, unique)
  OBVIOUS
<1>4. PICK n \in Nat : n = s.n
  BY <1>1, <1>3, SortedCounts
<1>5. PICK fs : fs = OnePerFrame(kind, list, unique, more)
  OBVIOUS
<1>6. PICK m, d : m = meant /\ d = Deleted(m, list)
  OBVIOUS
<1>7. PICK u : u = [d EXCEPT !.loose = @ \cup Loose(LosesNumber(list), {"frames"})]
  OBVIOUS
<1>8. Made(fs, u)
  BY <1>2, <1>5, <1>6, <1>7 DEF DeleteFrame
<1>9. PICK a : a = s.list
  OBVIOUS
<1>10. AreOnes(fs, kind, more, a, n)
  BY <1>3, <1>4, <1>5, <1>9, OnePerFrameIs
<1>11. /\ ShowThem(GetFrame', Top, fs) /\ GetFrame'[Top] = GetFrame[Top]
       /\ Right(GetFrame', Top + n, OnesVi(n, more), u) => ShowsInv'
  BY <1>2, <1>8, <1>10, OnesMade
<1>23. PICK G, v, w : G = GetFrame' /\ v = vi /\ w = OnesVi(n, more)
  OBVIOUS
<1>24. PICK t \in Nat : t = Top
  BY Known
<1>12. G = GetFrame' /\ t = Top /\ v = vi /\ w = OnesVi(n, more)
  BY <1>23, <1>24
<1>13. DeleteChain(G, t, a, n)
  <2>1. AreOnes(fs, "DeleteFrame", more, a, n) /\ ShowThem(G, Top, fs)
    BY <1>2, <1>10, <1>11, <1>12
  <2>2. DeleteChain(G, Top, a, n)
    BY <2>1, OnesDelete
  <2> QED
    BY <1>12, <2>2
<1>14. Right(G, t, v, m)
  <2>1. Right(GetFrame, Top, vi, meant)
    BY Known
  <2> QED
    BY <1>6, <1>11, <1>12, <2>1 DEF Right
<1>15. Typed(w) /\ w.video = v.video /\ w.frames = v.frames - n
  <2>1. Typed(w) /\ w.video = v.video /\ w.frames = v.frames + n * more
    BY <1>12, OnesTyped
  <2>2. n * more = -n /\ v.frames \in Int
    BY <1>2, <1>12, Known
  <2> QED
    BY <2>1, <2>2
<1>16. PICK S : S = Numbered(list, Len(list))
  OBVIOUS
<1>17. Expects(u, m, S, list)
  <2>1. Listed(list)
    BY <1>1 DEF IsGiven, Integers
  <2>2. IsDeleted(d, m, S)
    BY <1>6, <1>16, <2>1, DeletedIs
  <2> QED
    BY <1>7, <2>2, LoosenedExpects
<1>18. Right(G, t + n, w, u)
  <2>1. DeleteChain(G, t, s.list, n)
    BY <1>9, <1>13
  <2> QED
    BY <1>1, <1>2, <1>3, <1>4, <1>14, <1>15, <1>16, <1>17, <2>1, DeletedRight
<1> QED
  BY <1>11, <1>12, <1>18

-----------------------------------------------------------------------------
(* Every number is that of one of the frames 1 .. F, less one.             *)
AllThere(list, F) == F \in Nat /\ \A i \in 1 .. Len(list) : list[i] >= 0 /\ list[i] < F

(* No number is below the first frame, and all are below the end. *)
LEMMA CountEnds ==
  ASSUME NEW list, IsGiven(list), NEW F, AllThere(list, F), NEW C, C = CountIn(list, Len(list))
  PROVE  C[0 - 1] = 0 /\ C[F - 1] = Len(list)
<1>1. Len(list) \in Nat /\ \A i \in 1 .. Len(list) : list[i] \in Int
  BY DEF IsGiven, Integers, Listed
<1>2. F \in Nat /\ \A i \in 1 .. Len(list) : list[i] >= 0 /\ list[i] < F
  BY DEF AllThere
<1>3. PICK n \in Nat : n = Len(list)
  BY <1>1
<1>4. PICK a \in Int, b \in Int : a = 0 - 1 /\ b = F - 1
  BY <1>2
<1>5. {i \in 1 .. n : list[i] <= a} = {}
  BY <1>1, <1>2, <1>3, <1>4
<1>6. {i \in 1 .. n : list[i] <= b} = 1 .. n
  BY <1>1, <1>2, <1>3, <1>4
<1>7. C[a] = 0
  BY <1>3, <1>5, FS_EmptySet DEF CountIn
<1>8. C[b] = n
  <2>1. Cardinality(1 .. n) = n
    BY FS_Interval
  <2> QED
    BY <1>3, <1>6, <2>1 DEF CountIn
<1> QED
  BY <1>3, <1>4, <1>7, <1>8

(* The copies of frame k come after those of the frames before it. *)
LEMMA FirstCopyIs ==
  ASSUME NEW list, IsGiven(list), NEW F, AllThere(list, F), NEW C, C = CountIn(list, Len(list)), NEW k \in Int
  PROVE  FirstCopy(list, k) = k + C[k - 2]
<1>1. DOMAIN list = 1 .. Len(list) /\ \A i \in 1 .. Len(list) : list[i] \in Int
  BY DEF IsGiven, Integers, Listed
<1>2. \A i \in 1 .. Len(list) : list[i] >= 0
  BY DEF AllThere
<1>3. PICK v \in Int : v = k - 2
  OBVIOUS
<1>4. \A i \in 1 .. Len(list) : list[i] + 1 \in 1 .. k - 1 <=> list[i] <= v
  BY <1>1, <1>2, <1>3
<1>5. {i \in DOMAIN list : list[i] + 1 \in 1 .. k - 1} = {i \in 1 .. Len(list) : list[i] <= v}
  BY <1>1, <1>4
<1>6. C[v] = Cardinality({i \in 1 .. Len(list) : list[i] <= v})
  BY DEF CountIn
<1> QED
  BY <1>3, <1>5, <1>6 DEF FirstCopy

FirstCopies(list) == [k \in Int |-> FirstCopy(list, k)]
CopiedFrames(fr, list) ==
  [p \in 1 .. FirstCopy(list, Len(fr) + 1) - 1 |->
     fr[CHOOSE k \in DOMAIN fr : p \in FirstCopy(list, k) .. FirstCopy(list, k + 1) - 1]]

(* Each place holds a copy of some frame.                                  *)
CopyOfSome(E, F, m) == \A p \in 1 .. m : \E k \in 1 .. F : p \in E[k] .. E[k + 1] - 1

(* So every place holds a copy of some frame. *)
LEMMA AllCopies ==
  ASSUME NEW F \in Nat, NEW E, \A k \in Int : E[k] \in Int, E[1] = 1
  PROVE  CopyOfSome(E, F, E[F + 1] - 1)
<1> DEFINE T == {j \in 0 .. F : CopyOfSome(E, F, E[j + 1] - 1)}
<1>1. 0 \in T
  <2>1. E[0 + 1] - 1 = 0
    OBVIOUS
  <2>2. CopyOfSome(E, F, 0)
    BY DEF CopyOfSome
  <2> QED
    BY <2>1, <2>2
<1>2. ASSUME NEW j \in 0 .. F - 1, j \in T PROVE j + 1 \in T
  <2>1. PICK k \in 1 .. F : k = j + 1
    OBVIOUS
  <2>2. PICK a \in Int, b \in Int : a = E[k] /\ b = E[k + 1]
    OBVIOUS
  <2>3. \A p \in 1 .. a - 1 : \E i \in 1 .. F : p \in E[i] .. E[i + 1] - 1
    BY <1>2, <2>1, <2>2 DEF CopyOfSome
  <2>4. ASSUME NEW p \in 1 .. b - 1 PROVE \E i \in 1 .. F : p \in E[i] .. E[i + 1] - 1
    <3>1. CASE p < a
      <4>1. p \in 1 .. a - 1
        BY <3>1
      <4> QED
        BY <2>3, <4>1
    <3>2. CASE ~(p < a)
      <4>1. p \in a .. b - 1
        BY <3>2
      <4> QED
        BY <2>2, <4>1
    <3> QED
      BY <3>1, <3>2
  <2>5. CopyOfSome(E, F, E[k + 1] - 1)
    BY <2>2, <2>4 DEF CopyOfSome
  <2>6. j + 1 \in 0 .. F
    OBVIOUS
  <2> QED
    BY <2>1, <2>5, <2>6
<1>3. \A j \in 0 .. F : j \in T
  <2> HIDE DEF T
  <2> QED
    BY <1>1, <1>2, NumbersUpTo
<1> QED
  BY <1>3

(* The numbers of a list, in order, are those of the frames repeated.      *)
Repeating(s, n, list, fr, F) ==
  /\ InOrder(s, n, CountIn(list, Len(list))) /\ n = Len(list) /\ IsGiven(list)
  /\ Listed(fr) /\ F = Len(fr) /\ AllThere(list, F)

(* The filters show the frames with their copies. *)
LEMMA DuplicatedFrames ==
  ASSUME NEW s, NEW n, NEW list, NEW fr, NEW F, Repeating(s, n, list, fr, F),
         NEW G, NEW t \in Nat, DuplicateChain(G, t, s, n), ShowsUpto(G, t, fr, F),
         NEW u, u = CopiedFrames(fr, list)
  PROVE  AreShown(G, t + n, u, F + n)
<1>20. PICK C : C = CountIn(list, Len(list))
  OBVIOUS
<1>21. /\ InOrder(s, n, C) /\ n = Len(list) /\ IsGiven(list)
       /\ Listed(fr) /\ F = Len(fr) /\ AllThere(list, F)
  BY <1>20 DEF Repeating
<1>0. F \in Nat /\ DOMAIN fr = 1 .. F /\ n \in Nat
  BY <1>21 DEF Listed, InOrder
<1>1. C[0 - 1] = 0 /\ C[F - 1] = n
  BY <1>20, <1>21, CountEnds
<1>10. PICK E : E = FirstCopies(list)
  OBVIOUS
<1>11. \A k \in Int : E[k] = FirstCopy(list, k)
  BY <1>10 DEF FirstCopies
<1>2. \A k \in Int : E[k] = k + C[k - 2]
  BY <1>11, <1>20, <1>21, FirstCopyIs
<1>3. \A v \in Int : C[v] \in 0 .. n
  BY <1>21 DEF InOrder
<1>4. \A k \in Int : E[k] \in Int
  <2>1. SUFFICES ASSUME NEW k \in Int PROVE E[k] \in Int
    OBVIOUS
  <2>2. PICK v \in Int : v = k - 2
    OBVIOUS
  <2>3. C[v] \in 0 .. n /\ E[k] = k + C[k - 2]
    BY <1>2, <1>3
  <2>4. C[v] \in Int /\ E[k] = k + C[v]
    BY <1>0, <2>2, <2>3
  <2> QED
    BY <2>4
<1>5. E[1] = 1
  <2>1. PICK k \in Int, v \in Int : k = 1 /\ v = k - 2 /\ v = 0 - 1
    OBVIOUS
  <2>2. C[v] = 0
    BY <1>1, <2>1
  <2>3. E[k] = k + C[k - 2]
    BY <1>2
  <2>4. E[k] = k + C[v]
    BY <2>1, <2>3
  <2> QED
    BY <2>1, <2>2, <2>4
<1>6. E[F + 1] - 1 = F + n
  <2>1. PICK k \in Int : k = F + 1
    BY <1>0
  <2>2. k - 2 = F - 1
    BY <1>0, <2>1
  <2>3. E[k] = k + n
    BY <1>1, <1>2, <2>2
  <2> QED
    BY <1>0, <2>1, <2>3
<1>7. PICK c \in Nat : c = F + n
  BY <1>0
<1>8. Listed(u) /\ Len(u) = c
  <2>0. FirstCopy(list, Len(fr) + 1) - 1 = c
    BY <1>0, <1>6, <1>7, <1>11, <1>21
  <2>1. DOMAIN u = 1 .. c
    BY <2>0 DEF CopiedFrames
  <2> QED
    BY <2>1, LengthOf
<1>9. ASSUME NEW p \in 1 .. c PROVE G[t + n][p - 1] = u[p]
  <2>1. \E k \in 1 .. F : p \in E[k] .. E[k + 1] - 1
    <3>1. CopyOfSome(E, F, E[F + 1] - 1)
      BY <1>0, <1>4, <1>5, AllCopies
    <3> QED
      BY <1>6, <1>7, <3>1 DEF CopyOfSome
  <2>2. PICK k : k = CHOOSE i \in DOMAIN fr : p \in FirstCopy(list, i) .. FirstCopy(list, i + 1) - 1
    OBVIOUS
  <2>16. \A i \in 1 .. F : E[i] = FirstCopy(list, i) /\ E[i + 1] = FirstCopy(list, i + 1)
    BY <1>0, <1>11
  <2>17. \E i \in DOMAIN fr : p \in FirstCopy(list, i) .. FirstCopy(list, i + 1) - 1
    BY <1>0, <2>1, <2>16
  <2>18. k \in DOMAIN fr /\ p \in FirstCopy(list, k) .. FirstCopy(list, k + 1) - 1
    BY <2>2, <2>17
  <2>3. k \in 1 .. F /\ p \in E[k] .. E[k + 1] - 1
    BY <1>0, <2>16, <2>18
  <2>19. FirstCopy(list, Len(fr) + 1) - 1 = c
    BY <1>0, <1>6, <1>7, <1>11, <1>21
  <2>4. u[p] = fr[k]
    BY <2>2, <2>19 DEF CopiedFrames
  <2>5. PICK j \in Int : j = k - 1
    BY <1>0, <2>3
  <2>6. PICK i \in Int : i = p - k
    BY <1>0, <1>7, <2>3
  <2>7. k \in Int /\ k + 1 \in Int /\ k - 2 = j - 1 /\ (k + 1) - 2 = j
    BY <1>0, <2>3, <2>5
  <2>8. E[k] = k + C[j - 1] /\ E[k + 1] = (k + 1) + C[j]
    BY <1>2, <2>7
  <2>9. C[j - 1] \in Int /\ C[j] \in Int
    BY <1>0, <1>3
  <2>10. i \in C[j - 1] .. C[j]
    BY <2>3, <2>6, <2>7, <2>8, <2>9
  <2>14. CopiesBefore(C, j, i)
    BY <2>10 DEF CopiesBefore
  <2>15. ShownLater(G, t + n, t, j, i)
    BY <1>21, <2>14, DuplicateShows
  <2>11. G[t + n][j + i] = G[t][j]
    BY <2>15 DEF ShownLater
  <2>12. j + i = p - 1
    BY <2>5, <2>6, <2>7
  <2>13. G[t][j] = fr[k]
    BY <2>3, <2>5 DEF ShowsUpto
  <2> QED
    BY <2>4, <2>11, <2>12, <2>13
<1> QED
  BY <1>7, <1>8, <1>9 DEF ShowsUpto, AreShown

-----------------------------------------------------------------------------
IsDuplicated(u, m, list) ==
  /\ IsClip(u) /\ u.video = m.video
  /\ u.frames = CopiedFrames(m.frames, list)
  /\ "frames" \notin u.loose =>
       "frames" \notin m.loose /\ \A i \in DOMAIN list : list[i] + 1 \in DOMAIN m.frames

(* What is expected of DuplicateFrame, as far as its frames go. *)
LEMMA DuplicatedIs ==
  ASSUME NEW m, NEW list
  PROVE  IsDuplicated(Duplicated(m, list), m, list)
<1>1. PICK u : u = Duplicated(m, list)
  OBVIOUS
<1>2. PICK out1 : out1 = {i \in DOMAIN list : list[i] + 1 \notin DOMAIN m.frames}
  OBVIOUS
<1>3. u = Clip(m.video, CopiedFrames(m.frames, list), m.sound,
               m.loose \cup Loose(\E i \in DOMAIN list : list[i] + 1 \notin DOMAIN m.frames, {"frames"}),
               FALSE)
  BY <1>1 DEF Duplicated, CopiedFrames
<1>4. PICK b, z, fr, l, c :
        /\ b = m.video /\ z = m.sound /\ fr = CopiedFrames(m.frames, list) /\ c = FALSE
        /\ l = m.loose \cup Loose(\E i \in DOMAIN list : list[i] + 1 \notin DOMAIN m.frames, {"frames"})
  OBVIOUS
<1>5. u = Clip(b, fr, z, l, c)
  BY <1>3, <1>4
<1>6. u.video = b /\ u.frames = fr /\ u.loose = l /\ IsClip(u)
  BY <1>5, ClipIs
<1>7. ASSUME "frames" \notin l
      PROVE  "frames" \notin m.loose /\ \A i \in DOMAIN list : list[i] + 1 \in DOMAIN m.frames
  BY <1>4, <1>7 DEF Loose
<1> QED
  BY <1>1, <1>4, <1>6, <1>7 DEF IsDuplicated

(* The last filter shows it. *)
LEMMA DuplicatedRight ==
  ASSUME NEW G, NEW t \in Nat, NEW v, NEW m, Right(G, t, v, m), NEW list, IsGiven(list),
         NEW unique, ~Unique(unique), NEW s, s = Sorted(list, unique), NEW n \in Nat, n = s.n,
         DuplicateChain(G, t, s.list, n), NEW u, IsDuplicated(u, m, list),
         NEW w, Typed(w), w.video = v.video, w.frames = v.frames + n
  PROVE  Right(G, t + n, w, u)
<1>1. IsClip(u) /\ u.video = w.video
  BY DEF IsDuplicated, Right
<1>2. ASSUME w.video, "frames" \notin u.loose PROVE ShowsList(G, t + n, w, u.frames)
  <2>1. "frames" \notin m.loose /\ \A i \in DOMAIN list : list[i] + 1 \in DOMAIN m.frames
    BY <1>2 DEF IsDuplicated
  <2>2. PICK fr : fr = m.frames
    OBVIOUS
  <2>3. Listed(fr) /\ v.frames = Len(fr) /\ \A p \in 1 .. Len(fr) : G[t][p - 1] = fr[p]
    BY <1>2, <2>1, <2>2 DEF Right
  <2>4. PICK F \in Nat : F = Len(fr)
    BY <2>3 DEF Listed
  <2>5. AllThere(list, F)
    <3>1. DOMAIN fr = 1 .. F /\ DOMAIN list = 1 .. Len(list) /\ \A i \in 1 .. Len(list) : list[i] \in Int
      BY <2>3, <2>4 DEF Listed, IsGiven, Integers
    <3>2. \A i \in 1 .. Len(list) : list[i] + 1 \in 1 .. F
      BY <2>1, <2>2, <3>1
    <3> QED
      BY <3>1, <3>2 DEF AllThere
  <2>6. PICK C, a : C = CountIn(list, Len(list)) /\ a = s.list
    OBVIOUS
  <2>7. n = Len(list) /\ InOrder(a, n, C)
    <3>1. AllSorted(s, list, Len(list))
      BY SortedAll
    <3>2. s.n = Len(list) /\ InOrder(s.list, s.n, CountIn(list, Len(list)))
      BY <3>1, SortedInOrder
    <3> QED
      BY <2>6, <3>2
  <2>8. ShowsUpto(G, t, fr, F)
    BY <2>3, <2>4 DEF ShowsUpto
  <2>9. PICK us : us = u.frames
    OBVIOUS
  <2>10. us = CopiedFrames(fr, list)
    BY <2>2, <2>9 DEF IsDuplicated
  <2>11. Listed(us) /\ Len(us) = F + n /\ ShowsUpto(G, t + n, us, Len(us))
    <3>1. Repeating(a, n, list, fr, F)
      BY <2>3, <2>4, <2>5, <2>6, <2>7 DEF Repeating
    <3>2. DuplicateChain(G, t, a, n)
      BY <2>6
    <3>3. AreShown(G, t + n, us, F + n)
      BY <2>8, <2>10, <3>1, <3>2, DuplicatedFrames
    <3> QED
      BY <3>3 DEF AreShown
  <2> QED
    BY <2>3, <2>4, <2>9, <2>11 DEF ShowsList, ShowsUpto
<1> QED
  BY <1>1, <1>2, ListRight

(* DuplicateFrame shows each of the frames once more for each time that it *)
(* is asked to.                                                            *)
LEMMA DuplicateFrameShows ==
  ASSUME ShowsInv, NEW list \in Lists, DuplicateFrame(list)
  PROVE  ShowsInv'
<1>1. IsGiven(list)
  BY GivenLists
<1>20. PICK unique : unique = FALSE
  OBVIOUS
<1>21. PICK kind : kind = "DuplicateFrame"
  OBVIOUS
<1>22. PICK more \in Int : more = 1
  OBVIOUS
<1>2. ~Unique(unique) /\ unique = FALSE /\ kind = "DuplicateFrame" /\ more = 1
  BY <1>20, <1>21, <1>22 DEF Unique
<1>3. PICK s : s = Sorted(list, unique)
  OBVIOUS
<1>4. PICK n \in Nat : n = s.n
  BY <1>1, <1>3, SortedCounts
<1>5. PICK fs : fs = OnePerFrame(kind, list, unique, more)
  OBVIOUS
<1>6. PICK m, u : m = meant /\ u = Duplicated(m, list)
  OBVIOUS
<1>8. Made(fs, u)
  BY <1>2, <1>5, <1>6 DEF DuplicateFrame
<1>9. PICK a : a = s.list
  OBVIOUS
<1>10. AreOnes(fs, kind, more, a, n)
  BY <1>3, <1>4, <1>5, <1>9, OnePerFrameIs
<1>11. /\ ShowThem(GetFrame', Top, fs) /\ GetFrame'[Top] = GetFrame[Top]
       /\ Right(GetFrame', Top + n, OnesVi(n, more), u) => ShowsInv'
  BY <1>2, <1>8, <1>10, OnesMade
<1>23. PICK G, v, w : G = GetFrame' /\ v = vi /\ w = OnesVi(n, more)
  OBVIOUS
<1>24. PICK t \in Nat : t = Top
  BY Known
<1>12. G = GetFrame' /\ t = Top /\ v = vi /\ w = OnesVi(n, more)
  BY <1>23, <1>24
<1>13. DuplicateChain(G, t, a, n)
  <2>1. AreOnes(fs, "DuplicateFrame", more, a, n) /\ ShowThem(G, Top, fs)
    BY <1>2, <1>10, <1>11, <1>12
  <2>2. DuplicateChain(G, Top, a, n)
    BY <2>1, OnesDuplicate
  <2> QED
    BY <1>12, <2>2
<1>14. Right(G, t, v, m)
  <2>1. Right(GetFrame, Top, vi, meant)
    BY Known
  <2> QED
    BY <1>6, <1>11, <1>12, <2>1 DEF Right
<1>15. Typed(w) /\ w.video = v.video /\ w.frames = v.frames + n
  <2>1. Typed(w) /\ w.video = v.video /\ w.frames = v.frames + n * more
    BY <1>12, OnesTyped
  <2>2. n * more = n /\ v.frames \in Int
    BY <1>2, <1>12, Known
  <2> QED
    BY <2>1, <2>2
<1>17. IsDuplicated(u, m, list)
  BY <1>6, DuplicatedIs
<1>18. Right(G, t + n, w, u)
  <2>1. DuplicateChain(G, t, s.list, n)
    BY <1>9, <1>13
  <2> QED
    BY <1>1, <1>2, <1>3, <1>4, <1>14, <1>15, <1>17, <2>1, DuplicatedRight
<1> QED
  BY <1>11, <1>12, <1>18

-----------------------------------------------------------------------------
(* The sources show what they are expected to. *)
LEMMA FirstShown ==
  ASSUME EInit
  PROVE  ShowsInv
<1>1. PICK a \in Sources, b \in Sources :
        /\ graph = <<Source("B", b), Source("A", a)>>
        /\ meant = SourceClip("A", a[1], a[2])
  BY DEF EInit
<1>2. rate \in Rates /\ a[1] \in Nat /\ a[2] \in Nat
  BY EditingAssumption DEF EInit
<1>3. PICK g, f, e : g = graph /\ f = Source("A", a) /\ e = Source("B", b)
  OBVIOUS
<1>4. /\ Listed(g) /\ Len(g) = 2 /\ g[1] = e /\ g[2] = f
  <2>1. g = <<e, f>>
    BY <1>1, <1>3
  <2> QED
    BY <2>1 DEF Listed
<1>5. f.kind = "Source" /\ e.kind = "Source"
  BY <1>3 DEF Source
<1>6. Acyclic(g)
  <2>1. AsksEarlier(g, 1) /\ AsksEarlier(g, 2)
    BY <1>4, <1>5 DEF AsksEarlier, Kinds, Joins
  <2>2. \A k \in 1 .. 2 : k = 1 \/ k = 2
    OBVIOUS
  <2> QED
    BY <1>4, <2>1, <2>2 DEF Acyclic
<1>7. Top = 2 /\ vi = f.vi
  BY <1>3, <1>4 DEF Top, vi, Last
<1>8. PICK G : G = GetFrame
  OBVIOUS
<1>9. G[2] = [n \in Int |-> Shown(G, f, n)]
  <2>1. IsShowing(G, g)
    BY <1>3, <1>6, <1>8, GetFrameShows, ShowingExists
  <2>2. G[2] = [n \in Int |-> Shown(G, g[2], n)]
    BY <1>4, <2>1 DEF IsShowing
  <2> QED
    BY <1>4, <2>2
<1>10. Right(G, 2, f.vi, SourceClip("A", a[1], a[2]))
  <2>1. PICK K, clip, v : K = 2 /\ clip = "A" /\ v = f.vi
    OBVIOUS
  <2>2. ShowsSource(G, K, clip, a)
    BY <1>3, <1>9, <2>1 DEF ShowsSource
  <2>3. InfoOf(v, a)
    <3>1. PICK b1, n1, n2 : b1 = (a[1] > 0) /\ n1 = a[1] /\ n2 = a[2]
      OBVIOUS
    <3>2. v = [video |-> b1, frames |-> n1, samples |-> n2]
      BY <1>3, <2>1, <3>1 DEF Source, Info
    <3>3. v.video = b1 /\ v.frames = n1 /\ v.samples = n2
      BY <3>2
    <3>4. b1 \in BOOLEAN
      BY <3>1
    <3> QED
      BY <3>1, <3>3, <3>4 DEF InfoOf
  <2>4. Right(G, K, v, SourceClip(clip, a[1], a[2]))
    BY <1>2, <2>2, <2>3, SourceRight
  <2> QED
    BY <2>1, <2>4
<1>11. Right(GetFrame, Top, vi, meant)
  BY <1>1, <1>7, <1>8, <1>10
<1>12. graph[1] = Source("B", b)
  BY <1>3, <1>4
<1>13. Listed(graph) /\ Acyclic(graph) /\ Top >= 2
  BY <1>3, <1>4, <1>6, <1>7
<1> QED
  BY <1>2, <1>11, <1>12, <1>13 DEF ShowsInv

(* What a script gives are whole numbers. *)
LEMMA GivenAreInts == Given \subseteq Int /\ Repeats \subseteq Int /\ Forever \in Int /\ 0 .. 2 \subseteq Int
BY EditingAssumption DEF Given

(* Every edit leaves a clip that shows what is expected of it. *)
LEMMA EditShows ==
  ASSUME ShowsInv, Edit
  PROVE  ShowsInv'
<1>0. Given \subseteq Int /\ Repeats \subseteq Int /\ Forever \in Int /\ 0 .. 2 \subseteq Int
  BY GivenAreInts
<1>1. ASSUME NEW mode \in Modes, NEW i \in Given, NEW j \in Given, AudioTrim(mode, i, j)
      PROVE  ShowsInv'
  BY <1>0, <1>1, AudioTrimShows
<1>2. ASSUME NEW mode \in Modes, NEW i \in Given, NEW j \in Given, NEW pad \in BOOLEAN, Trim(mode, i, j, pad)
      PROVE  ShowsInv'
  BY <1>0, <1>2, TrimShows
<1>3. ASSUME NEW i \in Given, NEW j \in Given, NEW n \in Given, FreezeFrame(i, j, n)
      PROVE  ShowsInv'
  BY <1>0, <1>3, FreezeFrameShows
<1>4. ASSUME NEW list \in Lists, DeleteFrame(list) \/ DuplicateFrame(list)
      PROVE  ShowsInv'
  BY <1>4, DeleteFrameShows, DuplicateFrameShows
<1>5. ASSUME NEW p \in Operands, NEW realign \in BOOLEAN, Splice(p[1], p[2], realign)
      PROVE  ShowsInv'
  BY <1>5, SpliceShows
<1>6. ASSUME NEW p \in Operands, NEW n \in Given, Dissolve(p[1], p[2], n)
      PROVE  ShowsInv'
  BY <1>0, <1>6, DissolveShows
<1>7. ASSUME NEW way \in {"out", "in", "IO"}, NEW n \in Given, NEW more \in 0 .. 2, Fade(way, n, more)
      PROVE  ShowsInv'
  BY <1>0, <1>7, FadeShows
<1>8. ASSUME NEW p \in Operands, NEW ex \in BOOLEAN, AudioDub(p[1], p[2], ex)
      PROVE  ShowsInv'
  BY <1>8, AudioDubShows
<1>9. ASSUME ReverseClip PROVE ShowsInv'
  BY <1>9, ReverseShows
<1>10. ASSUME NEW times \in Repeats, NEW i \in Given, NEW j \in Given \cup {Forever}, Loop(times, i, j)
       PROVE  ShowsInv'
  BY <1>0, <1>10, LoopShows
<1> QED
  BY <1>1, <1>2, <1>3, <1>4, <1>5, <1>6, <1>7, <1>8, <1>9, <1>10, Zenon DEF Edit

(* Asking for sound changes no filter. *)
LEMMA ServingBuildsNone ==
  ASSUME Request \/ Answering
  PROVE  UNCHANGED building
<1>1. Serve => UNCHANGED building
  BY Zenon DEF Serve, CacheGetAudio, SourceGetAudio, GenericGetAudio, TrimGetAudio, AudioDubGetAudio,
         Hands, SpliceGetAudio, DissolveGetAudio, DissolveMixes, ReverseGetAudio, ReverseSwaps,
         LoopGetAudio, Doing
<1> QED
  BY <1>1, Zenon DEF Request, Answering, CacheStep, AskGraph, Answered

(* So what is shown stays the same. *)
LEMMA SameBuiltShows ==
  ASSUME ShowsInv, UNCHANGED building
  PROVE  ShowsInv'
<1>1. rate' = rate /\ graph' = graph /\ meant' = meant
  BY DEF building
<1>2. GetFrame' = GetFrame
  BY <1>1, GetFrameShows, GetFrameShowsNext
<1>3. Top' = Top /\ vi' = vi
  BY <1>1 DEF Top, vi, Last
<1>4. Right(GetFrame', Top', vi', meant')
  BY <1>1, <1>2, <1>3 DEF ShowsInv
<1>5. Right(GetFrame, Top, vi, meant)'
  BY <1>4 DEF Right
<1>6. Top' >= 2 /\ rate' \in Rates
  BY <1>1, <1>3 DEF ShowsInv
<1>7. Listed(graph') /\ Acyclic(graph') /\ \E src \in Sources : graph'[1] = Source("B", src)
  BY <1>1 DEF ShowsInv
<1> QED
  BY <1>5, <1>6, <1>7 DEF ShowsInv, Listed, Acyclic, AsksEarlier, Source, Info

(* That is what is to be proved. *)
LEMMA ShownAsEdited == ShowsInv => FramesAsEdited
<1> SUFFICES ASSUME ShowsInv, vi.video, "frames" \notin meant.loose
             PROVE  /\ vi.frames = Len(meant.frames)
                    /\ \A n \in DOMAIN meant.frames : GetFrame[Top][n - 1] = meant.frames[n]
  BY DEF FramesAsEdited
<1>1. /\ Listed(meant.frames) /\ vi.frames = Len(meant.frames)
      /\ \A n \in 1 .. Len(meant.frames) : GetFrame[Top][n - 1] = meant.frames[n]
  BY DEF ShowsInv, Right
<1> QED
  BY <1>1 DEF Listed

(* Whatever edits a script makes, in whatever order, the clip has the      *)
(* frames its author expects, and shows them.                              *)
THEOREM EditedShows == ESpec => []FramesAsEdited
<1>1. EInit => ShowsInv
  BY FirstShown
<1>2. ShowsInv /\ [ENext]_evars => ShowsInv'
  <2> SUFFICES ASSUME ShowsInv, [ENext]_evars PROVE ShowsInv'
    OBVIOUS
  <2>1. CASE Edit
    BY <2>1, EditShows
  <2>2. CASE Request \/ Answering
    BY <2>2, ServingBuildsNone, SameBuiltShows
  <2>3. CASE UNCHANGED evars
    BY <2>3, SameBuiltShows DEF evars
  <2> QED
    BY <2>1, <2>2, <2>3 DEF ENext
<1> QED
  BY <1>1, <1>2, ShownAsEdited, PTL DEF ESpec
=============================================================================
