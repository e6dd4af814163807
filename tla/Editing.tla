------------------------------ MODULE Editing ------------------------------
(***************************************************************************)
(* The editing filters of filters/edit.cpp: a script trims, freezes,       *)
(* deletes, duplicates, joins, fades, dubs, reverses and loops clips, and  *)
(* someone then asks for the frames and, through a Cache (CacheAudio), for *)
(* a stretch of the sound of what comes out.                               *)
(*                                                                         *)
(* The filter graph is a sequence of filters, each after the filters it    *)
(* asks; graph[1] and graph[2] are two source clips, the last one is the   *)
(* result so far.  A call that a filter makes of its child's GetAudio is a *)
(* task on a stack; what a filter does after the child's answer is a task  *)
(* below it.                                                               *)
(***************************************************************************)
EXTENDS CacheAudio, EditList

CONSTANTS
  Rates,      \* samples per frame: records of a numerator and a denominator
  Sources,    \* pairs of frames and samples a source clip may have
  Numbers,    \* frame and sample numbers a script gives
  Later,      \* bound: those it gives after its first edit
  Repeats,    \* how often it loops
  Lists,      \* lists of them, for DeleteFrame and DuplicateFrame
  MaxFilters, \* bound: a graph this long is edited no more
  Forever,    \* 10000000 frames; 400000 seconds have as many samples
  INT_MAX     \* the largest int

ASSUME EditingAssumption ==
  /\ Rates \subseteq [num : Nat \ {0}, den : Nat \ {0}] /\ \A r \in Rates : r.num >= r.den
  /\ Sources \subseteq Nat \X Nat
  /\ Numbers \subseteq Int /\ Later \subseteq Int /\ Repeats \subseteq Int
  /\ Lists \subseteq Seq(Int) \ {<<>>} /\ \A list \in Lists : \A i \in DOMAIN list : list[i] < INT_MAX
  /\ MaxFilters \in Nat /\ Forever \in Nat /\ INT_MAX \in Int

VARIABLES
  rate,
  graph,
  meant, \* what the script's author expects of graph's last filter
  todo,  \* the calls under way, the innermost first
  out    \* the samples in each buffer: 0 the caller's, k filter k's audbuffer

building == <<rate, graph, meant>>
serving  == <<todo, out>>
evars    == <<vars, building, serving>>

(* AudioSamplesFromFrames and FramesFromAudioSamples; the division of C. *)
Quotient(a, b) == IF a >= 0 THEN a \div b ELSE -((-a) \div b)
Span(f)        == Quotient(f * rate.num, rate.den)
Frames(n)      == Quotient(n * rate.den, rate.num)

\* clamp, and the smaller and the larger of two.
Clamp(n, lo, hi) == IF n > hi THEN (IF hi < lo THEN lo ELSE hi) ELSE IF n < lo THEN lo ELSE n
Least(a, b)      == IF a < b THEN a ELSE b
Most(a, b)       == IF a > b THEN a ELSE b

(* A filter: its class, the filter it asks, its VideoInfo, whether Invoke  *)
(* puts a Cache on it, and what its constructor computes.                  *)
Info(v, f, s) == [video |-> v, frames |-> f, samples |-> s]

Source(clip, src) ==
  [kind |-> "Source", of |-> 0, vi |-> Info(src[1] > 0, src[1], src[2]), cached |-> TRUE, clip |-> clip]

Top == Len(graph)
vi  == Last(graph).vi

Second == LET v == graph[1].vi IN SourceClip("B", v.frames, v.samples)

EInit ==
  /\ Init
  /\ rate \in Rates
  /\ \E a, b \in Sources :
       /\ graph = <<Source("B", b), Source("A", a)>>
       /\ meant = SourceClip("A", a[1], a[2])
  /\ todo = <<>> /\ out = <<>>

(* A constructor that does not throw. *)
Made(filters, means) ==
  /\ pc = "idle"
  /\ Top < MaxFilters
  /\ graph' = graph \o filters
  /\ meant' = means
  /\ UNCHANGED <<vars, rate, serving>>

-----------------------------------------------------------------------------
(* Constructors *)

Modes == {"Default", "Length", "End"}

(* AudioTrim; its times are given in samples. *)
AudioTrim(mode, from, till) ==
  LET offset == Clamp(from, 0, vi.samples)
      end    == CASE mode = "Default" /\ till = 0 -> vi.samples
                  [] mode = "Default" /\ till < 0 -> from - till
                  [] mode = "Length"              -> from + till
                  [] OTHER                        -> till
      rest   == mode = "Default" /\ till = 0
      kept   == Most(Least(end, vi.samples) - offset, 0)
      first  == IF vi.video THEN Frames(offset) ELSE 0
      frames == IF rest THEN vi.frames - first
                ELSE IF vi.video THEN Frames(kept + Span(1) - 1) ELSE 0
  IN /\ mode = "Length" => till >= 0
     /\ mode = "End" => till >= from
     /\ Made(<<[kind |-> "Trim", of |-> Top, vi |-> Info(vi.video, Most(frames, 0), kept),
               cached |-> FALSE, first |-> first, offset |-> offset]>>,
             KeptSound(meant, rate, offset, Least(end, vi.samples), rest))

Trim(mode, from, till, pad) ==
  LET first  == Clamp(from, 0, vi.frames - 1)
      last   == CASE mode = "Default" ->
                       Clamp(IF till = 0 THEN vi.frames - 1
                             ELSE IF till < 0 THEN first - till - 1 ELSE till,
                             first, vi.frames - 1)
                  [] mode = "Length" -> Least(first + till - 1, vi.frames - 1)
                  [] OTHER           -> Least(till, vi.frames - 1)
      rest   == mode = "Default" /\ till = 0
      offset == Span(first)
      end    == IF pad THEN Span(last + 1)
                ELSE IF rest THEN vi.samples ELSE Least(Span(last + 1), vi.samples)
  IN /\ vi.video
     /\ mode = "Length" => till >= 0
     /\ mode = "End" => till >= first
     /\ Made(<<[kind |-> "Trim", of |-> Top,
               vi |-> Info(TRUE, last + 1 - first, IF pad THEN end - offset ELSE Most(end - offset, 0)),
               cached |-> FALSE, first |-> first, offset |-> offset]>>,
             Kept(meant, rate, Most(from, 0),
                  IF mode = "Length" \/ till < 0 THEN Least(Most(from, 0) + Most(till, -till), vi.frames)
                  ELSE IF rest THEN vi.frames ELSE Least(till + 1, vi.frames), rest, pad))

FreezeFrame(from, till, n) ==
  Made(<<[kind |-> "FreezeFrame", of |-> Top, vi |-> vi, cached |-> FALSE,
          first |-> from, last |-> till, source |-> n]>>,
       Frozen(meant, from, till, n))

(* The frame numbers in ascending order.  Each new one is carried along    *)
(* the others and changes places with every greater one; when repeats are  *)
(* removed, a carried number that meets its like becomes INT_MAX.  "n" of  *)
(* the numbers are counted as different.                                   *)
Pass(c, y, unique) ==
  IF unique /\ ~c.same /\ c.x = y
  THEN [list |-> Append(c.list, y), x |-> INT_MAX, same |-> TRUE]
  ELSE IF c.x < y THEN [list |-> Append(c.list, c.x), x |-> y, same |-> c.same]
  ELSE [list |-> Append(c.list, y), x |-> c.x, same |-> c.same]

Insert(sorted, x, unique) ==
  LET Passed[j \in 0 .. Len(sorted.list)] ==
        IF j = 0 THEN [list |-> <<>>, x |-> x, same |-> FALSE]
        ELSE Pass(Passed[j - 1], sorted.list[j], unique)
      carried == Passed[Len(sorted.list)]
  IN [list |-> Append(carried.list, carried.x),
      n    |-> sorted.n - (IF carried.same THEN 1 ELSE 0)]

Sorted(list, unique) ==
  LET Upto[i \in 0 .. Len(list)] ==
        IF i = 0 THEN [list |-> <<>>, n |-> Len(list)]
        ELSE Insert(Upto[i - 1], list[i], unique)
  IN Upto[Len(list)]

\* Mutant: the least first, which moves the others.
OnePerFrame_LeastFirst(kind, list, unique, more) ==
  LET sorted == Sorted(list, unique)
  IN [k \in 1 .. sorted.n |->
        [kind |-> kind, of |-> Top + k - 1, vi |-> Info(vi.video, vi.frames + k * more, vi.samples),
         cached |-> FALSE, frame |-> sorted.list[k]]]

(* One filter for each number, the greatest first; each has "more" frames. *)
OnePerFrame(kind, list, unique, more) ==
  LET sorted == Sorted(list, unique)
  IN [k \in 1 .. sorted.n |->
        [kind |-> kind, of |-> Top + k - 1, vi |-> Info(vi.video, vi.frames + k * more, vi.samples),
         cached |-> FALSE, frame |-> sorted.list[sorted.n + 1 - k]]]

(* A new number after two repeats costs one: the first INT_MAX gives way   *)
(* to it, meets the second and counts as a repeat again.                   *)
LosesNumber(list) ==
  \E k \in DOMAIN list :
    LET before == SubSeq(list, 1, k - 1)
    IN list[k] \notin ToSet(before) /\ Len(before) >= Cardinality(ToSet(before)) + 2

DeleteFrame(list) ==
  Made(OnePerFrame("DeleteFrame", list, TRUE, -1),
       [Deleted(meant, list) EXCEPT !.loose = @ \cup Loose(LosesNumber(list), {"frames"})])

DuplicateFrame(list) == Made(OnePerFrame("DuplicateFrame", list, FALSE, 1), Duplicated(meant, list))

(* The clips of a filter that has two: the result so far and the other     *)
(* source, either first.                                                   *)
Operands == LET current == [at |-> Top, vi |-> vi, means |-> meant]
                other   == [at |-> 1, vi |-> graph[1].vi, means |-> Second]
            IN {<<current, other>>, <<other, current>>}

Splice(a, b, realign) ==
  LET switchover == a.vi.frames
      sound      == IF realign /\ switchover # 0
                    THEN IF a.vi.video THEN Span(switchover) ELSE 0
                    ELSE a.vi.samples
  IN /\ a.vi.video = b.vi.video
     /\ switchover + b.vi.frames >= 0
     /\ Made(<<[kind |-> "Splice", of |-> a.at, with |-> b.at,
               vi |-> Info(a.vi.video, switchover + b.vi.frames, sound + b.vi.samples),
               cached |-> FALSE, switchover |-> switchover, sound |-> sound]>>,
             Joined(a.means, b.means, rate, realign))

(* Without video the overlap is a time, and so a number of samples. *)
DissolveOf(a, b, overlap, cached) ==
  LET start0 == IF a.vi.video THEN Span(a.vi.frames - overlap) ELSE a.vi.samples - Span(overlap)
      end    == (IF a.vi.video THEN Span(a.vi.frames) ELSE a.vi.samples) - 1
      vstart == IF a.vi.video THEN Most(a.vi.frames - overlap, 0) ELSE 0
  IN [kind |-> "Dissolve", of |-> a.at, with |-> b.at,
      vi |-> Info(a.vi.video, vstart + b.vi.frames, Most(start0, 0) + b.vi.samples),
      cached |-> cached, overlap |-> overlap,
      vstart |-> vstart, vend |-> IF a.vi.video THEN a.vi.frames - 1 ELSE 0,
      start |-> Most(start0, 0), end |-> end, over |-> end - start0]

MeansFade(a, b, overlap) ==
  Faded(a.means, b.means, rate, IF a.vi.video THEN overlap ELSE Span(overlap))

Dissolve(a, b, overlap) ==
  /\ a.vi.video = b.vi.video
  /\ overlap >= 0
  /\ Made(<<DissolveOf(a, b, overlap, TRUE)>>, MeansFade(a, b, overlap))

(* FadeOut0, FadeIn0, FadeIO0 and their longer forms: a dissolve to, from, *)
(* or from and to "more" frames more of blackness.                         *)
Fade(way, duration, more) ==
  LET n     == duration + more
      black == [at |-> Top + 1, vi |-> Info(TRUE, n, Span(n)), means |-> SourceClip("0", n, Span(n))]
      clip  == [at |-> Top, vi |-> vi, means |-> meant]
      one   == IF way = "out" THEN <<clip, black>> ELSE <<black, clip>>
      first == DissolveOf(one[1], one[2], duration, way # "IO")
      inner == [at |-> Top + 2, vi |-> first.vi,
                means |-> [MeansFade(one[1], one[2], duration) EXCEPT !.capped = way # "IO"]]
  IN /\ vi.video /\ duration >= 0 /\ n > 0
     /\ Made(<<Source("0", <<n, Span(n)>>), first>>
               \o (IF way = "IO" THEN <<DissolveOf(inner, black, duration, TRUE)>> ELSE <<>>),
             IF way = "IO" THEN MeansFade(inner, black, duration) ELSE inner.means)

(* AudioDub takes the one that has video for the picture, AudioDubEx the   *)
(* first.                                                                  *)
AudioDub(a, b, ex) ==
  LET picture == IF ex \/ a.vi.video THEN a ELSE b
      sound   == IF picture = a THEN b ELSE a
  IN /\ ex \/ picture.vi.video
     /\ Made(<<[kind |-> "AudioDub", of |-> picture.at, with |-> sound.at,
               vi |-> Info(picture.vi.video, picture.vi.frames, sound.vi.samples),
               cached |-> FALSE]>>,
             Dubbed(picture.means, sound.means))

ReverseClip == Made(<<[kind |-> "Reverse", of |-> Top, vi |-> vi, cached |-> FALSE]>>, Backwards(meant))

(* A clip without video is not asked from which frame to which.            *)
Loop(times, from, till) ==
  LET first  == Clamp(from, 0, vi.frames - 1)
      last   == Clamp(till, first, vi.frames - 1)
      n      == last - first + 1
      end    == IF times < 0 THEN Forever ELSE first + times * n - 1
      frames == IF times < 0 THEN Forever ELSE vi.frames + (times - 1) * n
      block  == IF vi.video THEN Span(n) ELSE vi.samples
      audEnd == IF vi.video THEN Span(end + 1) - 1
                ELSE IF times < 0 THEN Span(Forever) ELSE vi.samples * times
  IN /\ ~vi.video => from = 0 /\ till = Forever
     /\ frames >= 0
     /\ Made(<<[kind |-> "Loop", of |-> Top,
               vi |-> Info(vi.video, frames,
                           IF times < 0 THEN audEnd + 1 ELSE vi.samples + (times - 1) * block),
               cached |-> FALSE, frames |-> n, first |-> first, end |-> end,
               audStart |-> IF vi.video THEN Span(first) ELSE 0,
               audCount |-> block, audEnd |-> audEnd]>>,
             Looped(meant, rate, Most(from, 0), Least(till + 1, vi.frames), times, Forever))

Given == IF Top = 2 THEN Numbers ELSE Later

Edit ==
  \/ \E mode \in Modes, i, j \in Given : AudioTrim(mode, i, j)
  \/ \E mode \in Modes, i, j \in Given, pad \in BOOLEAN : Trim(mode, i, j, pad)
  \/ \E i, j, n \in Given : FreezeFrame(i, j, n)
  \/ \E list \in Lists : ToSet(list) \subseteq Given /\ (DeleteFrame(list) \/ DuplicateFrame(list))
  \/ \E p \in Operands, realign \in BOOLEAN : Splice(p[1], p[2], realign)
  \/ \E p \in Operands, n \in Given : Dissolve(p[1], p[2], n)
  \/ \E way \in {"out", "in", "IO"}, n \in Given, more \in 0 .. 2 : Fade(way, n, more)
  \/ \E p \in Operands, ex \in BOOLEAN : AudioDub(p[1], p[2], ex)
  \/ ReverseClip
  \/ \E times \in Repeats, i \in Given, j \in Given \cup {Forever} : Loop(times, i, j)

-----------------------------------------------------------------------------
(* GetFrame *)

(* Which frame of its child a filter shows as its frame n. *)
OfTrim(f, n)           == n + f.first
OfFreezeFrame(f, n)    == IF n \in f.first .. f.last THEN f.source ELSE n
OfDeleteFrame(f, n)    == IF n >= f.frame THEN n + 1 ELSE n
OfDuplicateFrame(f, n) == IF n > f.frame THEN n - 1 ELSE n
OfReverse(f, n)        == f.vi.frames - n - 1
OfLoop(f, n)           == IF n > f.end THEN n - f.end + f.first + f.frames - 1
                          ELSE IF n >= f.first THEN ((n - f.first) % f.frames) + f.first
                          ELSE n

(* A filter of two children shows one's frame or a mix of both: which, and *)
(* how much of the second.                                                 *)
OfSplice(f, n) ==
  IF n < f.switchover THEN [first |-> n, part |-> 0]
  ELSE [second |-> n - f.switchover, part |-> 1, whole |-> 1]

OfDissolve(f, n) ==
  IF n < f.vstart THEN [first |-> n, part |-> 0]
  ELSE IF n > f.vend THEN [second |-> n - f.vstart, part |-> 1, whole |-> 1]
  ELSE [first |-> n, second |-> n - f.vstart,
        part |-> n - f.vend + f.overlap, whole |-> f.overlap + 1]

(* Frame n0 of filter f, as its GetFrame, or the Cache on it, finds it     *)
(* when filter k's frame n is Get[k][n].                                   *)
Shown(Get, f, n0) ==
  LET n == IF f.cached THEN Clamp(n0, 0, f.vi.frames - 1) ELSE n0
      first(m) == Get[f.of][m]
      mixed(m) == IF m.part = 0 THEN first(m.first)
                  ELSE IF m.part = m.whole THEN Get[f.with][m.second]
                  ELSE Mix(Get[f.with][m.second], first(m.first), m.part, m.whole)
  IN CASE f.kind = "Source"         -> <<f.clip, n>>
       [] f.kind = "Trim"           -> first(OfTrim(f, n))
       [] f.kind = "FreezeFrame"    -> first(OfFreezeFrame(f, n))
       [] f.kind = "DeleteFrame"    -> first(OfDeleteFrame(f, n))
       [] f.kind = "DuplicateFrame" -> first(OfDuplicateFrame(f, n))
       [] f.kind = "AudioDub"       -> first(n)
       [] f.kind = "Reverse"        -> first(OfReverse(f, n))
       [] f.kind = "Loop"           -> first(OfLoop(f, n))
       [] f.kind = "Splice"         -> mixed(OfSplice(f, n))
       [] f.kind = "Dissolve"       -> mixed(OfDissolve(f, n))

GetFrame ==
  LET Get[k \in 1 .. Top] == [n \in Int |-> Shown(Get, graph[k], n)]
  IN Get

-----------------------------------------------------------------------------
(* GetAudio *)

(* A call of filter k's GetAudio, or of that of the Cache on it. *)
Ask(k, from, n, to, into) ==
  [do |-> IF graph[k].cached THEN "cache" ELSE "get",
   at |-> k, start |-> from, count |-> n, to |-> to, into |-> into]

task == Head(todo)
self == graph[task.at]

(* The next thing to do is "what", for a filter of some class; it leads to *)
(* other calls.                                                            *)
Doing(what, kinds, calls) ==
  /\ pc = "answer" /\ todo # <<>>
  /\ task.do = what /\ self.kind \in kinds
  /\ todo' = calls \o Tail(todo)
  /\ UNCHANGED <<vars, building>>

Writes(n, sample(_)) ==
  out' = [out EXCEPT ![task.to] = [i \in task.into .. task.into + n - 1 |-> sample(i - task.into)] @@ @]

(* A Cache does what CacheAudio's does. *)
CacheGetAudio ==
  LET from == Most(task.start, 0)
      till == Least(task.start + task.count, self.vi.samples)
  IN /\ Doing("cache", {"Source", "Dissolve"},
              IF from < till
              THEN <<[task EXCEPT !.do = "get", !.start = from, !.count = till - from,
                                  !.into = @ + from - task.start]>>
              ELSE <<>>)
     /\ Writes(task.count, LAMBDA i : Silence)

SourceGetAudio ==
  /\ Doing("get", {"Source"}, <<>>)
  /\ Writes(task.count, LAMBDA i : <<self.clip, task.start + i>>)

(* What most filters do: they hand the call on. *)
Hands(kinds, k, from) ==
  /\ Doing("get", kinds, <<Ask(k, from, task.count, task.to, task.into)>>)
  /\ UNCHANGED out

GenericGetAudio  == Hands({"FreezeFrame", "DeleteFrame", "DuplicateFrame"}, self.of, task.start)
TrimGetAudio     == Hands({"Trim"}, self.of, task.start + self.offset)
AudioDubGetAudio == Hands({"AudioDub"}, self.with, task.start)

SpliceGetAudio ==
  LET count1 == self.sound - task.start
  IN /\ Doing("get", {"Splice"},
              IF task.start + task.count <= self.sound
              THEN <<Ask(self.of, task.start, task.count, task.to, task.into)>>
              ELSE IF task.start >= self.sound
              THEN <<Ask(self.with, task.start - self.sound, task.count, task.to, task.into)>>
              ELSE <<Ask(self.of, task.start, count1, task.to, task.into),
                     Ask(self.with, 0, task.count - count1, task.to, task.into + count1)>>)
     /\ UNCHANGED out

DissolveGetAudio ==
  /\ Doing("get", {"Dissolve"},
           IF task.start + task.count <= self.start
           THEN <<Ask(self.of, task.start, task.count, task.to, task.into)>>
           ELSE IF task.start > self.end
           THEN <<Ask(self.with, task.start - self.start, task.count, task.to, task.into)>>
           ELSE <<Ask(self.of, task.start, task.count, task.to, task.into),
                  Ask(self.with, task.start - self.start, task.count, task.at, 0),
                  [task EXCEPT !.do = "mix"]>>)
  /\ UNCHANGED out

DissolveMixes ==
  LET numerator(i) == self.end - task.start - i
      a(i) == out[task.to][task.into + i]
      b(i) == out[task.at][i]
  IN /\ Doing("mix", {"Dissolve"}, <<>>)
     /\ Writes(task.count, LAMBDA i : IF numerator(i) <= 0 THEN b(i)
                                      ELSE IF numerator(i) < self.over
                                      THEN Mix(a(i), b(i), numerator(i), self.over)
                                      ELSE a(i))

ReverseGetAudio ==
  /\ Doing("get", {"Reverse"},
           <<Ask(self.of, self.vi.samples - task.start - task.count, task.count, task.to, task.into),
             [task EXCEPT !.do = "flip"]>>)
  /\ UNCHANGED out

(* Samples whose size in bytes is a power of two are swapped whole. *)
ReverseSwaps ==
  /\ Doing("flip", {"Reverse"}, <<>>)
  /\ Writes(task.count, LAMBDA i : out[task.to][task.into + task.count - 1 - i])

(* Where in the child a turn of the loop begins, and how many samples it   *)
(* has: in the tail, which nothing repeats, in the loop or in the head; to *)
(* the end of this iteration, but the last one goes on into the tail.      *)

\* Mutant: the tail begins a sample late.
LoopFrom_OneLate ==
  IF task.start > self.audEnd THEN self.audStart + self.audCount + task.start - self.audEnd
  ELSE IF task.start > self.audStart
  THEN ((task.start - self.audStart) % Most(self.audCount, -self.audCount)) + self.audStart
  ELSE task.start

LoopFrom ==
  IF task.start > self.audEnd THEN self.audStart + self.audCount + task.start - (self.audEnd + 1)
  ELSE IF task.start > self.audStart
  THEN ((task.start - self.audStart) % Most(self.audCount, -self.audCount)) + self.audStart
  ELSE task.start

\* Mutant: the end of an iteration that is cut off is a sample too early.
LoopCount_OneShort(from) ==
  LET rest == self.audCount - (from - self.audStart)
  IN IF task.start > self.audEnd THEN task.count
     ELSE IF from + rest > self.audEnd + 1 THEN self.audEnd - from
     ELSE IF task.start + rest > self.audEnd THEN task.count
     ELSE rest

LoopCount(from) ==
  LET rest == self.audCount - (from - self.audStart)
  IN IF task.start > self.audEnd THEN task.count
     ELSE IF from + rest > self.audEnd + 1 THEN self.audEnd + 1 - from
     ELSE IF task.start + rest > self.audEnd THEN task.count
     ELSE rest

(* A loop of no sound, asked for a sample beyond its first: the remainder  *)
(* of a division by 0, which stops the program.                            *)
DividesByZero ==
  /\ self.kind = "Loop" /\ self.audCount = 0
  /\ task.count > 0 /\ task.start > self.audStart /\ task.start <= self.audEnd

(* One turn of the loop, and the test after the last. *)
LoopGetAudio ==
  LET n == Least(LoopCount(LoopFrom), task.count)
  IN /\ todo # <<>> /\ ~DividesByZero
     /\ Doing("get", {"Loop"},
              IF task.count <= 0 THEN <<>>
              ELSE <<Ask(self.of, LoopFrom, n, task.to, task.into),
                     [task EXCEPT !.start = @ + n, !.count = @ - n, !.into = @ + n]>>)
     /\ UNCHANGED out

Serve == \/ CacheGetAudio \/ SourceGetAudio \/ GenericGetAudio \/ TrimGetAudio
         \/ AudioDubGetAudio \/ SpliceGetAudio \/ DissolveGetAudio \/ DissolveMixes
         \/ ReverseGetAudio \/ ReverseSwaps \/ LoopGetAudio

-----------------------------------------------------------------------------
(* Someone asks the Cache on top of it all for some sound. *)
Request ==
  /\ Begin
  /\ length' = vi.samples
  /\ out' = [k \in 0 .. Top |-> <<>>]
  /\ UNCHANGED <<building, todo>>

CacheStep == (Enter \/ ClipFront \/ ClipEnd) /\ UNCHANGED <<building, serving>>

AskGraph ==
  /\ pc = "child" /\ pc' = "answer"
  /\ todo' = <<Ask(Top, start, count, 0, buf)>>
  /\ UNCHANGED <<length, call, start, count, buf, silent, filled, building, out>>

(* AskChild's end. *)
Answered ==
  /\ pc = "answer" /\ todo = <<>>
  /\ filled' = buf .. buf + count - 1
  /\ pc' = "return"
  /\ UNCHANGED <<length, call, start, count, buf, silent, building, serving>>

Answering == CacheStep \/ AskGraph \/ Serve \/ Answered

ENext == Edit \/ Request \/ Answering

ESpec == EInit /\ [][ENext]_evars /\ WF_evars(Answering)
-----------------------------------------------------------------------------
(* Properties *)

(* Whatever edits a script makes, in whatever order, the clip has the      *)
(* frames its author expects, and shows them - but for those DeleteFrame   *)
(* has left in.                                                            *)
FramesAsEdited ==
  pc = "idle" /\ vi.video /\ "frames" \notin meant.loose =>
    /\ vi.frames = Len(meant.frames)
    /\ \A n \in DOMAIN meant.frames : GetFrame[Top][n - 1] = meant.frames[n]

(* And whichever stretch of its sound is asked for, the buffer gets the    *)
(* expected samples, from all the clips and turns of loops it spans.       *)
SoundAsEdited ==
  pc = "return" /\ "sound" \notin meant.loose =>
    /\ length = Len(meant.sound)
    /\ \A i \in InClip : out[0][i] = SampleOf(meant, call.start + i)

(* Such a call ends, unless a loop has nothing to repeat.                  *)
EndlessLoop == \E k \in 1 .. Top : graph[k].kind = "Loop" /\ graph[k].audCount = 0

EveryCallReturns == pc = "enter" ~> (pc = "return" \/ EndlessLoop)
=============================================================================
