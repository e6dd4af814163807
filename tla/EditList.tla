------------------------------ MODULE EditList ------------------------------
(***************************************************************************)
(* What a script's author expects of the editing functions, in terms of    *)
(* lists: a clip is a list of frames and a list of samples, and an edit is *)
(* cutting and joining of the two.  Nothing here is translated from the    *)
(* code; module Editing compares the code with it.                         *)
(*                                                                         *)
(* "loose" says of which list nothing is expected any more: the script     *)
(* asked for frames or samples that there are not, or its edits need a     *)
(* fraction of a sample.                                                   *)
(***************************************************************************)
EXTENDS Integers, SequencesExt

Silence == <<"silence">>

(* A mix of two frames or samples, in the proportion of p to q - p. *)
Mix(a, b, p, q) == IF p = 0 THEN b ELSE IF p = q THEN a ELSE <<"mix", a, b, p, q>>

(* "capped" says that the clip is silent beyond its ends. *)
Clip(v, f, s, l, c) == [video |-> v, frames |-> f, sound |-> s, loose |-> l, capped |-> c]

SourceClip(name, f, s) ==
  Clip(f > 0, [n \in 1 .. f |-> <<name, n - 1>>], [n \in 1 .. s |-> <<name, n - 1>>], {}, TRUE)

(* Items i .. j - 1 of a list, those there are; the list made n long with  *)
(* silence; n copies of it; an item, or silence.                           *)
Cut(s, i, j)  == SubSeq(s, i + 1, IF j < Len(s) THEN j ELSE Len(s))
Pad(s, n)     == [i \in 1 .. n |-> IF i \in DOMAIN s THEN s[i] ELSE Silence]
Copies(s, n)  == [i \in 1 .. n * Len(s) |-> s[((i - 1) % Len(s)) + 1]]
SampleOf(m, i) == IF i + 1 \in DOMAIN m.sound THEN m.sound[i + 1] ELSE Silence

Both   == {"frames", "sound"}
Loose(c, what) == IF c THEN what ELSE {}

(* Samples up to the n-th, taken from a clip that may have fewer; and up   *)
(* to those of a frame, which may not be the one that it seems.            *)
Needs(m, n)   == Loose(Len(m.sound) < n /\ ~m.capped, {"sound"})
Aligned(m, n) == Needs(m, n) \cup Loose("frames" \in m.loose, {"sound"})

-----------------------------------------------------------------------------
(* The edits of clips that have r.num samples in r.den frames: f frames    *)
(* last for Samples(r, f) of them, a whole number or rounded down.         *)
Samples(r, f) == (f * r.num) \div r.den
Whole(r, f)   == (f * r.num) % r.den = 0

(* Frames i .. j - 1 with their sound, all the rest of it when "rest".     *)
Kept(m, r, i, j, rest, pad) ==
  LET upto == IF rest /\ ~pad THEN Len(m.sound) ELSE Samples(r, j)
      long == IF pad THEN Pad(m.sound, upto) ELSE m.sound
  IN IF i < j
     THEN Clip(TRUE, Cut(m.frames, i, j), Cut(long, Samples(r, i), upto),
               m.loose \cup (IF pad THEN Aligned(m, upto) ELSE Aligned(m, 0)), FALSE)
     ELSE [m EXCEPT !.loose = Both]

(* Samples i .. j - 1 with the frames they belong to, all the rest of them *)
(* when "rest".                                                            *)
KeptSound(m, r, i, j, rest) ==
  LET first == CHOOSE f \in 0 .. i : Samples(r, f) <= i /\ Samples(r, f + 1) > i
      n     == CHOOSE f \in 0 .. j : Samples(r, f) >= j - i /\ \A g \in 0 .. f - 1 : Samples(r, g) < j - i
      upto  == IF rest THEN Len(m.frames) ELSE first + n
  IN IF i <= j
     THEN Clip(m.video, Cut(m.frames, first, upto), Cut(m.sound, i, j),
               m.loose \cup Loose(~Whole(r, 1) \/ upto > Len(m.frames) \/ first > upto, {"frames"}), FALSE)
     ELSE [m EXCEPT !.loose = Both]

Frozen(m, i, j, n) ==
  Clip(m.video,
       [k \in DOMAIN m.frames |-> IF k - 1 \in i .. j /\ n + 1 \in DOMAIN m.frames
                                  THEN m.frames[n + 1] ELSE m.frames[k]],
       m.sound,
       m.loose \cup Loose(n + 1 \notin DOMAIN m.frames, {"frames"}),
       FALSE)

(* The n-th of the numbers in S. *)
Nth(S, n) == CHOOSE k \in S : Cardinality({j \in S : j <= k}) = n

Deleted(m, list) ==
  LET gone == {list[i] + 1 : i \in DOMAIN list}
      kept == DOMAIN m.frames \ gone
  IN Clip(m.video,
          [n \in 1 .. Cardinality(kept) |-> m.frames[Nth(kept, n)]],
          m.sound,
          m.loose \cup Loose(~ gone \subseteq DOMAIN m.frames, {"frames"}),
          FALSE)

(* Where the copies of frame k begin. *)
FirstCopy(list, k) == k + Cardinality({i \in DOMAIN list : list[i] + 1 \in 1 .. k - 1})

Duplicated(m, list) ==
  LET first(k) == FirstCopy(list, k)
  IN Clip(m.video,
          [n \in 1 .. first(Len(m.frames) + 1) - 1 |->
             m.frames[CHOOSE k \in DOMAIN m.frames : n \in first(k) .. first(k + 1) - 1]],
          m.sound,
          m.loose \cup Loose(\E i \in DOMAIN list : list[i] + 1 \notin DOMAIN m.frames, {"frames"}),
          FALSE)

Joined(m1, m2, r, aligned) ==
  LET n == IF aligned /\ m1.video /\ m1.frames # <<>> THEN Samples(r, Len(m1.frames)) ELSE Len(m1.sound)
  IN Clip(m1.video, m1.frames \o m2.frames, Pad(m1.sound, n) \o m2.sound,
          m1.loose \cup m2.loose \cup (IF aligned THEN Aligned(m1, n) ELSE {}), FALSE)

(* The last n frames of the first clip become the first n of the second;   *)
(* of clips that have no frames, samples.  Where nothing overlaps (from =  *)
(* upto) the sound is loose: a request across the seam gets, for the first *)
(* clip's last sample, what the second clip answers for the one before its *)
(* first.                                                                  *)
Faded(m1, m2, r, n) ==
  LET video == m1.video
      f1    == Len(m1.frames)
      from  == IF video THEN Samples(r, f1 - n) ELSE Len(m1.sound) - n
      upto  == IF video THEN Samples(r, f1) ELSE Len(m1.sound)
      frame(k) == IF k <= f1 - n THEN m1.frames[k]
                  ELSE IF k > f1 THEN m2.frames[k - f1 + n]
                  ELSE Mix(m2.frames[k - f1 + n], m1.frames[k], k - f1 + n, n + 1)
      sample(s) == IF s < from THEN SampleOf(m1, s)
                   ELSE IF s >= upto THEN SampleOf(m2, s - from)
                   ELSE Mix(SampleOf(m1, s), SampleOf(m2, s - from), upto - 1 - s, upto - 1 - from)
      fits  == IF video THEN n \in 0 .. f1 /\ n <= Len(m2.frames)
                        ELSE n \in 0 .. Len(m1.sound)
  IN IF fits
     THEN Clip(video, IF video THEN [k \in 1 .. f1 - n + Len(m2.frames) |-> frame(k)] ELSE <<>>,
               [i \in 1 .. from + Len(m2.sound) |-> sample(i - 1)],
               m1.loose \cup m2.loose \cup Aligned(m1, upto) \cup Needs(m2, upto - from)
                        \cup Loose(from = upto, {"sound"}),
               TRUE)
     ELSE Clip(video, m1.frames, m1.sound, Both, TRUE)

Dubbed(m1, m2) == Clip(m1.video, m1.frames, m2.sound, m1.loose \cup m2.loose, FALSE)

Backwards(m) == Clip(m.video, Reverse(m.frames), Reverse(m.sound), m.loose, FALSE)

(* Frames i .. j - 1 the given number of times, or until there are "ever"  *)
(* frames and one frame's sound more.                                      *)
Looped(m, r, i, j, times, ever) ==
  LET video == m.video
      s     == IF video THEN Samples(r, j) ELSE Len(m.sound)
      p     == IF video THEN Samples(r, i) ELSE 0
      block == Cut(Pad(m.sound, s), p, s)
      again(x, b, k) == Cut(x \o Copies(b, k), 0, k)
  IN IF (video /\ i >= j) \/ (~video /\ m.sound = <<>>)
        \/ Len(m.sound) + (times - 1) * Len(block) < 0
     THEN [m EXCEPT !.loose = Both]
     ELSE Clip(video,
               IF ~video THEN <<>>
               ELSE IF times < 0 THEN again(Cut(m.frames, 0, i), Cut(m.frames, i, j), ever)
               ELSE Cut(m.frames, 0, i) \o Copies(Cut(m.frames, i, j), times)
                                        \o Cut(m.frames, j, Len(m.frames)),
               IF times < 0
               THEN again(Cut(Pad(m.sound, s), 0, p), block,
                          IF video THEN Samples(r, ever + 1) ELSE Samples(r, ever) + 1)
               ELSE Cut(Cut(Pad(m.sound, s), 0, p) \o Copies(block, times)
                                                   \o Cut(m.sound, s, Len(m.sound)),
                        0, Len(m.sound) + (times - 1) * Len(block)),
               IF video
               THEN m.loose \cup Aligned(m, s) \cup Loose(~(Whole(r, i) /\ Whole(r, j)), {"sound"})
               ELSE m.loose \cup {"frames"},
               FALSE)
=============================================================================
