----------------------------- MODULE MCEditing -----------------------------
(* Editing for TLC: scripts of a few edits of two short clips. *)
EXTENDS Editing

SomeRates    == {[num |-> 2, den |-> 1], [num |-> 3, den |-> 2]}
SomeSources  == {<<3, 5>>, <<0, 3>>}
SomeStarts   == {-1, 1}
SomeCounts   == {0, 6}
SomeRepeats  == {-1, 0, 2}

SomeLists    == {<<0>>, <<1>>, <<0, 2>>, <<2, 1>>, <<1, 1>>, <<2, 0, 2>>, <<2, 1, 0>>,
                 <<1, 1, 1, 2>>, <<1, 0, 1, 0>>}
-----------------------------------------------------------------------------
(* Claims that TLC refutes; what they show is in the README.               *)

(* "We don't have video, so we cannot align sound to frames" (edit.cpp,    *)
(* line 467): of clips without video, a splice keeps the first one's sound *)
(* whole.  The code asks whether there are frames, and a clip that has     *)
(* only sound counts frames once it has been looped.                       *)
SoundAloneKeptWhole ==
  \A k \in 1 .. Top : graph[k].kind = "Splice" /\ ~graph[k].vi.video =>
    graph[k].sound = graph[graph[k].of].vi.samples

(* "Remove duplicates" (edit.cpp, line 350): however often DeleteFrame is  *)
(* given a number, each frame given goes, and once.  But 1, 1, 1, 2        *)
(* deletes frame 1 only (LosesNumber).                                     *)
RepeatsRemoved ==
  \A list \in Lists :
    Len(OnePerFrame("DeleteFrame", list, TRUE, -1)) = Cardinality(ToSet(list))

(* No clip has less than no sound.  A loop of no turns takes away as much  *)
(* as its frames last for, whether there was so much or not.               *)
NoDebt == \A k \in 1 .. Top : graph[k].vi.samples >= 0

(* Whoever asks within a clip is asked, in turn, within the clips it is    *)
(* made of.  A trimmed clip padded with silence asks for samples that its  *)
(* child has not, and hears what the child's child has there.              *)
AskedWithin ==
  \A i \in DOMAIN todo : todo[i].do = "get" =>
    /\ todo[i].start >= 0
    /\ todo[i].start + todo[i].count <= graph[todo[i].at].vi.samples
=============================================================================
