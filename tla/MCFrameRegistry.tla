--------------------------- MODULE MCFrameRegistry ---------------------------
(* Small instances of FrameRegistry for TLC. *)
EXTENDS FrameRegistry, TLC

CONSTANTS t1, t2, c1, f1, f2, f3, b1, b2

TwoThreads  == {t1, t2}
OneCached   == {c1}
ThreeFrames == {f1, f2, f3}
TwoBuffers  == {b1, b2}
TwoSizes    == {2, 3}

Symmetric == Permutations(TwoThreads) \cup Permutations(ThreeFrames) \cup Permutations(TwoBuffers)
=============================================================================
