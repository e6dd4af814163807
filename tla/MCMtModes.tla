------------------------------ MODULE MCMtModes ------------------------------
(* Small instances of MtModes for TLC. *)
EXTENDS MtModes

CONSTANTS f, s, a1, a2

TwoFunctions == {f, s}
Scripts      == {s}
TwoAddresses == {a1, a2}

\* Report 0 leaves the mode to the defaults, MT_MULTI_INSTANCE to begin with.
TwoReports   == {0, 1}
WithSpecial  == {0, 4}

Symmetric == Permutations(TwoAddresses)

-----------------------------------------------------------------------------
(* What the source says and the code does not keep; TLC has refuted it.    *)

(* The guard is also as strict as a filter demands that was passed to      *)
(* Invoke at an address that belonged to another clip before.              *)
StaleAreCovered ==
  wrapped # Nothing /\ ~wrapped.forced => wrapped.stale <= GuardMode

(* All that a constructor's Invokes know of their children's MT-safety gets *)
(* to the parent, however they end and whatever they call.                 *)
LostAreCovered ==
  wrapped # Nothing /\ ~wrapped.forced => wrapped.lost <= GuardMode

(* MTGuard::Create never gets to its default branch. *)
NeverDefaultBranch ==
  wrapped # Nothing => wrapped.mode \in {MT_NICE_FILTER, MT_MULTI_INSTANCE, MT_SERIALIZED}
=============================================================================
