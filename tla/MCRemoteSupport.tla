-------------------------- MODULE MCRemoteSupport --------------------------
(***************************************************************************)
(* Small instances of RemoteSupport for TLC: a session needs no goroutine   *)
(* once it is active, so that two goroutines are a second request and an   *)
(* end at once; one of the two sessions needs the user's approval.         *)
(***************************************************************************)
EXTENDS RemoteSupport, TLC

MCSession == {1, 2}
MCNeedsApproval == {1}

GoroutineSymmetry == Permutations(Goroutine)
=============================================================================
