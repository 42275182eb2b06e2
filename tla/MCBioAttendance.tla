-------------------------- MODULE MCBioAttendance --------------------------
(* The terminal with a few ids and fingers. *)
EXTENDS BioAttendance, TLC

OneId  == {1}
TwoIds == {1, 2}

(* Fingers are interchangeable: nothing orders them or names one. *)
FingerSymmetry == Permutations(Fingers)
=============================================================================
