---------------------------- MODULE MCMoveBuffer ----------------------------
(* Small instances of MoveBuffer for TLC. *)
EXTENDS MoveBuffer, TLC

MsgSymmetry == Permutations(Msg)
=============================================================================
