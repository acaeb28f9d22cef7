----------------------------- MODULE MCMsgQueue -----------------------------
(* A small instance of MsgQueue for TLC. *)
EXTENDS MsgQueue, TLC

KeySymmetry == Permutations(Key)
=============================================================================
