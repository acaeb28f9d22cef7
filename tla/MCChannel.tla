----------------------------- MODULE MCChannel -----------------------------
(* Small instances of Channel for TLC. *)
EXTENDS Channel, TLC

Symmetry == Permutations(Crtn) \cup Permutations(Val)
AllCrtn == Crtn
NoCrtn == {}
=============================================================================
