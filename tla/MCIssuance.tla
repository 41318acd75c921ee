----------------------------- MODULE MCIssuance -----------------------------
(***************************************************************************)
(* Issuance for TLC: a request of either kind and two operators.           *)
(***************************************************************************)
EXTENDS Issuance, TLC

Symmetry == Permutations(Workers)
=============================================================================
