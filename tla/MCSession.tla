----------------------------- MODULE MCSession -----------------------------
(* Instances of AdminSession for TLC.                                      *)
EXTENDS AdminSession, TLC

Symmetry == Permutations(Pages) \union Permutations(Tokens)
=============================================================================
