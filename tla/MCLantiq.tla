----------------------------- MODULE MCLantiq -----------------------------
(***************************************************************************)
(* Instances of Lantiq for TLC: one or two ports, two channels, a dialplan  *)
(* that knows the number of one digit.                                      *)
(***************************************************************************)
EXTENDS Lantiq, TLC

CONSTANT d1

MCExt == {<<d1>>}
Symmetry == Permutations(Chan) \cup Permutations(Handle)
=============================================================================
