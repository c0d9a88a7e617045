------------------------------ MODULE CollectMC ------------------------------
(***************************************************************************)
(* Instances of Collect: units, and providers, are interchangeable.        *)
(***************************************************************************)
EXTENDS Collect, TLC

Symmetry == Permutations(Units) \cup Permutations(Providers)
=============================================================================
