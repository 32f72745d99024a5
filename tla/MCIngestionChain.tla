-------------------------- MODULE MCIngestionChain --------------------------
(* Instances of IngestionChain for TLC. *)
EXTENDS IngestionChain, TLC

Symmetry == Permutations(Ledgers) \cup Permutations(Workers)
=============================================================================
