------------------------------ MODULE MCPairing ------------------------------
(* Two flows are interchangeable.                                           *)
EXTENDS Pairing, TLC

Symmetry == Permutations(Flows)
=============================================================================
