------------------------- MODULE MCControlAuthority -------------------------
EXTENDS ControlAuthority, TLC

(* Clients and sides are interchangeable for the safety properties.        *)
ClientSymmetry == Permutations(Clients) \cup Permutations(Sides)
=============================================================================
