------------------------------ MODULE MCHelper ------------------------------
(* Helper on two interfaces.                                               *)
EXTENDS Helper, TLC

Symmetry == Permutations(Ifaces)
=============================================================================
