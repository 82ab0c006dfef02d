----------------------------- MODULE MCServices -----------------------------
(* Services; names and tokens are alike.  Two threads never have more than  *)
(* three inodes in use.                                                     *)
EXTENDS Services, TLC

Symmetry == Permutations(Keys) \cup Permutations(Tokens)
=============================================================================
