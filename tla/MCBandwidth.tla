----------------------------- MODULE MCBandwidth -----------------------------
(* Small instances of BandwidthSvc for TLC.                                 *)
EXTENDS BandwidthSvc, TLC

\* Jobs are interchangeable, and so are sessions and request threads.
Symmetry == Permutations(Jobs) \cup Permutations(Sessions) \cup Permutations(Requests)
==============================================================================
