------------------------------- MODULE MCAuth -------------------------------
(* Instances of Auth for TLC.                                              *)
EXTENDS Auth, TLC

Interchangeable == Permutations(Reqs) \cup Permutations(Sessions)
=============================================================================
