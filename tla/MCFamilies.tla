----------------------------- MODULE MCFamilies -----------------------------
(* Instance of Families for TLC.                                           *)
EXTENDS Families, TLC

Interchangeable == Permutations(Users) \cup Permutations(Families)
                     \cup Permutations(Codes) \cup Permutations(Reqs)
=============================================================================
