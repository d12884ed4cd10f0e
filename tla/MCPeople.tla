------------------------------ MODULE MCPeople ------------------------------
(* Instance of People for TLC.                                             *)
EXTENDS People, TLC

CONSTANT MaxHistory     \* bound on the rows of the income history

HistoryBound == Cardinality(history) <= MaxHistory

Interchangeable == Permutations(Reqs) \cup Permutations(Profiles)
=============================================================================
