----------------------------- MODULE MCHousing -----------------------------
(* Instances of Housing for TLC.                                           *)
EXTENDS Housing, TLC

CONSTANTS f1, f2, u1, u2

\* u1 belongs to both families, u2 writes in f1 and only reads in f2.
MCReaderOf == [u \in {u1, u2} |-> {f1, f2}]
MCWriterOf == [u \in {u1, u2} |-> IF u = u1 THEN {f1, f2} ELSE {f1}]

Handlers == Permutations(Reqs)
=============================================================================
