------------------------------ MODULE MCAccess ------------------------------
(* Instances of Access for TLC.                                            *)
EXTENDS Access

CONSTANTS u1, u2, t1, t2

MCTokenUser == [t \in Tokens |-> IF t = t1 THEN u1 ELSE u2]

\* The two users, each with a session, are interchangeable.
Swap == [x \in {u1, u2, t1, t2} |->
           CASE x = u1 -> u2 [] x = u2 -> u1 [] x = t1 -> t2 [] x = t2 -> t1]
Interchangeable == {[x \in {u1, u2, t1, t2} |-> x], Swap}
=============================================================================
