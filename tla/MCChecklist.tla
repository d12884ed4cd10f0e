---------------------------- MODULE MCChecklist ----------------------------
(* Instance of Checklist for TLC: two families, one of them with a home.   *)
EXTENDS Checklist

CONSTANTS f1, f2, h1, t1, t2

OneHome == [h \in {h1} |-> f1]
=============================================================================
