---------------------------- MODULE ChecklistAbs ----------------------------
(***************************************************************************)
(* What the housing checklist promises: each family has one ordered list   *)
(* of active criteria, changed atomically by inserting, moving, retiring   *)
(* or permuting criteria, and homes have answers, written only for         *)
(* criteria that are on the list at that moment and forgotten only with    *)
(* the home.                                                               *)
(***************************************************************************)
EXTENDS ChecklistTables, Naturals, Sequences, SequencesExt

VARIABLES
    list,       \* list[f]: the active criteria of family f, in order
    spent       \* criteria that were on a list once

avars == <<list, spent, homes, answers>>

AInit ==
    /\ list = [f \in Families |-> <<>>]
    /\ spent = {}
    /\ homes = Homes
    /\ answers = [hc \in Homes \X Criteria |-> NoAnswer]

AInsert(f, c, p) ==
    /\ c \notin spent
    /\ p <= Len(list[f])
    /\ list' = [list EXCEPT ![f] = InsertAt(@, p + 1, c)]
    /\ spent' = spent \cup {c}
    /\ UNCHANGED <<homes, answers>>

AMove(f, c, p) ==
    /\ p < Len(list[f])
    /\ \E i \in DOMAIN list[f] :
        /\ list[f][i] = c
        /\ list' = [list EXCEPT ![f] = InsertAt(RemoveAt(@, i), p + 1, c)]
    /\ UNCHANGED <<spent, homes, answers>>

ARetire(f, c) ==
    /\ \E i \in DOMAIN list[f] :
        /\ list[f][i] = c
        /\ list' = [list EXCEPT ![f] = RemoveAt(@, i)]
    /\ UNCHANGED <<spent, homes, answers>>

AReorder(f) ==
    /\ \E s \in SetToSeqs(ToSet(list[f])) : list' = [list EXCEPT ![f] = s]
    /\ UNCHANGED <<spent, homes, answers>>

AAnswer(h, c, v) ==
    /\ h \in homes
    /\ Contains(list[HomeFamily[h]], c)
    /\ answers' = [answers EXCEPT ![<<h, c>>] = v]
    /\ UNCHANGED <<list, spent, homes>>

ADeleteHome(h) ==
    /\ homes' = homes \ {h}
    /\ answers' = [hc \in Homes \X Criteria |->
                     IF hc[1] = h THEN NoAnswer ELSE answers[hc]]
    /\ UNCHANGED <<list, spent>>

ANext ==
    \/ \E f \in Families : \E c \in Criteria :
        \/ \E p \in 0 .. Len(list[f]) : AInsert(f, c, p) \/ AMove(f, c, p)
        \/ ARetire(f, c)
    \/ \E f \in Families : AReorder(f)
    \/ \E h \in Homes :
        \/ \E c \in Criteria, v \in Answers : AAnswer(h, c, v)
        \/ ADeleteHome(h)

ASpec == AInit /\ [][ANext]_avars
=============================================================================
