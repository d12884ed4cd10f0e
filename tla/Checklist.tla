----------------------------- MODULE Checklist -----------------------------
(***************************************************************************)
(* The per-family housing checklist as the repository executes it          *)
(* (internal/repository/postgres/housing_checklist.go): every operation is *)
(* a PostgreSQL transaction at READ COMMITTED whose statements interleave  *)
(* with those of the others.  A template transaction locks the family row  *)
(* and rewrites the positions one UPDATE at a time; an answer transaction  *)
(* takes a share lock on the criterion and the home.                       *)
(*                                                                         *)
(* A transaction's uncommitted row versions are writes[t]; holding a       *)
(* version is holding the row lock.  A statement that meets a conflicting  *)
(* lock waits, and then evaluates its WHERE clause on the version that was *)
(* committed: the guard of the action is "no conflict", and the action     *)
(* reads the state at that moment.                                         *)
(*                                                                         *)
(* Names, descriptions, weights and notes are left out: no control depends *)
(* on them.  Actors are family writers (assertFamilyWriter is passed);     *)
(* the callers it refuses change nothing.                                  *)
(***************************************************************************)
EXTENDS ChecklistTables, Naturals, FiniteSets, Sequences, SequencesExt

CONSTANTS
    Txns,           \* database sessions running an operation
    MaxPosition     \* bound on the display_order a client asks for

\* Criterion ids are ordered as uuids are: they are positive numbers.  Answers
\* holds the contents that ValidateHousingAnswer accepts.
ASSUME ChecklistAssumption ==
    /\ Criteria \subseteq Nat \ {0}
    /\ IsFiniteSet(Criteria)
    /\ HomeFamily \in [Homes -> Families]
    /\ NoAnswer \notin Answers
    /\ MaxPosition \in Nat
    /\ None \notin Txns

VARIABLES
    rows,       \* housing_checklist_criteria, committed
    famLock,    \* which transaction holds families.id FOR UPDATE
    pc,         \* the statement a transaction executes next
    op,         \* the operation it performs
    ids,        \* the Go slice ids
    nxt,        \* the loop index of writeChecklistOrder, from 1
    writes      \* its uncommitted criteria rows, a partial function

vars == <<rows, homes, answers, famLock, pc, op, ids, nxt, writes>>

-----------------------------------------------------------------------------
(* State.                                                                  *)

\* A row of the criteria: family, display_order, and none (never inserted),
\* active (deleted_at IS NULL) or retired.
NoRow == [fam |-> None, order |-> 0, status |-> "none"]

NewID == 0

NoOp == [kind |-> "none"]

\* The server has refused repeated ids in a reorder request.
ReorderRequests == UNION {SetToSeqs(S) : S \in SUBSET Criteria}

ActiveIn(table, f) ==
    {c \in Criteria : table[c].fam = f /\ table[c].status = "active"}

\* ORDER BY display_order, id
Before(table, c, d) ==
    \/ table[c].order < table[d].order
    \/ table[c].order = table[d].order /\ c < d

Sorted(s, table) == \A i, j \in DOMAIN s : i < j => Before(table, s[i], s[j])

\* What transaction t sees: the committed rows under its own versions.
View(t) == [c \in Criteria |->
              IF c \in DOMAIN writes[t] THEN writes[t][c] ELSE rows[c]]

\* Put a new version of row c among t's writes.
Write(t, c, row) ==
    writes' = [writes EXCEPT ![t] =
                 [d \in DOMAIN @ \cup {c} |-> IF d = c THEN row ELSE @[d]]]

NoWrites == [c \in {} |-> NoRow]

\* t's SELECT ... FOR SHARE returned; it keeps the locks until it ends.
Sharing(t) == op[t].kind = "answer" /\ pc[t] \in {"put", "answered"}

\* Fault: the answer's SELECT takes no share lock.
RowBlockers_NoShare(t, c) == {u \in Txns \ {t} : c \in DOMAIN writes[u]}

\* The transactions u whose locks make t wait for row c.
RowBlockers(t, c) ==
    {u \in Txns \ {t} : \/ c \in DOMAIN writes[u]
                        \/ Sharing(u) /\ op[u].id = c}

Init ==
    /\ rows = [c \in Criteria |-> NoRow]
    /\ homes = Homes
    /\ answers = [hc \in Homes \X Criteria |-> NoAnswer]
    /\ famLock = [f \in Families |-> None]
    /\ pc = [t \in Txns |-> "idle"]
    /\ op = [t \in Txns |-> NoOp]
    /\ ids = [t \in Txns |-> <<>>]
    /\ nxt = [t \in Txns |-> 1]
    /\ writes = [t \in Txns |-> NoWrites]

-----------------------------------------------------------------------------
(* Begin and end.                                                          *)

\* Fault: the family lock outlives the transaction.
End_KeepsLock(t) ==
    /\ writes' = [writes EXCEPT ![t] = NoWrites]
    /\ UNCHANGED famLock
    /\ pc' = [pc EXCEPT ![t] = "idle"]
    /\ op' = [op EXCEPT ![t] = NoOp]
    /\ ids' = [ids EXCEPT ![t] = <<>>]
    /\ nxt' = [nxt EXCEPT ![t] = 1]

\* The transaction ends: its versions and locks are gone.
End(t) ==
    /\ writes' = [writes EXCEPT ![t] = NoWrites]
    /\ famLock' = [f \in Families |-> IF famLock[f] = t THEN None ELSE famLock[f]]
    /\ pc' = [pc EXCEPT ![t] = "idle"]
    /\ op' = [op EXCEPT ![t] = NoOp]
    /\ ids' = [ids EXCEPT ![t] = <<>>]
    /\ nxt' = [nxt EXCEPT ![t] = 1]

BeginOp(t, o, first) ==
    /\ pc[t] = "idle"
    /\ op' = [op EXCEPT ![t] = o]
    /\ pc' = [pc EXCEPT ![t] = first]
    /\ UNCHANGED <<rows, homes, answers, famLock, ids, nxt, writes>>

\* gen_random_uuid never runs out; the finite id pool must not either.
Unused == {c \in Criteria : /\ rows[c].status = "none"
                            /\ \A u \in Txns : c \notin DOMAIN writes[u]}
Inserting == {u \in Txns : /\ op[u].kind = "save" /\ op[u].id = NewID
                           /\ pc[u] \in {"lock", "read", "row"}}

BeginSave(t) ==
    \E f \in Families, c \in Criteria \cup {NewID}, p \in 0 .. MaxPosition :
        /\ c = NewID => Cardinality(Inserting) < Cardinality(Unused)
        /\ BeginOp(t, [kind |-> "save", fam |-> f, id |-> c, pos |-> p], "lock")

BeginDelete(t) ==
    \E f \in Families, c \in Criteria :
        BeginOp(t, [kind |-> "delete", fam |-> f, id |-> c], "lock")

BeginReorder(t) ==
    \E f \in Families, s \in ReorderRequests :
        BeginOp(t, [kind |-> "reorder", fam |-> f, order |-> s], "lock")

BeginAnswer(t) ==
    \E h \in Homes, c \in Criteria, v \in Answers :
        BeginOp(t, [kind |-> "answer", home |-> h, id |-> c, val |-> v], "share")

\* A statement fails, the context is cancelled or the connection is lost:
\* the deferred tx.Rollback.
Rollback(t) ==
    /\ pc[t] # "idle"
    /\ End(t)
    /\ UNCHANGED <<rows, homes, answers>>

-----------------------------------------------------------------------------
(* Template transactions: checklistTransaction, then one of the three.     *)

\* Fault: the family row is read without FOR UPDATE.
LockFamily_NoLock(t) ==
    /\ pc[t] = "lock"
    /\ pc' = [pc EXCEPT ![t] = IF op[t].kind = "delete" THEN "retire" ELSE "read"]
    /\ UNCHANGED <<rows, homes, answers, famLock, op, ids, nxt, writes>>

\* SELECT ... FROM families ... FOR UPDATE
LockFamily(t) ==
    /\ pc[t] = "lock"
    /\ famLock[op[t].fam] = None
    /\ famLock' = [famLock EXCEPT ![op[t].fam] = t]
    /\ pc' = [pc EXCEPT ![t] = IF op[t].kind = "delete" THEN "retire" ELSE "read"]
    /\ UNCHANGED <<rows, homes, answers, op, ids, nxt, writes>>

ActiveFor(t) == ActiveIn(View(t), op[t].fam)

\* checklistIDs: the ids of the family's active criteria, in order.
Listings(t) == {s \in SetToSeqs(ActiveFor(t)) : Sorted(s, View(t))}

\* SaveHousingCriterion, up to its validation: an existing criterion is
\* taken out of the list.
ReadForSave(t) ==
    /\ pc[t] = "read" /\ op[t].kind = "save"
    /\ \E s \in Listings(t) :
        \/ /\ op[t].id = NewID
           /\ op[t].pos <= Len(s)
           /\ ids' = [ids EXCEPT ![t] = s]
        \/ \E i \in DOMAIN s :
           /\ s[i] = op[t].id
           /\ op[t].pos <= Len(s) - 1
           /\ ids' = [ids EXCEPT ![t] = RemoveAt(s, i)]
    /\ pc' = [pc EXCEPT ![t] = "row"]
    /\ UNCHANGED <<rows, homes, answers, famLock, op, nxt, writes>>

\* NotFound, or a position past the end.
RefuseSave(t) ==
    /\ pc[t] = "read" /\ op[t].kind = "save"
    /\ \/ op[t].id # NewID /\ op[t].id \notin ActiveFor(t)
       \/ op[t].pos > Cardinality(ActiveFor(t) \ {op[t].id})
    /\ End(t)
    /\ UNCHANGED <<rows, homes, answers>>

\* INSERT the new row or UPDATE the old one's fields, then place its id.
SaveRow(t) ==
    /\ pc[t] = "row"
    /\ \E c \in Criteria :
        /\ \/ /\ op[t].id = NewID
              /\ c \in Unused
              /\ Write(t, c, [fam |-> op[t].fam, order |-> op[t].pos,
                              status |-> "active"])
           \/ /\ op[t].id = c
              /\ RowBlockers(t, c) = {}
              /\ Write(t, c, View(t)[c])
        /\ ids' = [ids EXCEPT ![t] = InsertAt(@, op[t].pos + 1, c)]
    /\ pc' = [pc EXCEPT ![t] = "write"]
    /\ UNCHANGED <<rows, homes, answers, famLock, op, nxt>>

\* DeleteHousingCriterion: UPDATE ... SET deleted_at WHERE it is active.
Retire(t) ==
    LET c == op[t].id IN
    /\ pc[t] = "retire"
    /\ c \in ActiveFor(t)
    /\ RowBlockers(t, c) = {}
    /\ Write(t, c, [View(t)[c] EXCEPT !.status = "retired"])
    /\ pc' = [pc EXCEPT ![t] = "renumber"]
    /\ UNCHANGED <<rows, homes, answers, famLock, op, ids, nxt>>

RefuseRetire(t) ==
    /\ pc[t] = "retire"
    /\ op[t].id \notin ActiveFor(t)
    /\ End(t)
    /\ UNCHANGED <<rows, homes, answers>>

ReadAfterRetire(t) ==
    /\ pc[t] = "renumber"
    /\ \E s \in Listings(t) : ids' = [ids EXCEPT ![t] = s]
    /\ pc' = [pc EXCEPT ![t] = "write"]
    /\ UNCHANGED <<rows, homes, answers, famLock, op, nxt, writes>>

\* ReorderHousingCriteria: the request must be a permutation of the list.
IsPermutation(s, current) == Len(s) = Len(current) /\ ToSet(s) = ToSet(current)

ReadForReorder(t) ==
    /\ pc[t] = "read" /\ op[t].kind = "reorder"
    /\ \E s \in Listings(t) :
        /\ IsPermutation(op[t].order, s)
        /\ ids' = [ids EXCEPT ![t] = op[t].order]
    /\ pc' = [pc EXCEPT ![t] = "write"]
    /\ UNCHANGED <<rows, homes, answers, famLock, op, nxt, writes>>

RefuseReorder(t) ==
    /\ pc[t] = "read" /\ op[t].kind = "reorder"
    /\ \E s \in Listings(t) : ~IsPermutation(op[t].order, s)
    /\ End(t)
    /\ UNCHANGED <<rows, homes, answers>>

\* One iteration of writeChecklistOrder.
WriteOrder(t) ==
    LET c == ids[t][nxt[t]] IN
    /\ pc[t] = "write"
    /\ nxt[t] <= Len(ids[t])
    /\ RowBlockers(t, c) = {}
    /\ Write(t, c, [View(t)[c] EXCEPT !.order = nxt[t] - 1])
    /\ nxt' = [nxt EXCEPT ![t] = @ + 1]
    /\ UNCHANGED <<rows, homes, answers, famLock, pc, op, ids>>

Commit(t) ==
    /\ pc[t] = "write"
    /\ nxt[t] > Len(ids[t])
    /\ rows' = View(t)
    /\ End(t)
    /\ UNCHANGED <<homes, answers>>

-----------------------------------------------------------------------------
(* SaveHousingAnswer.                                                      *)

\* The join of home, active criterion and family has a row.
Answerable(t) ==
    /\ op[t].home \in homes
    /\ op[t].id \in ActiveIn(rows, HomeFamily[op[t].home])

ShareLock(t) ==
    /\ pc[t] = "share"
    /\ Answerable(t)
    /\ \A u \in Txns : op[t].id \notin DOMAIN writes[u]
    /\ pc' = [pc EXCEPT ![t] = "put"]
    /\ UNCHANGED <<rows, homes, answers, famLock, op, ids, nxt, writes>>

RefuseAnswer(t) ==
    /\ pc[t] = "share"
    /\ ~Answerable(t)
    /\ End(t)
    /\ UNCHANGED <<rows, homes, answers>>

\* Others with an uncommitted row of the same primary key.
SameAnswer(t) ==
    {u \in Txns \ {t} : /\ pc[u] = "answered"
                        /\ op[u].home = op[t].home /\ op[u].id = op[t].id}

\* INSERT ... ON CONFLICT DO UPDATE waits for a row in doubt.
PutAnswer(t) ==
    /\ pc[t] = "put"
    /\ SameAnswer(t) = {}
    /\ pc' = [pc EXCEPT ![t] = "answered"]
    /\ UNCHANGED <<rows, homes, answers, famLock, op, ids, nxt, writes>>

CommitAnswer(t) ==
    /\ pc[t] = "answered"
    /\ answers' = [answers EXCEPT ![<<op[t].home, op[t].id>>] = op[t].val]
    /\ End(t)
    /\ UNCHANGED <<rows, homes>>

\* Fault: an answer does not lock its home, so the deletion does not wait.
DeleteHome_NoWait(h) ==
    /\ h \in homes
    /\ homes' = homes \ {h}
    /\ answers' = [hc \in Homes \X Criteria |->
                     IF hc[1] = h THEN NoAnswer ELSE answers[hc]]
    /\ UNCHANGED <<rows, famLock, pc, op, ids, nxt, writes>>

\* DeleteHousingOption (housing.go), one statement: it waits for share locks
\* on the home and cascades to its answers.
DeleteHome(h) ==
    /\ h \in homes
    /\ \A t \in Txns : ~(Sharing(t) /\ op[t].home = h)
    /\ homes' = homes \ {h}
    /\ answers' = [hc \in Homes \X Criteria |->
                     IF hc[1] = h THEN NoAnswer ELSE answers[hc]]
    /\ UNCHANGED <<rows, famLock, pc, op, ids, nxt, writes>>

-----------------------------------------------------------------------------
Begin(t) == BeginSave(t) \/ BeginDelete(t) \/ BeginReorder(t) \/ BeginAnswer(t)

\* Everything a transaction does on its own account once it began.
Step(t) ==
    \/ LockFamily(t)
    \/ ReadForSave(t) \/ RefuseSave(t) \/ SaveRow(t)
    \/ Retire(t) \/ RefuseRetire(t) \/ ReadAfterRetire(t)
    \/ ReadForReorder(t) \/ RefuseReorder(t)
    \/ WriteOrder(t) \/ Commit(t)
    \/ ShareLock(t) \/ RefuseAnswer(t) \/ PutAnswer(t) \/ CommitAnswer(t)

Next ==
    \/ \E t \in Txns : Begin(t) \/ Step(t) \/ Rollback(t)
    \/ \E h \in Homes : DeleteHome(h)

Spec == Init /\ [][Next]_vars

\* A statement that can run is run.  Nothing is assumed about the order in
\* which PostgreSQL grants a contended lock, nor about failures.
FairSpec == Spec /\ \A t \in Txns : WF_vars(Step(t))
-----------------------------------------------------------------------------
(* Properties.                                                             *)

\* housing_checklist.go:36-37, "positions stay contiguous even when two family
\* members add, move, or retire criteria concurrently": in every committed
\* state the active criteria of a family are numbered 0, 1, ..., n - 1.
Contiguous(table, f) ==
    \E s \in SetToSeqs(ActiveIn(table, f)) :
        \A i \in DOMAIN s : table[s[i]].order = i - 1

ContiguousPositions == \A f \in Families : Contiguous(rows, f)

\* housing_checklist.go:222, "retirement cannot race it": no answer is
\* committed for a criterion that is retired or another family's.
AnswersOnlyActive ==
    [][\A h \in Homes, c \in Criteria :
          (answers'[h, c] # answers[h, c] /\ answers'[h, c] # NoAnswer)
            => c \in ActiveIn(rows, HomeFamily[h])]_vars

\* The transactions a transaction's next statement waits for.
WaitsFor(t) ==
    {u \in Txns \ {t} :
        \/ pc[t] = "lock" /\ famLock[op[t].fam] = u
        \/ pc[t] = "row" /\ op[t].id # NewID /\ u \in RowBlockers(t, op[t].id)
        \/ pc[t] = "retire" /\ u \in RowBlockers(t, op[t].id)
        \/ /\ pc[t] = "write" /\ nxt[t] <= Len(ids[t])
           /\ u \in RowBlockers(t, ids[t][nxt[t]])
        \/ pc[t] = "share" /\ op[t].id \in DOMAIN writes[u]
        \/ pc[t] = "put" /\ u \in SameAnswer(t)}

\* housing_checklist.go:38-52, 71-78, 210-232.  Family lock, row locks taken in
\* list order and share locks never form a cycle of waiting transactions, so
\* PostgreSQL never has to kill one.
NoWaitCycle ==
    \A S \in SUBSET Txns : S # {} => \E t \in S : WaitsFor(t) \cap S = {}

\* Once no more operations arrive, every transaction ends by itself, by
\* committing or by refusing its request, also after rollbacks of others.
Quiesces ==
    <>[][\A t \in Txns : ~Begin(t)]_vars => <>[](\A t \in Txns : pc[t] = "idle")

Abs == INSTANCE ChecklistAbs WITH
    list <- [f \in Families |->
               CHOOSE s \in SetToSeqs(ActiveIn(rows, f)) : Sorted(s, rows)],
    spent <- {c \in Criteria : rows[c].status # "none"}

\* The transactions implement the abstract checklist: each commit is one
\* atomic insertion, move, retirement, permutation or answer of the list as
\* it is at that moment, and nothing else changes it.
ImplementsAbs == Abs!ASpec
=============================================================================
