----------------------------- MODULE Evaluation -----------------------------
(***************************************************************************)
(* Reading a family's housing evaluation while others edit it: the         *)
(* checklist of ChecklistAbs (which Checklist, the detailed model of the   *)
(* transactions, implements) with the weights of its criteria, and the     *)
(* handlers GetHousingEvaluation, ListHousingOptions and GetHousingOption, *)
(* which read homes, criteria and answers in three statements without a    *)
(* transaction and summarise what they have read.                          *)
(***************************************************************************)
EXTENDS ChecklistAbs, Integers, FiniteSetsExt

CONSTANTS
    WeightForms,    \* weights clients ask for
    NoWeight,       \* a criterion without a weight
    NoRating,       \* an answer without a rating
    Reqs            \* handlers in flight

\* Answers holds the contents clients send, valid or not.
ASSUME EvaluationAssumption ==
    /\ \A a \in Answers : a = [state |-> a.state, rating |-> a.rating]
    /\ NoAnswer \notin Answers
    /\ HomeFamily \in [Homes -> Families]
    /\ None \notin Int \X Int

VARIABLES
    weight,     \* column weight of housing_checklist_criteria
    reqs        \* handlers

evaluationVars == <<list, spent, homes, answers, weight, reqs>>

Idle == [pc |-> "idle"]

EvaluationInit ==
    /\ AInit
    /\ weight = [c \in Criteria |-> NoWeight]
    /\ reqs = [r \in Reqs |-> Idle]

\* Every handler still reading learns, for the properties, which of the cells
\* it asks for changed.
Touch(cells) ==
    reqs' = [r \in Reqs |->
               IF reqs[r].pc \in {"idle", "done"} THEN reqs[r]
               ELSE [reqs[r] EXCEPT !.touched = @ \cup {cell \in cells : cell[1] \in reqs[r].listed}]]

-----------------------------------------------------------------------------
(* Writers: one committed transaction is one step of ChecklistAbs.         *)

ValidateHousingCriterion(w) == w = NoWeight \/ w \in 1 .. 1000

ValidateHousingAnswer(a) ==
    /\ a.state \in {"pending", "complete", "not_applicable"}
    /\ a.rating = NoRating \/ a.rating \in 1 .. 5
    /\ a.state = "complete" => a.rating # NoRating
    /\ a.state = "not_applicable" => a.rating = NoRating

SaveHousingCriterion(f, c, p, w) ==
    /\ ValidateHousingCriterion(w)
    /\ AInsert(f, c, p) \/ AMove(f, c, p)
    /\ weight' = [weight EXCEPT ![c] = w]
    /\ Touch(Homes \X {c})

DeleteHousingCriterion(f, c) ==
    /\ ARetire(f, c)
    /\ Touch(Homes \X {c})
    /\ UNCHANGED weight

ReorderHousingCriteria(f) ==
    /\ AReorder(f)
    /\ Touch({})
    /\ UNCHANGED weight

SaveHousingAnswer(h, c, a) ==
    /\ ValidateHousingAnswer(a)
    /\ AAnswer(h, c, a)
    /\ Touch({<<h, c>>})
    /\ UNCHANGED weight

DeleteHousingOption(h) ==
    /\ h \in homes
    /\ ADeleteHome(h)
    /\ Touch({h} \X Criteria)
    /\ UNCHANGED weight

-----------------------------------------------------------------------------
(* The summary of what was read: criteria is a sequence of records id,     *)
(* weight; given maps criteria to answers.  A score is the pair of the     *)
(* weighted sum and the sum of weights (the code divides them).            *)

Factor(criterion) == IF criterion.weight = NoWeight THEN 1 ELSE criterion.weight

RatingSum(criteria, given, S) ==
    MapThenSumSet(LAMBDA i : given[criteria[i].id].rating * Factor(criteria[i]), S)

WeightSum(criteria, S) == MapThenSumSet(LAMBDA i : Factor(criteria[i]), S)

\* Fault: criteria without a rating enter the denominator.
SummarizeHousingEvaluation_AllWeights(criteria, given) ==
    LET Of(i) == criteria[i].id
        In(state) == {i \in DOMAIN criteria : Of(i) \in DOMAIN given /\ given[Of(i)].state = state}
        rated == {i \in DOMAIN criteria : Of(i) \in DOMAIN given /\ given[Of(i)].rating # NoRating}
                    \ In("not_applicable")
        counted == DOMAIN criteria \ In("not_applicable") IN
    [total |-> Len(criteria), completed |-> Cardinality(In("complete")),
     notApplicable |-> Cardinality(In("not_applicable")), rated |-> Cardinality(rated),
     weighted |-> \E i \in DOMAIN criteria : criteria[i].weight # NoWeight,
     score |-> IF rated = {} THEN None
               ELSE <<RatingSum(criteria, given, rated), WeightSum(criteria, counted)>>]

SummarizeHousingEvaluation(criteria, given) ==
    LET Of(i) == criteria[i].id
        In(state) == {i \in DOMAIN criteria : Of(i) \in DOMAIN given /\ given[Of(i)].state = state}
        rated == {i \in DOMAIN criteria : Of(i) \in DOMAIN given /\ given[Of(i)].rating # NoRating}
                    \ In("not_applicable") IN
    [total |-> Len(criteria), completed |-> Cardinality(In("complete")),
     notApplicable |-> Cardinality(In("not_applicable")), rated |-> Cardinality(rated),
     weighted |-> \E i \in DOMAIN criteria : criteria[i].weight # NoWeight,
     score |-> IF rated = {} THEN None
               ELSE <<RatingSum(criteria, given, rated), WeightSum(criteria, rated)>>]

-----------------------------------------------------------------------------
(* Readers.  listed holds the homes the reply is about.                    *)

\* What a handler starts from; touched is a history variable.
Reading(f, listed) == [pc |-> "criteria", fam |-> f, listed |-> listed, touched |-> {}]

\* GetHousingOption and GetHousingEvaluation: a home that does not exist is
\* NotFound.
GetHousingEvaluation(r, h) ==
    /\ reqs[r] = Idle
    /\ h \in homes
    /\ reqs' = [reqs EXCEPT ![r] = Reading(HomeFamily[h], {h})]
    /\ UNCHANGED <<list, spent, homes, answers, weight>>

\* Without homes nothing more is read.
ListHousingOptions(r, f) ==
    /\ reqs[r] = Idle
    /\ \E h \in homes : HomeFamily[h] = f
    /\ reqs' = [reqs EXCEPT ![r] = Reading(f, {h \in homes : HomeFamily[h] = f})]
    /\ UNCHANGED <<list, spent, homes, answers, weight>>

\* WHERE family_id = ... AND deleted_at IS NULL ORDER BY display_order, id
CriteriaRead(f) == [i \in DOMAIN list[f] |-> [id |-> list[f][i], weight |-> weight[list[f][i]]]]

ListHousingCriteria(r) ==
    /\ reqs[r].pc = "criteria"
    /\ reqs' = [reqs EXCEPT ![r] =
          [pc |-> "answers", fam |-> reqs[r].fam, listed |-> reqs[r].listed,
           touched |-> reqs[r].touched, criteria |-> CriteriaRead(reqs[r].fam)]]
    /\ UNCHANGED <<list, spent, homes, answers, weight>>

\* Fault: answers that do not apply are not read.
AnswersRead_Applicable(f, h) ==
    [c \in {d \in ToSet(list[f]) : answers[h, d] # NoAnswer
                                     /\ answers[h, d].state # "not_applicable"} |-> answers[h, c]]

\* The answers of a home whose criterion is active now.
AnswersRead(f, h) ==
    [c \in {d \in ToSet(list[f]) : answers[h, d] # NoAnswer} |-> answers[h, c]]

\* GetHousingEvaluation and attachHousingEvaluations: the answers of another
\* moment, cut down to the criteria of the reply.
ListHousingAnswers(r) ==
    /\ reqs[r].pc = "answers"
    /\ LET criteria == reqs[r].criteria
           active == {criteria[i].id : i \in DOMAIN criteria}
           read == [h \in reqs[r].listed |-> AnswersRead(reqs[r].fam, h)]
           given == [h \in reqs[r].listed |->
                       [c \in DOMAIN read[h] \cap active |-> read[h][c]]] IN
       reqs' = [reqs EXCEPT ![r] =
          [pc |-> "done", given |-> given,
           summary |-> [h \in reqs[r].listed |-> SummarizeHousingEvaluation(criteria, given[h])]]]
    /\ UNCHANGED <<list, spent, homes, answers, weight>>

\* The reply is sent, or a statement fails.
Finish(r) ==
    /\ reqs[r].pc # "idle"
    /\ reqs' = [reqs EXCEPT ![r] = Idle]
    /\ UNCHANGED <<list, spent, homes, answers, weight>>

EvaluationNext ==
    \/ \E f \in Families :
        \/ \E c \in Criteria :
            \/ \E p \in 0 .. Len(list[f]), w \in WeightForms : SaveHousingCriterion(f, c, p, w)
            \/ DeleteHousingCriterion(f, c)
        \/ ReorderHousingCriteria(f)
    \/ \E h \in Homes :
        \/ \E c \in Criteria, a \in Answers : SaveHousingAnswer(h, c, a)
        \/ DeleteHousingOption(h)
    \/ \E r \in Reqs :
        \/ \E h \in Homes : GetHousingEvaluation(r, h)
        \/ \E f \in Families : ListHousingOptions(r, f)
        \/ ListHousingCriteria(r) \/ ListHousingAnswers(r) \/ Finish(r)

EvaluationSpec == EvaluationInit /\ [][EvaluationNext]_evaluationVars

-----------------------------------------------------------------------------
(* Properties.                                                             *)

Replies == {r \in Reqs : reqs[r].pc = "done"}

\* domain/housing_checklist.go:60-97: whatever mixture of criteria, weights and
\* answers the two statements have read, the score lies between 1 and 5 and
\* exists exactly when something was rated, what is complete is rated, and
\* complete and not applicable criteria are disjoint parts of the total.
SummaryIsSound ==
    \A r \in Replies : \A h \in DOMAIN reqs[r].summary :
        LET s == reqs[r].summary[h] IN
        /\ s.completed <= s.rated
        /\ s.rated + s.notApplicable <= s.total
        /\ (s.score = None) <=> (s.rated = 0)
        /\ s.score # None => s.score[2] <= s.score[1] /\ s.score[1] <= 5 * s.score[2]

\* housing_checklist.go:121-158 (server): an answer that nobody touched while
\* the request was running is in the reply, although criteria and answers are
\* read at different moments, and other answers come and go meanwhile.
UntouchedAnswersShown ==
    [][\A r \in Reqs : reqs[r].pc = "answers" /\ reqs'[r].pc = "done" =>
          \A h \in reqs[r].listed, c \in ToSet(list[reqs[r].fam]) :
              <<h, c>> \notin reqs[r].touched /\ answers[h, c] # NoAnswer =>
                  /\ c \in DOMAIN reqs'[r].given[h]
                  /\ reqs'[r].given[h][c] = answers[h, c]]_evaluationVars
=============================================================================
