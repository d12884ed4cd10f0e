---------------------------- MODULE MCEvaluation ----------------------------
(* Instance of Evaluation for TLC: one family with two homes.              *)
EXTENDS Evaluation

CONSTANT f1

MCHomeFamily == [h \in Homes |-> f1]

\* Answers with the extreme ratings, one that may not have any, and two that
\* are refused.
MCAnswers ==
    {[state |-> "complete", rating |-> 1], [state |-> "pending", rating |-> 5],
     [state |-> "not_applicable", rating |-> NoRating], [state |-> "complete", rating |-> NoRating],
     [state |-> "complete", rating |-> 6]}

\* Weights that are refused at either end, and one that is not.
MCWeights == {NoWeight, 3, 0, 1001}

Interchangeable == Permutations(Homes) \cup Permutations(Criteria)
=============================================================================
