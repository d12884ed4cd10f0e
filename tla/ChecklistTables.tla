-------------------------- MODULE ChecklistTables --------------------------
(***************************************************************************)
(* What the abstract checklist, the transactions that implement it and the *)
(* readers of it share: the homes and the answers as they are committed.   *)
(***************************************************************************)

CONSTANTS
    Families,
    Criteria,       \* criterion ids
    Homes,          \* housing options
    HomeFamily,     \* housing_options.family_id
    Answers,        \* contents of an answer
    NoAnswer,
    None

VARIABLES
    homes,      \* ids in housing_options
    answers     \* housing_checklist_answers: answers[h, c]
=============================================================================
