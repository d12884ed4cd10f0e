----------------------------- MODULE Households -----------------------------
(***************************************************************************)
(* What families and the people in them have in common: the same users     *)
(* call the same server about the same families.                           *)
(***************************************************************************)

CONSTANTS
    Users,
    Families,   \* family ids
    Reqs        \* handlers in flight
=============================================================================
