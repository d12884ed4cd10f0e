----------------------------- MODULE MCDispatch -----------------------------
(* Instance of Dispatch for TLC: two calls through every stub.             *)
EXTENDS Dispatch, TLC

\* Every stub, and names this server does not have.
AllNames == AllStubs \cup {<<"AuthService", "Logout">>, <<"CalendarService", "Login">>}

Interchangeable == Permutations(Calls)
=============================================================================
