------------------------------ MODULE Planning ------------------------------
(***************************************************************************)
(* Saving profiles and housing options of a family, and what is computed   *)
(* from them: the grant an option is stored with (applyGrantEstimate of    *)
(* internal/server/housing.go) and the household dashboard                 *)
(* (internal/server/dashboard.go, internal/service/dashboard.go).          *)
(*                                                                         *)
(* A handler reads with one statement and uses what it read after other    *)
(* handlers have written: the grant is estimated before the option is      *)
(* written, and the dashboard reads the people first and the options       *)
(* later, without a transaction.  The callers here are writers of the      *)
(* family; who may do what is the matter of Housing, People and Access.    *)
(***************************************************************************)
EXTENDS Calculation

CONSTANTS
    Persons,        \* ids of person profiles
    Homes,          \* ids of housing options
    PersonForms,    \* PersonProfile messages a client sends
    HomeForms,      \* HousingOption messages a client sends
    Reqs,           \* handlers in flight
    NoRow           \* a row that does not exist

\* A housing option: the columns the calculations look at.
HomeFields == {"type", "price", "grant", "loanType", "loanAmount", "rate", "tenure",
               "dpBps", "legal", "stampDuty", "maintenance", "visible", "keyDate",
               "overrides"}
IsHome(o) == o = [field \in HomeFields |-> o[field]]

\* A person profile: the columns the calculations and the validation look at.
PersonFields == PersonAmounts \cup {"relation", "status", "start", "graduation", "ord"}
IsPerson(f) == f = [field \in PersonFields |-> f[field]]

ASSUME PlanningAssumption ==
    /\ NoRow \notin PersonForms /\ NoRow \notin HomeForms
    /\ \A f \in PersonForms : IsPerson(f) /\ HasAmounts(f, PersonAmounts)
    /\ \A f \in HomeForms : IsHome(f) /\ HasAmounts(f, HomeAmounts)
    /\ IsFiniteSet(Persons)

VARIABLES
    people,     \* table person_profiles
    options,    \* table housing_options
    reqs,       \* handlers
    basis       \* history: the household an option's grant was estimated from

vars == <<people, options, reqs, basis>>

Idle == [pc |-> "idle"]
NoHousehold == [p \in {} |-> NoRow]

\* ListPersonProfilesByFamily and ListHousingOptions.
Household == [p \in {q \in Persons : people[q] # NoRow} |-> people[p]]
Listed == {o \in Homes : options[o] # NoRow}

Init ==
    /\ people = [p \in Persons |-> NoRow]
    /\ options = [o \in Homes |-> NoRow]
    /\ reqs = [r \in Reqs |-> Idle]
    /\ basis = [o \in Homes |-> NoHousehold]

InFlight(r) == reqs[r].pc \notin {"idle", "done"}

\* Every handler still reading learns, for the properties, that a table changed.
Disturbed == [r \in Reqs |-> IF InFlight(r) THEN [reqs[r] EXCEPT !.quiet = FALSE] ELSE reqs[r]]

-----------------------------------------------------------------------------
(* Person profiles: validateAndNormalizePersonProfile, then one statement. *)

\* Only three employment statuses may be saved; others are in old rows.
validPerson(f) ==
    /\ f.relation \in {"spouse", "fiance", "fiancee", "occupant", "self", "me"}
    /\ \/ f.status = "full_time_employee"
       \/ f.status = "student" /\ f.graduation
       \/ f.status = "full_time_nsf" /\ f.ord
    /\ \A amount \in {f.gross, f.cash, f.oa, f.sa, f.ma, f.expenses} : amount >= 0
    /\ f.status # "full_time_employee" => f.expected >= 0

normalizedPerson(f) ==
    CASE f.status = "full_time_employee" -> [f EXCEPT !.expected = 0, !.start = FALSE,
                                                !.graduation = FALSE, !.ord = FALSE]
      [] f.status = "student" -> [f EXCEPT !.ord = FALSE]
      [] f.status = "full_time_nsf" -> [f EXCEPT !.graduation = FALSE]

SavePerson(p, f) ==
    /\ validPerson(f)
    /\ people' = [people EXCEPT ![p] = normalizedPerson(f)]
    /\ reqs' = Disturbed
    /\ UNCHANGED <<options, basis>>

DeletePerson(p) ==
    /\ people[p] # NoRow
    /\ people' = [people EXCEPT ![p] = NoRow]
    /\ reqs' = Disturbed
    /\ UNCHANGED <<options, basis>>

-----------------------------------------------------------------------------
(* Housing options: validation, the grant, then the statement.             *)

\* CreateHousingOption or UpdateHousingOption.
Statement(o) == IF options[o] = NoRow THEN "INSERT" ELSE "UPDATE"

BeginSave(r, o, f) ==
    /\ reqs[r] = Idle
    /\ validateHousingOption(f)
    /\ reqs' = [reqs EXCEPT ![r] = [pc |-> "estimate", home |-> o, form |-> f, quiet |-> TRUE,
                                    statement |-> Statement(o)]]
    /\ UNCHANGED <<people, options, basis>>

\* Fault: a deferred option keeps the grant the client sent.
granted_KeepsClients(f, household) ==
    [f EXCEPT !.grant =
        IF IsNonHDBHousingType(f.type) THEN 0
        ELSE IF IsDeferredHousingOption(f) THEN f.grant
        ELSE EstimateHousingGrantAmount(f.type, household).grant]

\* The grant is the system's whatever the client sent; none is planned for
\* deferred options and for homes that are not HDB.
granted(f, household) ==
    [f EXCEPT !.grant =
        IF IsNonHDBHousingType(f.type) \/ IsDeferredHousingOption(f) THEN 0
        ELSE EstimateHousingGrantAmount(f.type, household).grant]

applyGrantEstimate(r) ==
    /\ reqs[r].pc = "estimate"
    /\ reqs' = [reqs EXCEPT ![r] = [pc |-> "write", home |-> reqs[r].home,
                                    form |-> granted(reqs[r].form, Household),
                                    basis |-> Household, quiet |-> reqs[r].quiet,
                                    statement |-> reqs[r].statement]]
    /\ UNCHANGED <<people, options, basis>>

\* An INSERT has a fresh id; an UPDATE of a row deleted meanwhile writes
\* nothing and is answered NotFound, which is Finish.
WriteOption(r) ==
    /\ reqs[r].pc = "write"
    /\ reqs[r].statement = Statement(reqs[r].home)
    /\ options' = [options EXCEPT ![reqs[r].home] = reqs[r].form]
    /\ basis' = [basis EXCEPT ![reqs[r].home] = reqs[r].basis]
    /\ reqs' = [Disturbed EXCEPT ![r] = Idle]
    /\ UNCHANGED people

SetVisible(o, v) ==
    /\ options[o] # NoRow
    /\ options' = [options EXCEPT ![o].visible = v]
    /\ reqs' = Disturbed
    /\ UNCHANGED <<people, basis>>

DeleteHome(o) ==
    /\ options[o] # NoRow
    /\ options' = [options EXCEPT ![o] = NoRow]
    /\ basis' = [basis EXCEPT ![o] = NoHousehold]
    /\ reqs' = Disturbed
    /\ UNCHANGED people

-----------------------------------------------------------------------------
(* Reads: the grant estimate alone, and the dashboard in two statements.   *)

EstimateHousingGrant(r, type) ==
    /\ reqs[r] = Idle
    /\ reqs' = [reqs EXCEPT ![r] = [pc |-> "done", kind |-> "grant", type |-> type,
                                    household |-> Household,
                                    reply |-> EstimateHousingGrantAmount(type, Household)]]
    /\ UNCHANGED <<people, options, basis>>

BeginDashboard(r) ==
    /\ reqs[r] = Idle
    /\ reqs' = [reqs EXCEPT ![r] = [pc |-> "people", quiet |-> TRUE]]
    /\ UNCHANGED <<people, options, basis>>

ReadPeople(r) ==
    /\ reqs[r].pc = "people"
    /\ reqs' = [reqs EXCEPT ![r] = [pc |-> "options", household |-> Household,
                                    quiet |-> reqs[r].quiet]]
    /\ UNCHANGED <<people, options, basis>>

\* Fault: affordability is rated against gross income.
assetsOf_Gross(household) ==
    LET income == CalculateHouseholdIncomeSummary(household) IN
    [cash |-> SumOver(household, LAMBDA p : p.cash), oa |-> income.oa,
     takeHome |-> income.current, expenses |-> income.expenses]

assetsOf(household) ==
    LET income == CalculateHouseholdIncomeSummary(household) IN
    [cash |-> SumOver(household, LAMBDA p : p.cash), oa |-> income.oa,
     takeHome |-> income.takeHome, expenses |-> income.expenses]

BuildHouseholdDashboard(household, shown, lines) ==
    [income |-> CalculateHouseholdIncomeSummary(household),
     cash |-> assetsOf(household).cash,
     lines |-> [o \in {h \in DOMAIN shown : shown[h].visible} |-> lines[o]]]

ReadOptions(r) ==
    /\ reqs[r].pc = "options"
    /\ LET household == reqs[r].household
           shown == [o \in Listed |-> options[o]]
           results == [o \in Listed |-> CalculateHousingAffordability(options[o], assetsOf(household))] IN
       \E lines \in [Listed -> UNION {results[o] : o \in Listed}] :
          /\ \A o \in Listed : lines[o] \in results[o]
          /\ reqs' = [reqs EXCEPT ![r] =
                [pc |-> "done", kind |-> "dashboard", household |-> household,
                 reply |-> BuildHouseholdDashboard(household, shown, lines)]]
    /\ UNCHANGED <<people, options, basis>>

\* The reply is sent, or a statement fails and the handler returns an error.
Finish(r) ==
    /\ reqs[r].pc # "idle"
    /\ reqs' = [reqs EXCEPT ![r] = Idle]
    /\ UNCHANGED <<people, options, basis>>

Next ==
    \/ \E p \in Persons :
        \/ \E f \in PersonForms : SavePerson(p, f)
        \/ DeletePerson(p)
    \/ \E o \in Homes :
        \/ \E v \in BOOLEAN : SetVisible(o, v)
        \/ DeleteHome(o)
    \/ \E r \in Reqs :
        \/ \E o \in Homes, f \in HomeForms : BeginSave(r, o, f)
        \/ applyGrantEstimate(r) \/ WriteOption(r)
        \/ \E t \in HousingType : EstimateHousingGrant(r, t)
        \/ BeginDashboard(r) \/ ReadPeople(r) \/ ReadOptions(r)
        \/ Finish(r)

Spec == Init /\ [][Next]_vars

-----------------------------------------------------------------------------
(* Properties.                                                             *)

\* housing.go:402-421 (server): an option that is read back as deferred has no
\* grant, although whether it is deferred is decided before the grant is
\* replaced and depends on it.
DeferredHasNoGrant ==
    \A o \in Homes : options[o] # NoRow /\ IsDeferredHousingOption(options[o])
                        => options[o].grant = 0

\* housing.go:402-421 (server): saving again what was read, for the household
\* the grant was estimated from, stores the same: the estimate is a fixed
\* point however the form it came from was shaped.
EchoChangesNothing ==
    \A o \in Homes : options[o] # NoRow =>
        granted(options[o], basis[o]) = options[o]

\* housing_grant.go:73-97: replacing the grant never turns a deferred option
\* into one that is not.
SavingKeepsDeferral ==
    [][\A r \in Reqs : reqs[r].pc = "estimate" /\ reqs'[r].pc = "write" =>
          (IsDeferredHousingOption(reqs[r].form) => IsDeferredHousingOption(reqs'[r].form))]_vars

ShowsTables(d) ==
    /\ DOMAIN d.lines = {o \in Homes : options[o] # NoRow /\ options[o].visible}
    /\ d.income.current = SumOver(Household, LAMBDA p : p.gross)
    /\ d.cash = SumOver(Household, LAMBDA p : p.cash)
    /\ \A o \in DOMAIN d.lines : d.lines[o].net = Larger(options[o].price - options[o].grant, 0)

LinesAgree(d) ==
    \A o \in DOMAIN d.lines :
        /\ d.lines[o].cpfUsed + d.lines[o].remainingOA = d.income.oa
        /\ d.lines[o].topUp + d.lines[o].remainingCash = d.cash
        /\ d.lines[o].cost + d.lines[o].surplus + d.income.expenses = d.income.takeHome
        /\ d.lines[o].surplus < 0 => d.lines[o].rating = "not_recommended"

\* dashboard.go:32-66 (server), service/dashboard.go:15-44: also when people and
\* options were read at different moments, all lines of a dashboard are about
\* the same household, the one whose totals it shows; and when nothing was
\* written since it was asked for, it shows the tables as they are: the options
\* marked visible (CHANGELOG.md:56), for the money of the people in the family.
DashboardSound ==
    [][\A r \in Reqs : reqs[r].pc = "options" /\ reqs'[r].pc = "done" =>
          LinesAgree(reqs'[r].reply) /\ (reqs[r].quiet => ShowsTables(reqs'[r].reply))]_vars
=============================================================================
