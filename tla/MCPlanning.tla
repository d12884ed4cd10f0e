----------------------------- MODULE MCPlanning -----------------------------
(* Instance of Planning, and of the calculators of Finance, for TLC.       *)
EXTENDS Planning, Finance

CONSTANTS m1, m2

-----------------------------------------------------------------------------
(* The tables.                                                             *)

Form(status, gross, expected) ==
    [relation |-> "self", age |-> 30, status |-> status, gross |-> gross,
     expected |-> expected, start |-> expected > 0, graduation |-> status = "student",
     ord |-> status = "full_time_nsf", cash |-> 3000000, oa |-> 1000000, sa |-> 0,
     ma |-> 0, expenses |-> 20000]

\* An income on the edge of a bracket, none yet, and a status that is refused.
MCPersonForms ==
    {Form("full_time_employee", 450000, 200000), Form("student", 0, 350000),
     Form("part_time_employee", 100000, 0)}

Home(type, loanType, tenure, dpBps, grant, keyDate, overrides) ==
    [type |-> type, price |-> 40000000, grant |-> grant, loanType |-> loanType,
     loanAmount |-> 0, rate |-> 0, tenure |-> tenure, dpBps |-> dpBps,
     legal |-> 0, stampDuty |-> 0, maintenance |-> 5000, visible |-> TRUE,
     keyDate |-> keyDate, overrides |-> overrides]

\* Every way to be deferred or nearly so, with and without a client's grant.
MCHomeForms ==
    {Home("bto", "hdb", 240, 2500, 8000000, "zero", 1),
     Home("bto", "hdb", 240, 1000, 8000000, "zero", 1),
     Home("bto", "hdb", 240, 1000, 0, "set", 0),
     Home("bto", "hdb", 240, 1000, 8000000, "set", 0),
     Home("bto", "bank", 360, 1000, 8000000, "set", 0),
     Home("bto", "bank", 240, 1000, 8000000, "set", 1),
     Home("bto", "cash", 0, 2500, 0, "set", 1),
     [Home("resale_hdb", "hdb", 240, 2500, 0, "set", 1) EXCEPT !.rate = 260],
     Home("landed", "bank", 420, 2500, 0, "set", 0),
     Home("landed", "hdb", 240, 2500, 0, "set", 0)}

-----------------------------------------------------------------------------
(* The calculators: the edges of every band.                               *)

MCAges == {0, 35, 36, 45, 46, 50, 51, 55, 56, 60, 61, 65, 66, 70, 71}
MCWages == {-100, 0, 5000, 5001, 49999, 50000, 50001, 50667, 74999, 75000, 75001,
            123456, 799999, 800000, 800001, 2000000}
MCStatuses == {"full_time_employee", "student", "self_employed"}

Person(age, status, gross, expected, dates) ==
    [age |-> age, status |-> status, gross |-> gross, expected |-> expected,
     cash |-> 100000, oa |-> 5000, sa |-> 300, ma |-> 200, expenses |-> 90000,
     dates |-> dates]
NoDates == <<"none", "none", "none">>
MCPeople ==
    {Person(30, "full_time_employee", 0, 0, NoDates),
     Person(30, "full_time_employee", 75001, 60000, NoDates),
     Person(58, "full_time_employee", 810050, 0, NoDates),
     Person(22, "student", 40000, 350000, <<"none", "set", "none">>),
     Person(20, "full_time_nsf", -1, 0, <<"none", "none", "set">>),
     Person(40, "self_employed", 500000, 0, <<"none", "none", "bad">>)}

MCOptions ==
    [type : {"bto", "resale_hdb", "private_condo"}, price : {0, 19, 40000000},
     grant : {0, 8000000, 50000000}, loanType : LoanType, loanAmount : {0, 30000000},
     rate : {0, 260}, tenure : {0, 300, 360, 421}, dpBps : {0, 400, 2500, 12000},
     legal : {250000}, stampDuty : {0}, maintenance : {8000},
     keyDate : {"none", "set"}, overrides : {0}]
    \cup   \* rates and fees below zero, which nothing refuses
    [type : {"bto", "private_condo"}, price : {19, 40000000},
     grant : {0, -500}, loanType : {"bank", "cash"}, loanAmount : {0, -1},
     rate : {260}, tenure : {300}, dpBps : {-400, 2500},
     legal : {-300000, 250000}, stampDuty : {0, -20000000}, maintenance : {-8000},
     keyDate : {"none"}, overrides : {0}]

Money(cash, oa, takeHome, expenses) ==
    [cash |-> cash, oa |-> oa, takeHome |-> takeHome, expenses |-> expenses]
MCAssets == {Money(0, 0, 0, 0), Money(2000000, 0, 250000, 20000),
             Money(9000000, 6000000, 640000, 450000),
             Money(9000000, 6000000, 641000, 20000)}

-----------------------------------------------------------------------------
(* The calculators read and write no table, so their calls are explored on *)
(* their own: from the empty tables, and answered before anything else.    *)

MCInit == Init /\ CalculatorInit

Calculator ==
    /\ call = NoCall => /\ people = [p \in Persons |-> NoRow]
                        /\ options = [o \in Homes |-> NoRow]
                        /\ reqs = [r \in Reqs |-> Idle]
    /\ CalculatorNext
    /\ UNCHANGED vars

MCNext == (call = NoCall /\ Next /\ UNCHANGED call) \/ Calculator

MCSpec == MCInit /\ [][MCNext]_<<vars, call>>
=============================================================================
