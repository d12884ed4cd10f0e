------------------------------ MODULE Dispatch ------------------------------
(***************************************************************************)
(* From the stub a client calls to the method of the server that runs: the *)
(* generated tables of internal/gen/proto/ournezt/v1 (grpc.pb.go), the     *)
(* registration in cmd/core/main.go and AuthRateLimitInterceptor           *)
(* (internal/server/auth_limit.go) around every unary call.                *)
(*                                                                         *)
(* The interceptor tells methods apart by the name the generated handler   *)
(* passes it, so a table that is wrong in one place charges the wrong      *)
(* calls.  It also counts failures and refusals of the calls it charges    *)
(* and logs the counts at most once in LogEvery; calls end concurrently.   *)
(* Whether AllowIP admits a call is free here: module Limiter has it.  The *)
(* grpc package in between is external.                                    *)
(***************************************************************************)
EXTENDS Naturals, FiniteSets

CONSTANTS
    Calls,      \* calls in flight
    Wire,       \* what clients ask for: stubs <<service, method>> and other names
    LogEvery,   \* 30 * time.Second
    MaxTime,    \* bound on the clock
    MaxEnds     \* bound on counted ends of calls

ASSUME DispatchAssumption ==
    /\ LogEvery \in Nat \ {0} /\ MaxTime \in Nat /\ MaxEnds \in Nat

VARIABLES
    calls,      \* calls in flight
    failures, throttled, nextLog,   \* variables of the interceptor
    now,        \* time.Now
    ended,      \* history: ends by failure and by refusal
    logged,     \* history: the counts of all log lines together
    lastLog     \* history: when the last line was logged

dispatchVars == <<calls, failures, throttled, nextLog, now, ended, logged, lastLog>>
counters == <<failures, throttled, nextLog, ended, logged, lastLog>>

-----------------------------------------------------------------------------
(* The generated tables, read off the files row by row: for each service   *)
(* the name a client stub invokes, and for each entry of its ServiceDesc   *)
(* the name its handler gives to the interceptor and the method of the     *)
(* server it runs.                                                         *)

StubsOf(service, rows) ==
    {[stub |-> <<service, row[1]>>, name |-> <<service, row[2]>>] : row \in rows}
HandlersOf(service, rows) ==
    {[name |-> <<service, row[1]>>, full |-> <<service, row[2]>>, runs |-> <<service, row[3]>>] :
        row \in rows}

authServiceClient == StubsOf("AuthService",
    {<<"Login", "Login">>,
     <<"ValidateSession", "ValidateSession">>,
     <<"ChangePassword", "ChangePassword">>,
     <<"UpdateMyAccount", "UpdateMyAccount">>,
     <<"GenerateAdminAccessKey", "GenerateAdminAccessKey">>,
     <<"ConsumeAdminAccessKey", "ConsumeAdminAccessKey">>,
     <<"ListUsers", "ListUsers">>,
     <<"CreateUser", "CreateUser">>,
     <<"DisableUser", "DisableUser">>})

AuthService_Handlers ==
    {<<"Login", "Login", "Login">>,
     <<"ValidateSession", "ValidateSession", "ValidateSession">>,
     <<"ChangePassword", "ChangePassword", "ChangePassword">>,
     <<"UpdateMyAccount", "UpdateMyAccount", "UpdateMyAccount">>,
     <<"GenerateAdminAccessKey", "GenerateAdminAccessKey", "GenerateAdminAccessKey">>,
     <<"ConsumeAdminAccessKey", "ConsumeAdminAccessKey", "ConsumeAdminAccessKey">>,
     <<"ListUsers", "ListUsers", "ListUsers">>,
     <<"CreateUser", "CreateUser", "CreateUser">>,
     <<"DisableUser", "DisableUser", "DisableUser">>}
AuthService_ServiceDesc == HandlersOf("AuthService", AuthService_Handlers)

familyServiceClient == StubsOf("FamilyService",
    {<<"CreateFamily", "CreateFamily">>,
     <<"GetFamily", "GetFamily">>,
     <<"ListUserFamilies", "ListUserFamilies">>,
     <<"JoinFamilyByCode", "JoinFamilyByCode">>,
     <<"GenerateFamilyJoinCode", "GenerateFamilyJoinCode">>,
     <<"ListFamilyMembers", "ListFamilyMembers">>})

FamilyService_Handlers ==
    {<<"CreateFamily", "CreateFamily", "CreateFamily">>,
     <<"GetFamily", "GetFamily", "GetFamily">>,
     <<"ListUserFamilies", "ListUserFamilies", "ListUserFamilies">>,
     <<"JoinFamilyByCode", "JoinFamilyByCode", "JoinFamilyByCode">>,
     <<"GenerateFamilyJoinCode", "GenerateFamilyJoinCode", "GenerateFamilyJoinCode">>,
     <<"ListFamilyMembers", "ListFamilyMembers", "ListFamilyMembers">>}
FamilyService_ServiceDesc == HandlersOf("FamilyService", FamilyService_Handlers)

personServiceClient == StubsOf("PersonService",
    {<<"CreatePersonProfile", "CreatePersonProfile">>,
     <<"GetPersonProfile", "GetPersonProfile">>,
     <<"ListPersonProfilesByFamily", "ListPersonProfilesByFamily">>,
     <<"ListIncomeHistoryByFamily", "ListIncomeHistoryByFamily">>,
     <<"UpdatePersonProfile", "UpdatePersonProfile">>,
     <<"DeletePersonProfile", "DeletePersonProfile">>})

PersonService_Handlers ==
    {<<"CreatePersonProfile", "CreatePersonProfile", "CreatePersonProfile">>,
     <<"GetPersonProfile", "GetPersonProfile", "GetPersonProfile">>,
     <<"ListPersonProfilesByFamily", "ListPersonProfilesByFamily", "ListPersonProfilesByFamily">>,
     <<"ListIncomeHistoryByFamily", "ListIncomeHistoryByFamily", "ListIncomeHistoryByFamily">>,
     <<"UpdatePersonProfile", "UpdatePersonProfile", "UpdatePersonProfile">>,
     <<"DeletePersonProfile", "DeletePersonProfile", "DeletePersonProfile">>}
PersonService_ServiceDesc == HandlersOf("PersonService", PersonService_Handlers)

housingServiceClient == StubsOf("HousingService",
    {<<"ListHousingCriteria", "ListHousingCriteria">>,
     <<"SaveHousingCriterion", "SaveHousingCriterion">>,
     <<"DeleteHousingCriterion", "DeleteHousingCriterion">>,
     <<"ReorderHousingCriteria", "ReorderHousingCriteria">>,
     <<"GetHousingEvaluation", "GetHousingEvaluation">>,
     <<"SaveHousingAnswer", "SaveHousingAnswer">>,
     <<"CreateHousingOption", "CreateHousingOption">>,
     <<"GetHousingOption", "GetHousingOption">>,
     <<"ListHousingOptions", "ListHousingOptions">>,
     <<"UpdateHousingOption", "UpdateHousingOption">>,
     <<"UpdateHousingNotes", "UpdateHousingNotes">>,
     <<"DeleteHousingOption", "DeleteHousingOption">>,
     <<"CreateHousingGroup", "CreateHousingGroup">>,
     <<"ListHousingGroups", "ListHousingGroups">>,
     <<"UpdateHousingGroup", "UpdateHousingGroup">>,
     <<"DeleteHousingGroup", "DeleteHousingGroup">>,
     <<"AssignHousingOptionGroup", "AssignHousingOptionGroup">>,
     <<"UpdateHousingOptionVisibility", "UpdateHousingOptionVisibility">>,
     <<"BulkUpdateHousingGroupVisibility", "BulkUpdateHousingGroupVisibility">>,
     <<"CalculateHousingAffordability", "CalculateHousingAffordability">>,
     <<"EstimateHousingGrant", "EstimateHousingGrant">>})

HousingService_Handlers ==
    {<<"ListHousingCriteria", "ListHousingCriteria", "ListHousingCriteria">>,
     <<"SaveHousingCriterion", "SaveHousingCriterion", "SaveHousingCriterion">>,
     <<"DeleteHousingCriterion", "DeleteHousingCriterion", "DeleteHousingCriterion">>,
     <<"ReorderHousingCriteria", "ReorderHousingCriteria", "ReorderHousingCriteria">>,
     <<"GetHousingEvaluation", "GetHousingEvaluation", "GetHousingEvaluation">>,
     <<"SaveHousingAnswer", "SaveHousingAnswer", "SaveHousingAnswer">>,
     <<"CreateHousingOption", "CreateHousingOption", "CreateHousingOption">>,
     <<"GetHousingOption", "GetHousingOption", "GetHousingOption">>,
     <<"ListHousingOptions", "ListHousingOptions", "ListHousingOptions">>,
     <<"UpdateHousingOption", "UpdateHousingOption", "UpdateHousingOption">>,
     <<"UpdateHousingNotes", "UpdateHousingNotes", "UpdateHousingNotes">>,
     <<"DeleteHousingOption", "DeleteHousingOption", "DeleteHousingOption">>,
     <<"CreateHousingGroup", "CreateHousingGroup", "CreateHousingGroup">>,
     <<"ListHousingGroups", "ListHousingGroups", "ListHousingGroups">>,
     <<"UpdateHousingGroup", "UpdateHousingGroup", "UpdateHousingGroup">>,
     <<"DeleteHousingGroup", "DeleteHousingGroup", "DeleteHousingGroup">>,
     <<"AssignHousingOptionGroup", "AssignHousingOptionGroup", "AssignHousingOptionGroup">>,
     <<"UpdateHousingOptionVisibility", "UpdateHousingOptionVisibility", "UpdateHousingOptionVisibility">>,
     <<"BulkUpdateHousingGroupVisibility", "BulkUpdateHousingGroupVisibility", "BulkUpdateHousingGroupVisibility">>,
     <<"CalculateHousingAffordability", "CalculateHousingAffordability", "CalculateHousingAffordability">>,
     <<"EstimateHousingGrant", "EstimateHousingGrant", "EstimateHousingGrant">>}
HousingService_ServiceDesc == HandlersOf("HousingService", HousingService_Handlers)

incomeServiceClient == StubsOf("IncomeService",
    {<<"CalculateIncomeBreakdown", "CalculateIncomeBreakdown">>,
     <<"CalculateHouseholdIncomeSummary", "CalculateHouseholdIncomeSummary">>})

IncomeService_Handlers ==
    {<<"CalculateIncomeBreakdown", "CalculateIncomeBreakdown", "CalculateIncomeBreakdown">>,
     <<"CalculateHouseholdIncomeSummary", "CalculateHouseholdIncomeSummary", "CalculateHouseholdIncomeSummary">>}
IncomeService_ServiceDesc == HandlersOf("IncomeService", IncomeService_Handlers)

cPFServiceClient == StubsOf("CPFService",
    {<<"CalculateCPFContribution", "CalculateCPFContribution">>})

CPFService_Handlers ==
    {<<"CalculateCPFContribution", "CalculateCPFContribution", "CalculateCPFContribution">>}
CPFService_ServiceDesc == HandlersOf("CPFService", CPFService_Handlers)

dashboardServiceClient == StubsOf("DashboardService",
    {<<"GetHouseholdDashboard", "GetHouseholdDashboard">>})

DashboardService_Handlers ==
    {<<"GetHouseholdDashboard", "GetHouseholdDashboard", "GetHouseholdDashboard">>}
DashboardService_ServiceDesc == HandlersOf("DashboardService", DashboardService_Handlers)

\* The Register functions main calls before Serve.
Registered ==
    AuthService_ServiceDesc \cup FamilyService_ServiceDesc \cup PersonService_ServiceDesc
        \cup HousingService_ServiceDesc \cup IncomeService_ServiceDesc
        \cup CPFService_ServiceDesc \cup DashboardService_ServiceDesc

Clients ==
    authServiceClient \cup familyServiceClient \cup personServiceClient
        \cup housingServiceClient \cup incomeServiceClient \cup cPFServiceClient
        \cup dashboardServiceClient

\* Every stub of the generated clients.
AllStubs == {x.stub : x \in Clients}

\* What the methods of AuthServer call in service.AuthService.
AuthServer ==
    {<<"CreateUser", "CreateUser">>, <<"Login", "Login">>,
     <<"ChangePassword", "ChangePassword">>, <<"UpdateMyAccount", "UpdateMyAccount">>,
     <<"GenerateAdminAccessKey", "GenerateAdminAccessKey">>,
     <<"ConsumeAdminAccessKey", "ConsumeAdminAccessKey">>, <<"ListUsers", "ListUsers">>,
     <<"DisableUser", "DisableUser">>}

\* The methods of service.AuthService that hash or verify a password.
PasswordWork == {"CreateUser", "Login", "ChangePassword", "EnsureBootstrapAdmin"}

PasswordMethods ==
    {<<"AuthService", row[1]>> : row \in {x \in AuthServer : x[2] \in PasswordWork}}

-----------------------------------------------------------------------------
(* Calls.                                                                  *)

IdleCall == [pc |-> "idle"]

DispatchInit ==
    /\ calls = [c \in Calls |-> IdleCall]
    /\ failures = 0 /\ throttled = 0 /\ nextLog = 0
    /\ now = 1
    /\ ended = [failed |-> 0, refused |-> 0]
    /\ logged = [failed |-> 0, refused |-> 0]
    /\ lastLog = 0

At(c, step) == calls[c].pc = step
Move(c, call) == calls' = [calls EXCEPT ![c] = call]

\* A stub invokes its name; a client that was built from something else sends
\* names this server may not have.
Sent(w) == IF w \in AllStubs THEN {x.name : x \in {y \in Clients : y.stub = w}} ELSE {w}

Invoke(c) ==
    /\ At(c, "idle")
    /\ \E w \in Wire : \E name \in Sent(w) :
        Move(c, [pc |-> "routed", asked |-> w, name |-> name])
    /\ UNCHANGED <<counters, now>>

\* The server looks the name up in the registered tables.
Found(name) == {h \in Registered : h.name = name}

Route(c) ==
    /\ At(c, "routed")
    /\ \/ \E h \in Found(calls[c].name) :
            Move(c, [pc |-> "decode", asked |-> calls[c].asked, handler |-> h])
       \/ Found(calls[c].name) = {} /\ Move(c, IdleCall)      \* codes.Unimplemented
    /\ UNCHANGED <<counters, now>>

\* dec(in): a request that does not parse is answered here.
Decode(c) ==
    /\ At(c, "decode")
    /\ \/ Move(c, [calls[c] EXCEPT !.pc = "intercept"])
       \/ Move(c, IdleCall)
    /\ UNCHANGED <<counters, now>>

\* The cases of the switch over info.FullMethod.
ChargedMethod(full) == full \in {<<"AuthService", m>> : m \in {"Login", "ChangePassword", "CreateUser"}}

Codes == {"OK", "Unauthenticated", "ResourceExhausted", "other"}
Counts(code) == code \in {"Unauthenticated", "ResourceExhausted"}

\* The bound on counted ends leaves room for one more.
Room ==
    ended.failed + ended.refused
        + Cardinality({c \in Calls : At(c, "record") /\ Counts(calls[c].code)}) < MaxEnds

Ran(c, charged) == [pc |-> "run", asked |-> calls[c].asked,
                    runs |-> calls[c].handler.runs, charged |-> charged]
Over(c, runs, code) == [pc |-> "record", asked |-> calls[c].asked, runs |-> runs, code |-> code]

\* Uncharged calls pass; others are admitted by AllowIP or answered with
\* ResourceExhausted.
Intercept(c) ==
    /\ At(c, "intercept")
    /\ \/ ~ChargedMethod(calls[c].handler.full) /\ Move(c, Ran(c, FALSE))
       \/ ChargedMethod(calls[c].handler.full) /\ Move(c, Ran(c, TRUE))
       \/ /\ ChargedMethod(calls[c].handler.full) /\ Room
          /\ Move(c, Over(c, calls[c].handler.runs, "ResourceExhausted"))
    /\ UNCHANGED <<counters, now>>

Failed(code) == IF code = "Unauthenticated" THEN 1 ELSE 0
Refused(code) == IF code = "ResourceExhausted" THEN 1 ELSE 0

\* History: how a call ends that asked for password work, or did any, whatever
\* the interceptor made of it.
Ended(call, code) ==
    ended' = IF call.asked \in PasswordMethods \/ call.runs \in PasswordMethods
             THEN [failed |-> ended.failed + Failed(code), refused |-> ended.refused + Refused(code)]
             ELSE ended

\* The method returns; the interceptor goes on to record the end of a call it
\* charged.
Run(c) ==
    /\ At(c, "run")
    /\ \E code \in Codes :
        /\ Counts(code) => Room
        /\ \/ /\ calls[c].charged
              /\ Move(c, Over(c, calls[c].runs, code))
              /\ UNCHANGED ended
           \/ ~calls[c].charged /\ Move(c, IdleCall) /\ Ended(calls[c], code)
    /\ UNCHANGED <<failures, throttled, nextLog, logged, lastLog, now>>

\* Fault: the next line is due a period after the last one was due.
LogCounts_ByDueTime(f, t) ==
    IF now >= nextLog
    THEN /\ logged' = [failed |-> logged.failed + f, refused |-> logged.refused + t]
         /\ failures' = 0 /\ throttled' = 0
         /\ nextLog' = nextLog + LogEvery
         /\ lastLog' = now
    ELSE /\ failures' = f /\ throttled' = t
         /\ UNCHANGED <<logged, nextLog, lastLog>>

\* A line with the counts f and t is logged if it is time.
LogCounts(f, t) ==
    IF now >= nextLog
    THEN /\ logged' = [failed |-> logged.failed + f, refused |-> logged.refused + t]
         /\ failures' = 0 /\ throttled' = 0
         /\ nextLog' = now + LogEvery
         /\ lastLog' = now
    ELSE /\ failures' = f /\ throttled' = t
         /\ UNCHANGED <<logged, nextLog, lastLog>>

\* Fault: a call that logs is left out of the line it triggers.
record_AfterLog(c) ==
    LET code == calls[c].code IN
    /\ At(c, "record")
    /\ Move(c, IdleCall)
    /\ IF Counts(code)
       THEN /\ Ended(calls[c], code)
            /\ IF now >= nextLog
               THEN LogCounts(failures, throttled)
               ELSE LogCounts(failures + Failed(code), throttled + Refused(code))
       ELSE UNCHANGED counters
    /\ UNCHANGED now

\* record, under its mutex.
record(c) ==
    LET code == calls[c].code IN
    /\ At(c, "record")
    /\ Move(c, IdleCall)
    /\ IF Counts(code)
       THEN /\ Ended(calls[c], code)
            /\ LogCounts(failures + Failed(code), throttled + Refused(code))
       ELSE UNCHANGED counters
    /\ UNCHANGED now

DispatchTick ==
    /\ now < MaxTime
    /\ now' = now + 1
    /\ UNCHANGED <<calls, counters>>

DispatchNext ==
    \/ DispatchTick
    \/ \E c \in Calls :
        Invoke(c) \/ Route(c) \/ Decode(c) \/ Intercept(c) \/ Run(c) \/ record(c)

DispatchSpec == DispatchInit /\ [][DispatchNext]_dispatchVars

-----------------------------------------------------------------------------
(* Properties.                                                             *)

\* The log lines and the counters still held account for every call that asked for
\* password work, or did any, and failed or was refused, each once, however calls
\* and lines interleave (auth_limit.go:25-59): the names the stubs invoke, the names
\* the generated handlers pass on, the interceptor's switch and the methods that hash
\* or verify a password agree, and no update of the counters is lost.
EveryEndAccounted ==
    /\ logged.failed + failures = ended.failed
    /\ logged.refused + throttled = ended.refused

\* Two log lines are at least LogEvery apart, also after a quiet time
\* (auth_limit.go:37-42).
LinesSpaced ==
    [][lastLog' # lastLog /\ lastLog # 0 => lastLog' >= lastLog + LogEvery]_dispatchVars
=============================================================================
