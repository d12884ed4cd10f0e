------------------------------- MODULE Access -------------------------------
(***************************************************************************)
(* Who reads what: the Get and List handlers of families, people, income   *)
(* history, housing options and housing groups, from the headers of a call *)
(* to its reply.  A handler authenticates, takes the ids of the request,   *)
(* and reads: a Get joins family_members in its one statement, a List asks *)
(* hasFamilyAccess first and reads later.  Meanwhile sessions end, members *)
(* join, rows come and go, and the linked-user migration is applied.       *)
(*                                                                         *)
(* The writers are single steps here; Auth, Families, People and Housing   *)
(* model their statements.  No code removes a member or changes a role.    *)
(***************************************************************************)
EXTENDS Naturals, FiniteSets, Sequences, SequencesExt

CONSTANTS
    Users, Families,
    Persons, Homes, Groups,     \* ids, never used twice
    Tokens,                     \* session tokens
    TokenUser,                  \* the user a token was made for
    Blank,                      \* an id or a header of spaces, or an empty one
    Absent,                     \* a header that was not sent
    MaxBearers,                 \* bound on the bearer tokens of a call
    Reqs

ASSUME AccessAssumption ==
    /\ TokenUser \in [Tokens -> Users]
    /\ Blank \notin Tokens \cup Families \cup Persons \cup Homes \cup Users
    /\ Absent \notin Tokens /\ Absent # Blank /\ MaxBearers \in Nat

VARIABLES
    sessions,   \* of a token: no session yet, a live one, one revoked or expired
    disabled,   \* users with a disabled_at
    role,       \* role[f]: family_members of f, a partial function of users
    persons,    \* person_profiles: person -> [fam, link]
    history,    \* person_income_history: set of [person, fam]
    spent,      \* ids of profiles that have been given out
    homes,      \* housing_options: home -> family
    groups,     \* housing_groups: group -> [fam, name]
    linkColumn, \* person_profiles.linked_user_id exists and has its type
    reqs

tables == <<role, persons, history, spent, homes, groups, linkColumn>>
vars == <<sessions, disabled, tables, reqs>>

Idle == [pc |-> "idle"]
FamilyRole == {"owner", "member", "viewer"}     \* an admin reads and writes as a member
Empty == [x \in {} |-> x]
Put(table, id, row) == [i \in DOMAIN table \cup {id} |-> IF i = id THEN row ELSE table[i]]
Drop(table, id) == [i \in DOMAIN table \ {id} |-> table[i]]

Init ==
    /\ sessions = [t \in Tokens |-> "none"] /\ disabled = {}
    /\ role = [f \in Families |-> Empty]
    /\ persons = Empty /\ history = {} /\ spent = {} /\ homes = Empty /\ groups = Empty
    /\ linkColumn \in BOOLEAN
    /\ reqs = [r \in Reqs |-> Idle]

Member(u, f) == f \in Families /\ u \in DOMAIN role[f]
Writer(u, f) == Member(u, f) /\ role[f][u] \in {"owner", "admin", "member"}

-----------------------------------------------------------------------------
(* The writers.                                                            *)

Login(t) ==
    /\ sessions[t] = "none" /\ TokenUser[t] \notin disabled
    /\ sessions' = [sessions EXCEPT ![t] = "live"]
    /\ UNCHANGED <<disabled, tables, reqs>>
SessionEnds(t) ==
    /\ sessions[t] = "live"
    /\ sessions' = [sessions EXCEPT ![t] = "ended"]
    /\ UNCHANGED <<disabled, tables, reqs>>
DisableUser(u) == disabled' = disabled \cup {u} /\ UNCHANGED <<sessions, tables, reqs>>

\* The creator of a family is its owner, who joins by a code a member; no code
\* inserts the viewers the schema allows.
Join(u, f, as) ==
    /\ u \notin DOMAIN role[f]
    /\ as = "owner" <=> role[f] = Empty
    /\ role' = [role EXCEPT ![f] = Put(@, u, as)]
    /\ UNCHANGED <<sessions, disabled, persons, history, spent, homes, groups, linkColumn, reqs>>

\* A link is stored only where there is a column for it, and kept by an update
\* that brings none (COALESCE).
SavePerson(u, p, f, link) ==
    LET stored == IF p \in DOMAIN persons THEN persons[p].link ELSE Blank IN
    /\ Writer(u, f)
    /\ IF p \in DOMAIN persons THEN persons[p].fam = f ELSE p \notin spent
    /\ spent' = spent \cup {p}
    /\ persons' = Put(persons, p, [fam |-> f, link |-> IF linkColumn /\ link # Blank
                                                       THEN link ELSE stored])
    /\ history' = history \cup {[person |-> p, fam |-> f]}
    /\ UNCHANGED <<sessions, disabled, role, homes, groups, linkColumn, reqs>>

\* The history goes with its profile (ON DELETE CASCADE).
DeletePerson(u, p) ==
    /\ p \in DOMAIN persons /\ Writer(u, persons[p].fam)
    /\ persons' = Drop(persons, p)
    /\ history' = {h \in history : h.person # p}
    /\ UNCHANGED <<sessions, disabled, role, spent, homes, groups, linkColumn, reqs>>

SaveHome(u, h, f) ==
    /\ Writer(u, f) /\ h \notin DOMAIN homes
    /\ homes' = Put(homes, h, f)
    /\ UNCHANGED <<sessions, disabled, role, persons, history, spent, groups, linkColumn, reqs>>

SaveGroup(u, g, f) ==
    /\ Writer(u, f) /\ g \notin DOMAIN groups
    /\ groups' = Put(groups, g, [fam |-> f, name |-> u])
    /\ UNCHANGED <<sessions, disabled, role, persons, history, spent, homes, linkColumn, reqs>>

\* One statement, which joins family_members; the name is who gave it.
UpdateHousingGroup(u, g) ==
    /\ g \in DOMAIN groups /\ Writer(u, groups[g].fam)
    /\ groups' = [groups EXCEPT ![g].name = u]
    /\ UNCHANGED <<sessions, disabled, role, persons, history, spent, homes, linkColumn, reqs>>

Migrate ==
    /\ ~linkColumn
    /\ linkColumn' = TRUE
    /\ UNCHANGED <<sessions, disabled, role, persons, history, spent, homes, groups, reqs>>

-----------------------------------------------------------------------------
(* A call: its headers, the user it claims to be, and the id it names.     *)

\* The calls that ask hasFamilyAccess before they read.
FamilyLists == {"ListFamilyMembers", "ListPersonProfilesByFamily", "ListIncomeHistoryByFamily",
                "ListHousingOptions", "ListHousingGroups"}

\* The calls whose statement names linked_user_id.
ProfileReads == {"GetPersonProfile", "ListPersonProfilesByFamily"}

\* x-session-token is a token, Blank or Absent; authorization the bearer
\* tokens of its values, in order (values with another scheme are skipped).
Headers == [session : Tokens \cup {Blank, Absent}, bearers : SeqOf(Tokens, MaxBearers)]

\* Fault: an empty session header falls through to the bearer token.
sessionTokenFromContext_FallsThrough(headers) ==
    IF headers.session \notin {Absent, Blank} THEN headers.session
    ELSE IF headers.bearers # <<>> THEN headers.bearers[1] ELSE Blank

\* The session header decides once it is there, blank or not.
sessionTokenFromContext(headers) ==
    IF headers.session # Absent THEN headers.session
    ELSE IF headers.bearers # <<>> THEN headers.bearers[1] ELSE Blank

\* With an authenticator, which main always gives, the claimed user is ignored.
requestActorID(user, claimed) == user

\* Authenticate: one statement reads the session and its user.
Authenticate(token) ==
    token \in Tokens /\ sessions[token] = "live" /\ TokenUser[token] \notin disabled

\* Whose call it is, for the properties: the session header's if there is one.
Caller(headers) ==
    IF headers.session = Absent /\ headers.bearers # <<>> THEN headers.bearers[1]
    ELSE headers.session

\* Users who were disabled and sessions that ended are barred.
Barred(token) ==
    token \in Tokens => sessions[token] = "ended" \/ TokenUser[token] \in disabled

\* What the tables hold of a kind, for the properties: row id of family fam.
Stored(kind, id, fam) ==
    CASE kind \in {"GetFamily", "ListUserFamilies"} -> id = fam /\ fam \in Families
      [] kind = "ListFamilyMembers" -> Member(id, fam)
      [] kind \in ProfileReads -> id \in DOMAIN persons /\ persons[id].fam = fam
      [] kind = "ListIncomeHistoryByFamily" -> [person |-> id, fam |-> fam] \in history
      [] kind \in {"GetHousingOption", "ListHousingOptions"} ->
           id \in DOMAIN homes /\ homes[id] = fam
      [] kind = "ListHousingGroups" -> id \in DOMAIN groups /\ groups[id].fam = fam

\* What a call of user u is owed when it comes in: the rows it asks for that are
\* there and of a family of u, and the link of a profile if it has one.
Owed(u, kind, id) ==
    {row \in [id : Users \cup Families \cup Persons \cup Homes \cup Groups,
              fam : Families, linked : BOOLEAN] :
        /\ Member(u, row.fam)
        /\ IF kind \in FamilyLists THEN row.fam = id ELSE kind = "ListUserFamilies" \/ row.id = id
        /\ Stored(kind, row.id, row.fam)
        /\ row.linked <=> kind \in ProfileReads /\ linkColumn /\ persons[row.id].link # Blank}

Reply(req, code, rows) ==
    [pc |-> "done", kind |-> req.kind, id |-> req.id, token |-> req.token,
     barred |-> req.barred, owed |-> req.owed, code |-> code, rows |-> rows]

\* The first thing a handler does is to authenticate; the id of the request is
\* looked at only for callers who passed.
Call(r, kind, headers, claimed, id) ==
    LET token == sessionTokenFromContext(headers)
        UserOf(t) == IF t \in Tokens THEN TokenUser[t] ELSE Blank
        req == [pc |-> IF kind \in FamilyLists THEN "access" ELSE "read", kind |-> kind, id |-> id,
                token |-> Caller(headers), barred |-> Barred(Caller(headers)),
                owed |-> Owed(UserOf(Caller(headers)), kind, id),
                viewer |-> requestActorID(UserOf(token), claimed)] IN
    /\ reqs[r] = Idle
    /\ reqs' = [reqs EXCEPT ![r] =
          IF ~Authenticate(token) THEN Reply([req EXCEPT !.owed = {}], "Unauthenticated", {})
          ELSE IF id = Blank /\ kind # "ListUserFamilies" THEN Reply(req, "InvalidArgument", {})
          ELSE req]
    /\ UNCHANGED <<sessions, disabled, tables>>

GetFamily(r, headers, claimed, f) == Call(r, "GetFamily", headers, claimed, f)
ListUserFamilies(r, headers, claimed) == Call(r, "ListUserFamilies", headers, claimed, Blank)
ListFamilyMembers(r, headers, claimed, f) == Call(r, "ListFamilyMembers", headers, claimed, f)
GetPersonProfile(r, headers, claimed, p) == Call(r, "GetPersonProfile", headers, claimed, p)
ListPersonProfilesByFamily(r, headers, claimed, f) ==
    Call(r, "ListPersonProfilesByFamily", headers, claimed, f)
ListIncomeHistoryByFamily(r, headers, claimed, f) ==
    Call(r, "ListIncomeHistoryByFamily", headers, claimed, f)
GetHousingOption(r, headers, claimed, h) == Call(r, "GetHousingOption", headers, claimed, h)
ListHousingOptions(r, headers, claimed, f) == Call(r, "ListHousingOptions", headers, claimed, f)
ListHousingGroups(r, headers, claimed, f) == Call(r, "ListHousingGroups", headers, claimed, f)

Done(r, code, rows) == reqs' = [reqs EXCEPT ![r] = Reply(reqs[r], code, rows)]

\* Fault: the roles of assertFamilyManager are asked for.
hasFamilyAccess_Managers(r) ==
    /\ reqs[r].pc = "access"
    /\ IF Member(reqs[r].viewer, reqs[r].id)
            /\ role[reqs[r].id][reqs[r].viewer] \in {"owner", "admin"}
       THEN reqs' = [reqs EXCEPT ![r].pc = "read"]
       ELSE Done(r, "PermissionDenied", {})
    /\ UNCHANGED <<sessions, disabled, tables>>

\* A family that does not exist has no members either.
hasFamilyAccess(r) ==
    /\ reqs[r].pc = "access"
    /\ IF Member(reqs[r].viewer, reqs[r].id)
       THEN reqs' = [reqs EXCEPT ![r].pc = "read"]
       ELSE Done(r, "PermissionDenied", {})
    /\ UNCHANGED <<sessions, disabled, tables>>

-----------------------------------------------------------------------------
(* The statements that read.  A row of a reply is what the client sees.    *)

familyRows(u, f) == {[id |-> f, fam |-> f] : g \in {h \in {f} : Member(u, h)}}
userFamilyRows(u) == {[id |-> f, fam |-> f] : f \in {g \in Families : Member(u, g)}}
memberRows(f) == {[id |-> u, fam |-> f, role |-> role[f][u]] : u \in DOMAIN role[f]}

\* Fault: the family of the profile is read first, and its membership after.
personRow_TwoSteps(u, p) ==
    IF p \notin DOMAIN persons THEN [code |-> "NotFound", rows |-> {}]
    ELSE IF ~Member(u, persons[p].fam) THEN [code |-> "PermissionDenied", rows |-> {}]
    ELSE [code |-> "OK", rows |-> {[id |-> p, fam |-> persons[p].fam, link |-> persons[p].link]}]

personRow(u, p) ==
    LET rows == {[id |-> q, fam |-> persons[q].fam, link |-> persons[q].link] :
                    q \in {p} \cap {s \in DOMAIN persons : Member(u, persons[s].fam)}} IN
    [code |-> IF rows = {} THEN "NotFound" ELSE "OK", rows |-> rows]

personRows(f) == {[id |-> p, fam |-> f, link |-> persons[p].link] :
                    p \in {q \in DOMAIN persons : persons[q].fam = f}}

\* The columns every schema has: the same rows, without their link.
scanLegacyPersonRow(rows) == {[id |-> row.id, fam |-> row.fam, link |-> Blank] : row \in rows}

\* LEFT JOIN: the name comes from the profile or, without one, from the entry.
historyRows(f) == {[id |-> h.person, fam |-> f] : h \in {g \in history : g.fam = f}}

homeRows(u, h) == {[id |-> g, fam |-> homes[g]] :
                     g \in {h} \cap {i \in DOMAIN homes : Member(u, homes[i])}}
homeListRows(f) == {[id |-> h, fam |-> f] : h \in {g \in DOMAIN homes : homes[g] = f}}
groupRows(f) == {[id |-> g, fam |-> f, name |-> groups[g].name] :
                   g \in {h \in DOMAIN groups : groups[h].fam = f}}

\* No row is NotFound for a Get, and an empty list for a List.
Found(rows) == [code |-> IF rows = {} THEN "NotFound" ELSE "OK", rows |-> rows]
Listed(rows) == [code |-> "OK", rows |-> rows]

Result(kind, u, id) ==
    CASE kind = "GetFamily" -> Found(familyRows(u, id))
      [] kind = "ListUserFamilies" -> Listed(userFamilyRows(u))
      [] kind = "ListFamilyMembers" -> Listed(memberRows(id))
      [] kind = "GetPersonProfile" -> personRow(u, id)
      [] kind = "ListPersonProfilesByFamily" -> Listed(personRows(id))
      [] kind = "ListIncomeHistoryByFamily" -> Listed(historyRows(id))
      [] kind = "GetHousingOption" -> Found(homeRows(u, id))
      [] kind = "ListHousingOptions" -> Listed(homeListRows(id))
      [] kind = "ListHousingGroups" -> Listed(groupRows(id))

Read(r) ==
    /\ reqs[r].pc = "read"
    /\ IF reqs[r].kind \in ProfileReads /\ ~linkColumn
       THEN reqs' = [reqs EXCEPT ![r].pc = "legacy"]
       ELSE LET result == Result(reqs[r].kind, reqs[r].viewer, reqs[r].id) IN
            Done(r, result.code, result.rows)
    /\ UNCHANGED <<sessions, disabled, tables>>

\* The error was isLinkedUserCompatibilityError: the older statement is tried,
\* whatever happened to the schema meanwhile.
LegacyRead(r) ==
    /\ reqs[r].pc = "legacy"
    /\ LET result == Result(reqs[r].kind, reqs[r].viewer, reqs[r].id) IN
       Done(r, result.code, scanLegacyPersonRow(result.rows))
    /\ UNCHANGED <<sessions, disabled, tables>>

\* The reply is sent, or a statement fails.
Finish(r) ==
    /\ reqs[r].pc # "idle"
    /\ reqs' = [reqs EXCEPT ![r] = Idle]
    /\ UNCHANGED <<sessions, disabled, tables>>

Calls(r, headers, claimed) ==
    \/ ListUserFamilies(r, headers, claimed)
    \/ \E f \in Families \cup {Blank} :
        \/ GetFamily(r, headers, claimed, f) \/ ListFamilyMembers(r, headers, claimed, f)
        \/ ListPersonProfilesByFamily(r, headers, claimed, f)
        \/ ListIncomeHistoryByFamily(r, headers, claimed, f)
        \/ ListHousingOptions(r, headers, claimed, f) \/ ListHousingGroups(r, headers, claimed, f)
    \/ \E p \in Persons : GetPersonProfile(r, headers, claimed, p)
    \/ \E h \in Homes : GetHousingOption(r, headers, claimed, h)

Writes(u) ==
    \/ DisableUser(u)
    \/ \E f \in Families :
        \/ \E as \in FamilyRole : Join(u, f, as)
        \/ \E p \in Persons, link \in Users \cup {Blank} : SavePerson(u, p, f, link)
        \/ \E h \in Homes : SaveHome(u, h, f)
        \/ \E g \in Groups : SaveGroup(u, g, f)
    \/ \E p \in Persons : DeletePerson(u, p)
    \/ \E g \in Groups : UpdateHousingGroup(u, g)

Next ==
    \/ \E u \in Users : Writes(u)
    \/ \E t \in Tokens : Login(t) \/ SessionEnds(t)
    \/ Migrate
    \/ \E r \in Reqs :
        \/ \E headers \in Headers, claimed \in Users \cup {Blank} : Calls(r, headers, claimed)
        \/ hasFamilyAccess(r) \/ Read(r) \/ LegacyRead(r) \/ Finish(r)

Spec == Init /\ [][Next]_vars

-----------------------------------------------------------------------------
(* Properties.                                                             *)

Replies == {r \in Reqs : reqs[r].pc = "done"}

\* auth_context.go:64-110, people.go:104-252, housing.go:75-140, families.go:62-103,
\* 154-195: rows of a family reach only its members, whoever the message says is
\* asking and whatever joins, moves or goes between the statements; and someone
\* who is not in the family is told what one is told of a row that does not exist.
StrangersLearnNothing ==
    \A r \in Replies : reqs[r].code \notin {"Unauthenticated", "InvalidArgument"} =>
        LET Stranger(f) == ~Member(TokenUser[reqs[r].token], f)
            Hidden(fam) == Stranger(fam) => reqs[r].code = "NotFound" IN
        /\ \A row \in reqs[r].rows : ~Stranger(row.fam)
        /\ reqs[r].kind \in FamilyLists /\ Stranger(reqs[r].id) => reqs[r].code = "PermissionDenied"
        /\ reqs[r].kind = "GetFamily" => Hidden(reqs[r].id)
        /\ reqs[r].kind = "GetPersonProfile" /\ reqs[r].id \in DOMAIN persons =>
             Hidden(persons[reqs[r].id].fam)
        /\ reqs[r].kind = "GetHousingOption" /\ reqs[r].id \in DOMAIN homes =>
             Hidden(homes[reqs[r].id])

\* auth_context.go:23-62: a call whose session had ended, or whose user had been
\* disabled, when it came in is refused, also when it carries the bearer token
\* of another session, or a blank session header beside one.
BarredCallsRefused ==
    \A r \in Replies : reqs[r].barred => reqs[r].code = "Unauthenticated"

\* auth_context.go:64-110, people.go:104-252: whatever joins, moves, goes or is
\* migrated between the statements of a call, a member is never told that a row is
\* not there, or not theirs, which was there when they asked and still is; and a
\* profile whose link could be read then is not shown without one.
MembersAreServed ==
    \A r \in Replies : reqs[r].code \notin {"Unauthenticated", "InvalidArgument"} =>
        \A due \in reqs[r].owed : Stored(reqs[r].kind, due.id, due.fam) =>
            \E row \in reqs[r].rows :
                row.id = due.id /\ row.fam = due.fam /\ (due.linked => row.link # Blank)
=============================================================================
