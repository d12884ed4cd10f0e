------------------------------- MODULE People -------------------------------
(***************************************************************************)
(* Person profiles and their income history                                *)
(* (internal/repository/postgres/people.go).  One statement writes profile *)
(* and history row together; on a database that lacks the history table or *)
(* the linked_user_id column the repository tries older forms of the       *)
(* statement, one after the other, while a migration may add what was      *)
(* missing.                                                                *)
(*                                                                         *)
(* now() is the time the statement was received: it may wait for a row     *)
(* lock and be applied after a later one.  The clock stops at MaxTime.     *)
(*                                                                         *)
(* An income stands for the two income columns; the other columns are left *)
(* out.  Actors are writers of the family (assertFamilyWriter or the join  *)
(* with family_members; roles never change, see Families): the callers     *)
(* refused change nothing.                                                 *)
(***************************************************************************)
EXTENDS Households, Naturals, FiniteSets

CONSTANTS
    Profiles,   \* person profile ids
    Garbage,    \* a linked_user_id that is no canonical uuid
    Incomes,
    MaxTime,    \* bound on the clock
    None

ASSUME PeopleAssumption ==
    /\ MaxTime \in Nat
    /\ None \notin Users \cup Profiles /\ Garbage \notin Users
    /\ Families # {} /\ Incomes # {}

VARIABLES
    schema,     \* the migrations 000002 and 000003 that have been applied
    clock,
    people,     \* table person_profiles: unborn, live or deleted; at is updated_at
    history,    \* table person_income_history: person, income, recorded_at
    saves,      \* handlers of the writing operations; found (history) is the schema
                \* when the request came in
    tracked     \* history variable: profiles last written by a full statement

peopleVars == <<schema, clock, people, history, saves, tracked>>

Migrations == {"history", "linked"}

NoProfile == [status |-> "unborn", fam |-> CHOOSE f \in Families : TRUE,
              income |-> CHOOSE i \in Incomes : TRUE, link |-> None, at |-> 0]

\* A form of the INSERT or UPDATE is the set of migrations it relies on.
FullForm == {"history", "linked"}

NoSave == [pc |-> "idle"]

Live(p) == people[p].status = "live"

\* normalizeOptionalUUID
NormalizedLink(l) == IF l \in Users THEN l ELSE None

PeopleInit ==
    /\ schema \in SUBSET Migrations
    /\ clock = 0
    /\ people = [p \in Profiles |-> NoProfile]
    /\ history = {}
    /\ saves = [r \in Reqs |-> NoSave]
    /\ tracked = {}

EndSave(r) == saves' = [saves EXCEPT ![r] = NoSave]

-----------------------------------------------------------------------------
(* CreatePersonProfile and UpdatePersonProfile.                            *)

StartSave(r, id, f, i, l) ==
    /\ saves[r].pc = "idle"
    /\ saves' = [saves EXCEPT ![r] =
          [pc |-> "try", id |-> id, fam |-> f, income |-> i,
           link |-> NormalizedLink(l), form |-> FullForm, found |-> schema, at |-> 0]]
    /\ UNCHANGED <<schema, clock, people, history, tracked>>

StartCreate(r) ==
    \E f \in Families, i \in Incomes, l \in Users \cup {Garbage, None} :
        StartSave(r, None, f, i, l)

\* Ids are random: a client names a profile that exists or existed.
StartUpdate(r) ==
    \E p \in Profiles, i \in Incomes, l \in Users \cup {Garbage, None} :
        /\ people[p].status # "unborn"
        /\ StartSave(r, p, people[p].fam, i, l)

\* The error PostgreSQL reports for a form: the common table expression that
\* names linked_user_id is analysed before the one that names the history.
Missing(form) ==
    IF "linked" \in form \ schema THEN "linked" ELSE "history"

\* Fault: an update falls back as a new profile does.
Retries_WithoutBoth(id, form) == IF form = FullForm THEN {{}} ELSE {}

\* The form tried after an error: none, if the set is empty.  A new profile
\* is retried without both; an update gives up the history first and keeps
\* the link when only the history is missing.
Retries(id, form) ==
    IF form = FullForm
    THEN IF id # None /\ Missing(form) = "history" THEN {{"linked"}} ELSE {{}}
    ELSE IF form = {"linked"} THEN {{}} ELSE {}

\* The server receives the statement: now() is fixed, and so is its plan.
Issue(r) ==
    LET q == saves[r] IN
    /\ q.pc = "try"
    /\ IF q.form \subseteq schema
       THEN saves' = [saves EXCEPT ![r].pc = "apply", ![r].at = clock]
       ELSE \E f \in Retries(q.id, q.form) : saves' = [saves EXCEPT ![r].form = f]
    /\ UNCHANGED <<schema, clock, people, history, tracked>>

\* The unique index on (family_id, linked_user_id).
LinkFree(p, f, l) ==
    l # None =>
        \A o \in Profiles \ {p} : ~(Live(o) /\ people[o].fam = f /\ people[o].link = l)

\* Fault: the link is set to what the request says.
NewLink_Direct(q, old) == IF "linked" \in q.form THEN q.link ELSE old

\* COALESCE(NULLIF($16, '')::uuid, p.linked_user_id); forms without the
\* column leave it alone.
NewLink(q, old) == IF "linked" \in q.form /\ q.link # None THEN q.link ELSE old

\* Fault: the history row is selected from the table, as it was before.
Recorded_Before(q, p) ==
    IF "history" \in q.form
    THEN history \cup {[person |-> p, income |-> people[p].income, at |-> q.at]}
    ELSE history

\* history_insert, with recorded_at = updated_at.
Recorded(q, p) ==
    IF "history" \in q.form
    THEN history \cup {[person |-> p, income |-> q.income, at |-> q.at]}
    ELSE history

Track(q, p) ==
    tracked' = IF "history" \in q.form THEN tracked \cup {p} ELSE tracked \ {p}

\* The statement writes row p, or fails with a conflict and writes nothing.
Put(r, p) ==
    LET q == saves[r]
        l == NewLink(q, people[p].link) IN
    /\ IF LinkFree(p, q.fam, l)
       THEN /\ people' = [people EXCEPT ![p] =
                            [status |-> "live", fam |-> q.fam, income |-> q.income,
                             link |-> l, at |-> q.at]]
            /\ history' = Recorded(q, p)
            /\ Track(q, p)
       ELSE UNCHANGED <<people, history, tracked>>
    /\ EndSave(r)
    /\ UNCHANGED <<schema, clock>>

ApplyInsert(r) ==
    /\ saves[r].pc = "apply" /\ saves[r].id = None
    /\ \E p \in Profiles : people[p].status = "unborn" /\ Put(r, p)

ApplyUpdate(r) ==
    /\ saves[r].pc = "apply" /\ saves[r].id # None
    /\ Live(saves[r].id)
    /\ Put(r, saves[r].id)

\* A statement fails, the client goes away, or the row to update is gone.
SaveFails(r) ==
    /\ saves[r].pc # "idle"
    /\ EndSave(r)
    /\ UNCHANGED <<schema, clock, people, history, tracked>>

-----------------------------------------------------------------------------
\* DeletePersonProfile, one statement; the history goes with the profile.
DeletePersonProfile(p) ==
    /\ Live(p)
    /\ people' = [people EXCEPT ![p].status = "deleted"]
    /\ history' = {h \in history : h.person # p}
    /\ tracked' = tracked \ {p}
    /\ UNCHANGED <<schema, clock, saves>>

\* migrate up, in order, while the server runs.  The DDL takes a lock on
\* person_profiles that waits for the statements being executed.
Migrate(m) ==
    /\ m \in Migrations \ schema
    /\ m = "linked" => "history" \in schema
    /\ \A r \in Reqs : saves[r].pc # "apply"
    /\ schema' = schema \cup {m}
    /\ UNCHANGED <<clock, people, history, saves, tracked>>

Tick ==
    /\ clock < MaxTime
    /\ clock' = clock + 1
    /\ UNCHANGED <<schema, people, history, saves, tracked>>

PeopleNext ==
    \/ \E r \in Reqs :
        \/ StartCreate(r) \/ StartUpdate(r) \/ Issue(r)
        \/ ApplyInsert(r) \/ ApplyUpdate(r) \/ SaveFails(r)
    \/ \E p \in Profiles : DeletePersonProfile(p)
    \/ \E m \in Migrations : Migrate(m)
    \/ Tick

PeopleSpec == PeopleInit /\ [][PeopleNext]_peopleVars

-----------------------------------------------------------------------------
(* Properties.                                                             *)

\* people.go:51-60, 291-300.  The income a profile has, if its last write knew the
\* history table, is in the history, recorded at the profile's updated_at,
\* however updates, fallbacks and migrations interleave.
CurrentIncomeRecorded ==
    \A p \in tracked :
        /\ Live(p)
        /\ [person |-> p, income |-> people[p].income, at |-> people[p].at] \in history

\* people.go:51-101, 261-436.  What the database could hold when a save came in is
\* not lost on the way through the older forms, whatever is migrated between them:
\* with the complete schema a write stores the link it brings and records the
\* income, and an update that found the link's column stores the link although
\* the history is missing.
SavedInFull ==
    [][\A r \in Reqs, p \in Profiles :
         LET q == saves[r] IN
         q.pc = "apply" /\ saves'[r] = NoSave /\ people'[p] # people[p] =>
            /\ q.found = FullForm =>
                 [person |-> p, income |-> q.income, at |-> q.at] \in history'
            /\ "linked" \in q.found /\ (q.id = p \/ q.found = FullForm) /\ q.link # None =>
                 people'[p].link = q.link]_peopleVars

\* people.go:279.  An update with no, or with an unreadable, linked user keeps
\* the link the profile has: a link is replaced, never removed.
LinkNeverCleared ==
    [][\A p \in Profiles :
          people[p].link # None => people'[p].link # None]_peopleVars
=============================================================================
