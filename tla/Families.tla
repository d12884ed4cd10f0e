------------------------------ MODULE Families ------------------------------
(***************************************************************************)
(* Families, their members and invite codes (internal/server/family.go,    *)
(* internal/repository/postgres/families.go).  A family and its owner are  *)
(* inserted in one transaction; joining and generating a code are two      *)
(* statements each, on the pool, without one.                              *)
(*                                                                         *)
(* Names and types of families are left out, and so is the text of a code: *)
(* ten random characters, stored as a hash under a unique index.  No code  *)
(* sets revoked_at of an invite, so an invite is open until it expires.    *)
(***************************************************************************)
EXTENDS Households, Naturals, FiniteSets

CONSTANTS
    Codes,      \* code hashes a client may send
    NoFamily, NoUser

ASSUME FamiliesAssumption == NoFamily \notin Families /\ NoUser \notin Users

VARIABLES
    families,   \* ids in table families, committed
    members,    \* table family_members, committed: members[f][u]
    invites,    \* table family_invites
    reqs,       \* handlers
    presented   \* history: <<u, c>> when u presented code c while it was open

vars == <<families, members, invites, reqs, presented>>

Role == {"owner", "admin", "member", "viewer"}
Managers == {"owner", "admin"}

Invite == [status : {"unborn", "open", "expired"}, fam : Families \cup {NoFamily},
           by : Users \cup {NoUser}]
NoInvite == [status |-> "unborn", fam |-> NoFamily, by |-> NoUser]

\* What a handler holds between its statements.
Idle == [pc |-> "idle", user |-> NoUser, fam |-> NoFamily]
Handler == [pc : {"family", "owner", "commit", "join", "manager", "insert"},
            user : Users, fam : Families \cup {NoFamily}]

\* Families in an uncommitted INSERT.
InDoubt == {reqs[r].fam : r \in {q \in Reqs : reqs[q].pc \in {"owner", "commit"}}}

Init ==
    /\ families = {}
    /\ members = [f \in Families |-> [u \in Users |-> "none"]]
    /\ invites = [c \in Codes |-> NoInvite]
    /\ reqs = [r \in Reqs |-> Idle]
    /\ presented = {}

Start(r, step, u, f) ==
    /\ reqs[r].pc = "idle"
    /\ reqs' = [reqs EXCEPT ![r] = [pc |-> step, user |-> u, fam |-> f]]

Goto(r, step) == reqs' = [reqs EXCEPT ![r].pc = step]
Return(r) == reqs' = [reqs EXCEPT ![r] = Idle]

\* A statement fails or the client goes away; an open transaction is rolled
\* back by the deferred Rollback.
Fail(r) ==
    /\ reqs[r].pc # "idle"
    /\ Return(r)
    /\ UNCHANGED <<families, members, invites, presented>>

-----------------------------------------------------------------------------
(* CreateFamily: two INSERTs in a transaction.                             *)

BeginCreate(r) ==
    /\ \E u \in Users : Start(r, "family", u, NoFamily)
    /\ UNCHANGED <<families, members, invites, presented>>

InsertFamily(r) ==
    /\ reqs[r].pc = "family"
    /\ \E f \in Families \ (families \cup InDoubt) :
        reqs' = [reqs EXCEPT ![r] = [pc |-> "owner", user |-> @.user, fam |-> f]]
    /\ UNCHANGED <<families, members, invites, presented>>

\* Fault: the first INSERT runs on the pool and is visible at once.
InsertOwner_Separate(r) ==
    /\ reqs[r].pc = "owner"
    /\ families' = families \cup {reqs[r].fam}
    /\ Goto(r, "commit")
    /\ UNCHANGED <<members, invites, presented>>

InsertOwner(r) ==
    /\ reqs[r].pc = "owner"
    /\ Goto(r, "commit")
    /\ UNCHANGED <<families, members, invites, presented>>

\* Family and owner become visible together.
CommitFamily(r) ==
    LET q == reqs[r] IN
    /\ q.pc = "commit"
    /\ families' = families \cup {q.fam}
    /\ members' = [members EXCEPT ![q.fam][q.user] = "owner"]
    /\ Return(r)
    /\ UNCHANGED <<invites, presented>>

-----------------------------------------------------------------------------
(* JoinFamilyByCode.                                                       *)

\* SELECT the family of an unrevoked, unexpired invite.  Without one the
\* handler returns NotFound and nothing changes.
FindInvite(r) ==
    \E u \in Users, c \in Codes :
        /\ invites[c].status = "open"
        /\ Start(r, "join", u, invites[c].fam)
        /\ presented' = presented \cup {<<u, c>>}
        /\ UNCHANGED <<families, members, invites>>

\* Fault: ON CONFLICT DO UPDATE SET role, as in CreateFamily.
AddMember_Overwrites(r) ==
    LET q == reqs[r] IN
    /\ q.pc = "join"
    /\ members' = [members EXCEPT ![q.fam][q.user] = "member"]
    /\ Return(r)
    /\ UNCHANGED <<families, invites, presented>>

\* INSERT ... ON CONFLICT DO NOTHING.  The invite is not looked at again: it
\* may have expired since.
AddMember(r) ==
    LET q == reqs[r] IN
    /\ q.pc = "join"
    /\ members' = [members EXCEPT ![q.fam][q.user] =
                     IF @ = "none" THEN "member" ELSE @]
    /\ Return(r)
    /\ UNCHANGED <<families, invites, presented>>

-----------------------------------------------------------------------------
(* GenerateFamilyJoinCode.                                                 *)

BeginGenerate(r) ==
    /\ \E u \in Users, f \in families : Start(r, "manager", u, f)
    /\ UNCHANGED <<families, members, invites, presented>>

\* Fault: membership suffices.
IsManager_AnyMember(u, f) == members[f][u] # "none"

IsManager(u, f) == members[f][u] \in Managers

\* assertFamilyManager
CheckManager(r) ==
    LET q == reqs[r] IN
    /\ q.pc = "manager"
    /\ IF IsManager(q.user, q.fam) THEN Goto(r, "insert") ELSE Return(r)
    /\ UNCHANGED <<families, members, invites, presented>>

\* A random code that exists already violates the unique index on code_hash,
\* expired or not: Conflict, and the table stays as it is.
StoreInvite(c, u, f) ==
    IF invites[c].status = "unborn"
    THEN [invites EXCEPT ![c] = [status |-> "open", fam |-> f, by |-> u]]
    ELSE invites

InsertInvite(r) ==
    LET q == reqs[r] IN
    /\ q.pc = "insert"
    /\ \E c \in Codes : invites' = StoreInvite(c, q.user, q.fam)
    /\ Return(r)
    /\ UNCHANGED <<families, members, presented>>

\* now() passes expires_at.
Expire(c) ==
    /\ invites[c].status = "open"
    /\ invites' = [invites EXCEPT ![c].status = "expired"]
    /\ UNCHANGED <<families, members, reqs, presented>>

-----------------------------------------------------------------------------
Next ==
    \/ \E r \in Reqs :
        \/ BeginCreate(r) \/ InsertFamily(r) \/ InsertOwner(r) \/ CommitFamily(r)
        \/ FindInvite(r) \/ AddMember(r)
        \/ BeginGenerate(r) \/ CheckManager(r) \/ InsertInvite(r)
        \/ Fail(r)
    \/ \E c \in Codes : Expire(c)

Spec == Init /\ [][Next]_vars

-----------------------------------------------------------------------------
(* Properties.                                                             *)

\* Types of the tables and of the handlers' locals; past its first INSERT a
\* handler knows the family it is about.
TypeOK ==
    /\ families \subseteq Families
    /\ members \in [Families -> [Users -> Role \cup {"none"}]]
    /\ invites \in [Codes -> Invite]
    /\ reqs \in [Reqs -> Handler \cup {Idle}]
    /\ \A r \in Reqs : reqs[r].pc \notin {"idle", "family"} => reqs[r].fam \in Families
    /\ presented \subseteq Users \X Codes

\* families.go:22-60.  Every family anybody can see has an owner, also when
\* its creation is interrupted between the two INSERTs; without one nobody
\* could ever invite to it.
EveryFamilyHasOwner ==
    \A f \in families : \E u \in Users : members[f][u] = "owner"

\* families.go:125-130, 49-54.  Nothing changes or ends a membership: joining
\* one's own family does not turn an owner into a member.  Housing and
\* Checklist rely on it: a role that was checked still holds when it is used.
RolesKept ==
    [][\A f \in Families, u \in Users :
          members[f][u] # "none" => members'[f][u] = members[f][u]]_vars

\* families.go:104-151.  Whoever is in a family created it or presented an open
\* code of that very family, issued by one of its owners or administrators.
MembersInvited ==
    \A f \in Families, u \in Users : members[f][u] \notin {"none", "owner"} =>
        \E c \in Codes : /\ <<u, c>> \in presented
                         /\ invites[c].fam = f
                         /\ members[f][invites[c].by] \in Managers
=============================================================================
