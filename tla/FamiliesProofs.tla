--------------------------- MODULE FamiliesProofs ---------------------------
(***************************************************************************)
(* Proofs about Families, for any number of users, families, codes and     *)
(* handlers.  The inductive invariant says what a handler knows between    *)
(* its statements: a family being created is nobody else's and has no      *)
(* members, a family being joined or invited to exists, a checked manager  *)
(* is one still, and a presented code is one a manager of its family       *)
(* issued.                                                                 *)
(*                                                                         *)
(* The last part is about People, whose rows belong to the families.       *)
(***************************************************************************)
EXTENDS Families, People, TLAPS

Creating(r) == reqs[r].pc \in {"owner", "commit"}

\* A family that is not committed yet belongs to the handler creating it.
CreatedAlone ==
    \A r \in Reqs : Creating(r) =>
        /\ reqs[r].fam \notin families
        /\ \A q \in Reqs : Creating(q) /\ reqs[q].fam = reqs[r].fam => q = r

NoEarlyMembers ==
    \A f \in Families \ families : \A u \in Users : members[f][u] = "none"

InvitesByManagers ==
    \A c \in Codes : invites[c].status # "unborn" =>
        /\ invites[c].fam \in families
        /\ invites[c].by \in Users
        /\ members[invites[c].fam][invites[c].by] \in Managers

PresentedExist ==
    \A u \in Users, c \in Codes : <<u, c>> \in presented => invites[c].status # "unborn"

\* User u presented an open code of family f.
Brought(u, f) == \E c \in Codes : <<u, c>> \in presented /\ invites[c].fam = f

JoinersBrought ==
    \A f \in Families, u \in Users :
        members[f][u] \notin {"none", "owner"} => Brought(u, f)

HandlersKnow ==
    \A r \in Reqs :
        /\ reqs[r].pc \in {"join", "manager", "insert"} => reqs[r].fam \in families
        /\ reqs[r].pc = "insert" => members[reqs[r].fam][reqs[r].user] \in Managers
        /\ reqs[r].pc = "join" => Brought(reqs[r].user, reqs[r].fam)

IInv ==
    /\ TypeOK
    /\ CreatedAlone
    /\ NoEarlyMembers
    /\ InvitesByManagers
    /\ PresentedExist
    /\ HandlersKnow
    /\ EveryFamilyHasOwner
    /\ JoinersBrought

Kept == \A f \in Families, u \in Users :
            members[f][u] # "none" => members'[f][u] = members[f][u]

-----------------------------------------------------------------------------
\* An empty database satisfies the invariant.
LEMMA InitIInv == Init => IInv
<1> SUFFICES ASSUME Init PROVE IInv
  OBVIOUS
<1>1. TypeOK
  BY DEF Init, TypeOK, Role, Invite, NoInvite, Handler, Idle
<1>2. CreatedAlone /\ HandlersKnow
  BY DEF Init, CreatedAlone, Creating, HandlersKnow, Idle
<1>3. NoEarlyMembers /\ InvitesByManagers /\ PresentedExist
  BY DEF Init, NoEarlyMembers, InvitesByManagers, NoInvite, PresentedExist
<1>4. EveryFamilyHasOwner /\ JoinersBrought
  BY DEF Init, EveryFamilyHasOwner, JoinersBrought
<1> QED BY <1>1, <1>2, <1>3, <1>4 DEF IInv

\* The types are kept by every step.
LEMMA StepTypes == ASSUME TypeOK, InvitesByManagers, Next PROVE TypeOK'
<1> USE FamiliesAssumption DEF TypeOK, Handler, Idle
<1>1. ASSUME NEW r \in Reqs, BeginCreate(r) PROVE TypeOK'
  BY <1>1 DEF BeginCreate, Start
<1>2. ASSUME NEW r \in Reqs, InsertFamily(r) PROVE TypeOK'
  BY <1>2 DEF InsertFamily
<1>3. ASSUME NEW r \in Reqs, InsertOwner(r) PROVE TypeOK'
  BY <1>3 DEF InsertOwner, Goto
<1>4. ASSUME NEW r \in Reqs, CommitFamily(r) PROVE TypeOK'
  BY <1>4 DEF CommitFamily, Return, Role
<1>5. ASSUME NEW r \in Reqs, FindInvite(r) PROVE TypeOK'
  BY <1>5 DEF FindInvite, Start, Invite, InvitesByManagers
<1>6. ASSUME NEW r \in Reqs, AddMember(r) PROVE TypeOK'
  BY <1>6 DEF AddMember, Return, Role
<1>7. ASSUME NEW r \in Reqs, BeginGenerate(r) PROVE TypeOK'
  BY <1>7 DEF BeginGenerate, Start
<1>8. ASSUME NEW r \in Reqs, CheckManager(r) PROVE TypeOK'
  BY <1>8 DEF CheckManager, Goto, Return
<1>9. ASSUME NEW r \in Reqs, InsertInvite(r) PROVE TypeOK'
  BY <1>9 DEF InsertInvite, StoreInvite, Return, Invite
<1>10. ASSUME NEW r \in Reqs, Fail(r) PROVE TypeOK'
  BY <1>10 DEF Fail, Return
<1>11. ASSUME NEW c \in Codes, Expire(c) PROVE TypeOK'
  BY <1>11 DEF Expire, Invite
<1> QED BY <1>1, <1>2, <1>3, <1>4, <1>5, <1>6, <1>7, <1>8, <1>9, <1>10, <1>11 DEF Next

\* What the invariant says of the tables, apart from the handlers.
Tables ==
    /\ NoEarlyMembers
    /\ InvitesByManagers
    /\ PresentedExist
    /\ EveryFamilyHasOwner
    /\ JoinersBrought

\* A step that leaves the tables alone keeps what is said of them.
LEMMA TablesUnchanged ==
  ASSUME Tables, UNCHANGED <<families, members, invites, presented>>
  PROVE  Tables' /\ Kept
  BY DEF Tables, NoEarlyMembers, InvitesByManagers, PresentedExist,
         EveryFamilyHasOwner, JoinersBrought, Brought, Kept

\* Open codes stay presented, and codes stay with their family.
LEMMA BroughtKept ==
  ASSUME presented \subseteq presented',
         \A u \in Users, c \in Codes : <<u, c>> \in presented => invites'[c].fam = invites[c].fam,
         NEW u \in Users, NEW f, Brought(u, f)
  PROVE  Brought(u, f)'
  BY DEF Brought

\* Steps of a handler that touch no table.
LEMMA HandlerSteps ==
  ASSUME IInv, NEW r \in Reqs,
         \/ BeginCreate(r) \/ InsertFamily(r) \/ InsertOwner(r)
         \/ BeginGenerate(r) \/ CheckManager(r) \/ Fail(r)
  PROVE  CreatedAlone' /\ HandlersKnow' /\ Tables' /\ Kept
<1> USE DEF IInv, TypeOK
<1>1. /\ UNCHANGED <<families, members, invites, presented>>
      /\ \A u \in Users, f \in Families : Brought(u, f)' <=> Brought(u, f)
  BY DEF Brought, BeginCreate, InsertFamily, InsertOwner, BeginGenerate, CheckManager, Fail
<1>2. Tables' /\ Kept
  BY <1>1, TablesUnchanged DEF Tables
<1>3. ASSUME NEW n, reqs' = [reqs EXCEPT ![r] = n],
             n.pc \in {"owner", "commit"} =>
                /\ n.fam \notin families
                /\ \A q \in Reqs : Creating(q) /\ reqs[q].fam = n.fam => q = r,
             n.pc \in {"join", "manager", "insert"} => n.fam \in families,
             n.pc = "insert" => members[n.fam][n.user] \in Managers,
             n.pc # "join"
      PROVE  CreatedAlone' /\ HandlersKnow'
  <2>1. \A q \in Reqs : reqs'[q] = IF q = r THEN n ELSE reqs[q]
    BY <1>3
  <2>2. \A q \in Reqs : reqs[q].pc = "join" =>
                          reqs[q].user \in Users /\ reqs[q].fam \in Families
    BY DEF Handler, Idle
  <2>3. CreatedAlone'
    BY <1>1, <1>3, <2>1 DEF CreatedAlone, Creating
  <2>4. HandlersKnow'
    BY <1>1, <1>3, <2>1, <2>2 DEF HandlersKnow
  <2> QED BY <2>3, <2>4
<1>4. CASE BeginCreate(r)
  BY <1>2, <1>3, <1>4 DEF BeginCreate, Start
<1>5. CASE InsertFamily(r)
  <2> PICK f \in Families \ (families \cup InDoubt) :
        reqs' = [reqs EXCEPT ![r] = [pc |-> "owner", user |-> @.user, fam |-> f]]
    BY <1>5 DEF InsertFamily
  <2> DEFINE n == [pc |-> "owner", user |-> reqs[r].user, fam |-> f]
  <2>1. \A q \in Reqs : Creating(q) => reqs[q].fam # f
    BY DEF InDoubt, Creating
  <2>2. reqs' = [reqs EXCEPT ![r] = n]
    OBVIOUS
  <2>3. n.pc = "owner" /\ n.fam = f
    OBVIOUS
  <2> QED BY <1>2, <1>3, <2>1, <2>2, <2>3
<1>6. CASE InsertOwner(r)
  <2> DEFINE n == [reqs[r] EXCEPT !.pc = "commit"]
  <2>1. n.pc = "commit" /\ n.fam = reqs[r].fam /\ reqs' = [reqs EXCEPT ![r] = n]
    BY <1>6 DEF InsertOwner, Goto, Handler, Idle
  <2>2. Creating(r)
    BY <1>6 DEF InsertOwner, Creating
  <2> QED BY <1>2, <1>3, <2>1, <2>2 DEF CreatedAlone
<1>7. CASE BeginGenerate(r)
  <2> PICK u \in Users, f \in families : Start(r, "manager", u, f)
    BY <1>7 DEF BeginGenerate
  <2> DEFINE n == [pc |-> "manager", user |-> u, fam |-> f]
  <2>1. n.pc = "manager" /\ n.fam = f /\ reqs' = [reqs EXCEPT ![r] = n]
    BY DEF Start
  <2> HIDE DEF n
  <2> QED BY <1>2, <1>3, <2>1
<1>8. CASE CheckManager(r)
  <2> DEFINE n == [reqs[r] EXCEPT !.pc = "insert"]
  <2>1. CASE IsManager(reqs[r].user, reqs[r].fam)
    <3>1. /\ n.pc = "insert" /\ n.fam = reqs[r].fam /\ n.user = reqs[r].user
          /\ reqs' = [reqs EXCEPT ![r] = n]
      BY <1>8, <2>1 DEF CheckManager, Goto, Handler, Idle
    <3>2. n.fam \in families
      BY <1>8, <3>1 DEF CheckManager, HandlersKnow
    <3> QED BY <1>2, <1>3, <2>1, <3>1, <3>2 DEF IsManager
  <2>2. CASE ~IsManager(reqs[r].user, reqs[r].fam)
    BY <1>2, <1>3, <1>8, <2>2 DEF CheckManager, Return, Idle
  <2> QED BY <2>1, <2>2
<1>9. CASE Fail(r)
  BY <1>2, <1>3, <1>9 DEF Fail, Return, Idle
<1> QED BY <1>4, <1>5, <1>6, <1>7, <1>8, <1>9

\* The family appears together with its owner, and had no member before.
LEMMA CommitStep ==
  ASSUME IInv, NEW r \in Reqs, CommitFamily(r)
  PROVE  CreatedAlone' /\ HandlersKnow' /\ Tables' /\ Kept
<1> DEFINE f == reqs[r].fam
           u == reqs[r].user
<1> USE DEF IInv, TypeOK
<1>1. /\ f \in Families /\ u \in Users /\ f \notin families
      /\ families' = families \cup {f}
      /\ members' = [members EXCEPT ![f][u] = "owner"]
      /\ reqs' = [reqs EXCEPT ![r] = Idle]
      /\ UNCHANGED <<invites, presented>>
      /\ \A v \in Users, g \in Families : Brought(v, g)' <=> Brought(v, g)
  BY DEF Brought, CommitFamily, Return, Handler, Idle, CreatedAlone, Creating
<1>2. \A g \in Families, v \in Users :
        /\ members'[g][v] = IF g = f /\ v = u THEN "owner" ELSE members[g][v]
        /\ g = f => members[g][v] = "none"
  BY <1>1 DEF NoEarlyMembers
<1> HIDE DEF f, u
<1>3. Kept
  BY <1>2 DEF Kept
<1>4. CreatedAlone'
  <2>1. Creating(r)
    BY DEF CommitFamily, Creating
  <2>2. \A q \in Reqs : q # r /\ Creating(q) => reqs[q].fam # f
    BY <2>1 DEF CreatedAlone, f
  <2>3. \A q \in Reqs : /\ q # r => reqs'[q] = reqs[q]
                        /\ q = r => reqs'[q].pc = "idle"
    BY <1>1 DEF Idle
  <2> QED BY <1>1, <2>2, <2>3 DEF CreatedAlone, Creating
<1>5. HandlersKnow'
  BY <1>1, <1>2 DEF HandlersKnow, Idle, Handler
<1>6. NoEarlyMembers' /\ EveryFamilyHasOwner'
  BY <1>1, <1>2 DEF NoEarlyMembers, EveryFamilyHasOwner
<1>7. InvitesByManagers' /\ PresentedExist'
  BY <1>1, <1>2 DEF InvitesByManagers, PresentedExist, Managers
<1>8. JoinersBrought'
  BY <1>1, <1>2 DEF JoinersBrought
<1> QED BY <1>3, <1>4, <1>5, <1>6, <1>7, <1>8 DEF Tables

\* The code found belongs to an existing family and was issued by a manager.
LEMMA FindStep ==
  ASSUME IInv, NEW r \in Reqs, FindInvite(r)
  PROVE  CreatedAlone' /\ HandlersKnow' /\ Tables' /\ Kept
<1> USE DEF IInv, TypeOK
<1> PICK u \in Users, c \in Codes :
      /\ invites[c].status = "open"
      /\ Start(r, "join", u, invites[c].fam)
      /\ presented' = presented \cup {<<u, c>>}
      /\ UNCHANGED <<families, members, invites>>
  BY DEF FindInvite
<1>1. reqs' = [reqs EXCEPT ![r] = [pc |-> "join", user |-> u, fam |-> invites[c].fam]]
  BY DEF Start
<1>2. invites[c].fam \in families
  BY DEF InvitesByManagers
<1>b. /\ \A v \in Users, g \in Families : Brought(v, g) => Brought(v, g)'
      /\ Brought(u, invites[c].fam)'
  BY DEF Brought
<1>3. CreatedAlone' /\ HandlersKnow'
  BY <1>1, <1>2, <1>b DEF CreatedAlone, Creating, HandlersKnow, Handler, Idle
<1>4. NoEarlyMembers' /\ InvitesByManagers' /\ EveryFamilyHasOwner' /\ Kept
  BY DEF NoEarlyMembers, InvitesByManagers, EveryFamilyHasOwner, Kept
<1>5. PresentedExist'
  BY DEF PresentedExist
<1>6. JoinersBrought'
  BY <1>b DEF JoinersBrought
<1> QED BY <1>3, <1>4, <1>5, <1>6 DEF Tables

\* Joining gives a role only to whoever has none.
LEMMA JoinStep ==
  ASSUME IInv, NEW r \in Reqs, AddMember(r)
  PROVE  CreatedAlone' /\ HandlersKnow' /\ Tables' /\ Kept
<1> DEFINE f == reqs[r].fam
           u == reqs[r].user
<1> USE DEF IInv, TypeOK
<1>1. /\ f \in families /\ f \in Families /\ u \in Users
      /\ members' = [members EXCEPT ![f][u] = IF @ = "none" THEN "member" ELSE @]
      /\ reqs' = [reqs EXCEPT ![r] = Idle]
      /\ UNCHANGED <<families, invites, presented>>
      /\ \A v \in Users, g \in Families : Brought(v, g)' <=> Brought(v, g)
  BY DEF Brought, AddMember, Return, Handler, Idle, HandlersKnow
<1>i. Brought(u, f)
  BY DEF HandlersKnow, AddMember
<1> HIDE DEF f, u
<1>2. \A g \in Families, v \in Users :
        members'[g][v] = IF g = f /\ v = u /\ members[g][v] = "none"
                         THEN "member" ELSE members[g][v]
  BY <1>1
<1>3. Kept
  BY <1>2 DEF Kept
<1>4. CreatedAlone'
  BY <1>1 DEF CreatedAlone, Creating, Idle
<1>5. HandlersKnow'
  BY <1>1, <1>2 DEF HandlersKnow, Idle, Handler, Managers
<1>6. NoEarlyMembers' /\ EveryFamilyHasOwner'
  BY <1>1, <1>2 DEF NoEarlyMembers, EveryFamilyHasOwner
<1>7. InvitesByManagers' /\ PresentedExist'
  BY <1>1, <1>2 DEF InvitesByManagers, PresentedExist, Managers
<1>8. JoinersBrought'
  BY <1>1, <1>2, <1>i DEF JoinersBrought
<1> QED BY <1>3, <1>4, <1>5, <1>6, <1>7, <1>8 DEF Tables

\* A new code carries a family and one of its managers; old codes stay.
LEMMA InviteStep ==
  ASSUME IInv, NEW r \in Reqs, InsertInvite(r)
  PROVE  CreatedAlone' /\ HandlersKnow' /\ Tables' /\ Kept
<1> DEFINE f == reqs[r].fam
           u == reqs[r].user
<1> USE DEF IInv, TypeOK
<1> PICK c \in Codes : invites' = StoreInvite(c, u, f)
  BY DEF InsertInvite
<1>1. /\ f \in families /\ u \in Users /\ members[f][u] \in Managers
      /\ reqs' = [reqs EXCEPT ![r] = Idle]
      /\ UNCHANGED <<families, members, presented>>
  BY DEF InsertInvite, Return, Handler, Idle, HandlersKnow
<1> HIDE DEF f, u
<1>2. \A d \in Codes :
        /\ invites[d].status # "unborn" => invites'[d] = invites[d]
        /\ \/ invites'[d] = invites[d]
           \/ invites'[d] = [status |-> "open", fam |-> f, by |-> u]
  BY DEF StoreInvite
<1>3. CreatedAlone'
  BY <1>1 DEF CreatedAlone, Creating, Idle
<1>4. \A v \in Users, d \in Codes : <<v, d>> \in presented => invites'[d] = invites[d]
  BY <1>2 DEF PresentedExist
<1>5. \A v \in Users, g \in Families : Brought(v, g) => Brought(v, g)'
  BY <1>1, <1>4, BroughtKept
<1>6. HandlersKnow'
  BY <1>1, <1>5 DEF HandlersKnow, Idle, Handler
<1>7. InvitesByManagers'
  BY <1>1, <1>2 DEF InvitesByManagers
<1>8. PresentedExist'
  BY <1>1, <1>4 DEF PresentedExist
<1>9. JoinersBrought'
  BY <1>1, <1>5 DEF JoinersBrought
<1>10. NoEarlyMembers' /\ EveryFamilyHasOwner' /\ Kept
  BY <1>1 DEF NoEarlyMembers, EveryFamilyHasOwner, Kept
<1> QED BY <1>3, <1>6, <1>7, <1>8, <1>9, <1>10 DEF Tables

\* Expiry changes the status of a code and nothing else.
LEMMA ExpireStep ==
  ASSUME IInv, NEW c \in Codes, Expire(c)
  PROVE  CreatedAlone' /\ HandlersKnow' /\ Tables' /\ Kept
<1> USE DEF IInv, TypeOK
<1>1. /\ UNCHANGED <<families, members, reqs, presented>>
      /\ \A d \in Codes : /\ invites'[d].fam = invites[d].fam
                          /\ invites'[d].by = invites[d].by
                          /\ invites'[d].status = "unborn" <=> invites[d].status = "unborn"
  BY DEF Expire, Invite
<1>b. \A v \in Users, g \in Families : Brought(v, g) => Brought(v, g)'
  BY <1>1, BroughtKept
<1>2. CreatedAlone' /\ HandlersKnow'
  BY <1>1, <1>b DEF CreatedAlone, Creating, HandlersKnow, Handler, Idle
<1>3. NoEarlyMembers' /\ EveryFamilyHasOwner' /\ Kept
  BY <1>1 DEF NoEarlyMembers, EveryFamilyHasOwner, Kept
<1>4. InvitesByManagers' /\ JoinersBrought'
  BY <1>1, <1>b DEF InvitesByManagers, JoinersBrought
<1>5. PresentedExist'
  BY <1>1 DEF PresentedExist
<1> QED BY <1>2, <1>3, <1>4, <1>5 DEF Tables

\* Every step keeps the invariant and every role.
LEMMA StepInv == IInv /\ [Next]_vars => IInv' /\ [Kept]_vars
<1> SUFFICES ASSUME IInv, [Next]_vars PROVE IInv' /\ [Kept]_vars
  OBVIOUS
<1>1. CASE Next
  <2>1. TypeOK'
    BY <1>1, StepTypes DEF IInv
  <2>2. CreatedAlone' /\ HandlersKnow' /\ Tables' /\ Kept
    BY <1>1, HandlerSteps, CommitStep, FindStep, JoinStep, InviteStep, ExpireStep DEF Next
  <2> QED BY <2>1, <2>2 DEF IInv, Tables
<1>2. CASE UNCHANGED vars
  <2>1. TypeOK'
    BY <1>2 DEF vars, IInv, TypeOK
  <2>2. Tables' /\ Kept
    BY <1>2, TablesUnchanged DEF vars, IInv, Tables
  <2>3. CreatedAlone' /\ HandlersKnow'
    BY <1>2 DEF vars, IInv, CreatedAlone, Creating, HandlersKnow, Brought
  <2> QED BY <1>2, <2>1, <2>2, <2>3 DEF IInv, Tables
<1> QED BY <1>1, <1>2

\* families.go, for any number of users, families, codes and handlers: what a
\* handler found out in one statement still holds in the next.
THEOREM FamiliesInvariant == Spec => []IInv
<1>1. Init => IInv
  BY InitIInv
<1>2. IInv /\ [Next]_vars => IInv'
  BY StepInv
<1> QED BY <1>1, <1>2, PTL DEF Spec

\* families.go:22-60: a visible family always has an owner.
THEOREM FamiliesHaveOwners == Spec => []EveryFamilyHasOwner
<1>1. IInv => EveryFamilyHasOwner
  BY DEF IInv
<1> QED BY <1>1, FamiliesInvariant, PTL

\* families.go:104-151: nobody is in a family without having created it or
\* having presented a code issued by one of its managers.
THEOREM OnlyInvitedMembers == Spec => []MembersInvited
<1>1. IInv => MembersInvited
  BY DEF IInv, MembersInvited, JoinersBrought, Brought, PresentedExist, InvitesByManagers
<1> QED BY <1>1, FamiliesInvariant, PTL

\* families.go:49-54, 125-130: no step changes or ends a membership.
THEOREM RolesNeverChange == Spec => RolesKept
<1>1. IInv /\ [Next]_vars =>
        [\A f \in Families, u \in Users :
            members[f][u] # "none" => members'[f][u] = members[f][u]]_vars
  BY StepInv DEF Kept
<1> QED BY <1>1, FamiliesInvariant, PTL DEF Spec, RolesKept

-----------------------------------------------------------------------------
(***************************************************************************)
(* The people of the families (module People), for any number of profiles, *)
(* users and handlers, any clock and any order of migrations.  The         *)
(* invariant adds to the properties the types of the tables and what a     *)
(* handler carries from one form of its statement to the next: the schema  *)
(* only grows, so what a save found is still there at each of its forms,   *)
(* and a form is given up only for something that save did not find.       *)
(***************************************************************************)

Profile == [status : {"unborn", "live", "deleted"}, fam : Families, income : Incomes,
            link : Users \cup {None}, at : Nat]
Request == [pc : {"try", "apply"}, id : Profiles \cup {None}, fam : Families,
            income : Incomes, link : Users \cup {None}, form : SUBSET Migrations,
            found : SUBSET Migrations, at : Nat]

PeopleTypes ==
    /\ schema \subseteq Migrations /\ clock \in Nat
    /\ people \in [Profiles -> Profile]
    /\ history \subseteq [person : Profiles, income : Incomes, at : Nat]
    /\ saves \in [Reqs -> {NoSave} \cup Request]
    /\ tracked \subseteq Profiles

\* The form a save has come to uses what it found.
UsesFound(q) ==
    /\ q.found = FullForm => q.form = FullForm
    /\ q.id # None /\ "linked" \in q.found => "linked" \in q.form

FormsKept ==
    \A r \in Reqs : saves[r] # NoSave => saves[r].found \subseteq schema /\ UsesFound(saves[r])

PeopleInv == PeopleTypes /\ CurrentIncomeRecorded /\ FormsKept

-----------------------------------------------------------------------------

\* There are no profiles at first.
LEMMA PeopleInitially ==
    ASSUME PeopleInit
    PROVE  PeopleInv
<1>1. (CHOOSE f \in Families : TRUE) \in Families /\ (CHOOSE i \in Incomes : TRUE) \in Incomes
    BY PeopleAssumption
<1>2. NoProfile \in Profile /\ NoProfile.status = "unborn"
    BY <1>1 DEF NoProfile, Profile
<1>3. PeopleTypes
    BY <1>2 DEF PeopleInit, PeopleTypes, Migrations
<1>4. QED
    BY <1>2, <1>3 DEF PeopleInit, PeopleInv, CurrentIncomeRecorded, FormsKept, Live

\* A handler moves on and the tables stay as they are.
LEMMA QuietKeeps ==
    ASSUME PeopleInv, NEW r \in Reqs, NEW q \in {NoSave} \cup Request,
           q # NoSave => q.found \subseteq schema /\ UsesFound(q),
           saves' = [saves EXCEPT ![r] = q],
           UNCHANGED <<schema, clock, people, history, tracked>>
    PROVE  PeopleInv'
<1>1. PeopleTypes' /\ CurrentIncomeRecorded'
    BY DEF PeopleInv, PeopleTypes, CurrentIncomeRecorded, Live
<1>2. \A x \in Reqs : saves'[x] = IF x = r THEN q ELSE saves[x]
    BY DEF PeopleInv, PeopleTypes
<1>3. FormsKept'
    BY <1>2 DEF PeopleInv, FormsKept, UsesFound
<1>4. QED BY <1>1, <1>3 DEF PeopleInv

\* A save that starts has its input from the request.
LEMMA StartKeeps ==
    ASSUME PeopleInv, NEW r \in Reqs, StartCreate(r) \/ StartUpdate(r)
    PROVE  PeopleInv'
<1>1. ASSUME NEW id \in Profiles \cup {None}, NEW f \in Families, NEW i \in Incomes, NEW l,
             StartSave(r, id, f, i, l)
      PROVE  PeopleInv'
  <2> DEFINE q == [pc |-> "try", id |-> id, fam |-> f, income |-> i,
                   link |-> NormalizedLink(l), form |-> FullForm, found |-> schema, at |-> 0]
  <2>1. q \in Request
      BY DEF Request, NormalizedLink, FullForm, Migrations, PeopleInv, PeopleTypes
  <2>4. q.found \subseteq schema /\ UsesFound(q)
      BY DEF UsesFound, FullForm
  <2>2. saves' = [saves EXCEPT ![r] = q] /\ UNCHANGED <<schema, clock, people, history, tracked>>
      BY <1>1 DEF StartSave
  <2>3. QED BY <2>1, <2>2, <2>4, QuietKeeps
<1>2. CASE StartCreate(r)
    BY <1>1, <1>2 DEF StartCreate
<1>3. CASE StartUpdate(r)
  <2>1. PICK p \in Profiles, i \in Incomes, l \in Users \cup {Garbage, None} :
          StartSave(r, p, people[p].fam, i, l)
      BY <1>3 DEF StartUpdate
  <2>2. people[p].fam \in Families
      BY DEF PeopleInv, PeopleTypes, Profile
  <2>3. QED BY <1>1, <2>1, <2>2
<1>4. QED BY <1>2, <1>3

\* The handler has its statement planned, or goes on to the next form of it.
LEMMA IssueKeeps ==
    ASSUME PeopleInv, NEW r \in Reqs, Issue(r)
    PROVE  PeopleInv'
<1> DEFINE q == saves[r]
<1>1. q \in Request /\ q # NoSave /\ q.found \subseteq schema /\ UsesFound(q)
  <2>1. q # NoSave
      BY DEF Issue, NoSave
  <2>2. QED BY <2>1 DEF PeopleInv, PeopleTypes, FormsKept
<1>2. UNCHANGED <<schema, clock, people, history, tracked>>
    BY DEF Issue
<1>3. CASE saves' = [saves EXCEPT ![r].pc = "apply", ![r].at = clock]
  <2> DEFINE n == [q EXCEPT !.pc = "apply", !.at = clock]
  <2>1. n \in Request
      BY <1>1 DEF PeopleInv, PeopleTypes, Request
  <2>2. saves' = [saves EXCEPT ![r] = n]
      BY <1>3 DEF PeopleInv, PeopleTypes
  <2>4. n.found = q.found /\ n.form = q.form /\ n.id = q.id
      BY <1>1 DEF Request
  <2>5. n.found \subseteq schema /\ UsesFound(n)
      BY <1>1, <2>4 DEF UsesFound
  <2> HIDE DEF n
  <2>3. QED BY <1>2, <2>1, <2>2, <2>5, QuietKeeps
<1>4. ASSUME ~(q.form \subseteq schema), NEW f \in Retries(q.id, q.form), saves' = [saves EXCEPT ![r].form = f]
      PROVE  PeopleInv'
  <2> DEFINE n == [q EXCEPT !.form = f]
  <2>1. f \in SUBSET Migrations
      BY <1>4 DEF Retries, Migrations
  <2>2. n \in Request
      BY <1>1, <2>1 DEF Request
  <2>3. saves' = [saves EXCEPT ![r] = n]
      BY <1>4
  <2>5. n.found = q.found /\ n.form = f /\ n.id = q.id
      BY <1>1 DEF Request
  <2>6. q.found # FullForm
      BY <1>1, <1>4 DEF Request, FullForm, Migrations
  <2>7. ASSUME q.id # None, "linked" \in q.found PROVE "linked" \in f
    <3>1. "linked" \in schema /\ "linked" \in q.form
        BY <1>1, <2>7 DEF UsesFound
    <3>2. q.form = FullForm
        BY <1>1, <1>4, <3>1 DEF Request, FullForm, Migrations
    <3>3. Missing(q.form) = "history"
        BY <3>1 DEF Missing
    <3>4. f = {"linked"}
        BY <1>4, <2>7, <3>2, <3>3 DEF Retries
    <3>5. QED BY <3>4
  <2>8. n.found \subseteq schema /\ UsesFound(n)
      BY <1>1, <2>5, <2>6, <2>7 DEF UsesFound
  <2> HIDE DEF n
  <2>4. QED BY <1>2, <2>2, <2>3, <2>8, QuietKeeps
<1>5. QED
    BY <1>3, <1>4 DEF Issue

\* The link of a row is a user or none, and never none if there was one.
LEMMA NewLinkKeeps ==
    ASSUME NEW q \in Request, NEW old \in Users \cup {None}
    PROVE  /\ NewLink(q, old) \in Users \cup {None}
           /\ old # None => NewLink(q, old) # None
BY DEF NewLink, Request

\* The one statement that writes profiles: the row it writes is recorded if its
\* form records.
LEMMA PutKeeps ==
    ASSUME PeopleInv, NEW r \in Reqs, saves[r].pc = "apply", NEW p \in Profiles, Put(r, p)
    PROVE  PeopleInv'
<1> DEFINE q == saves[r]
           l == NewLink(q, people[p].link)
           row == [status |-> "live", fam |-> q.fam, income |-> q.income, link |-> l, at |-> q.at]
<1>1. q \in Request
    BY DEF PeopleInv, PeopleTypes, NoSave
<1>2. CASE ~LinkFree(p, q.fam, l)
    BY <1>2, QuietKeeps DEF Put, EndSave
<1>3. CASE LinkFree(p, q.fam, l)
  <2>1. /\ people' = [people EXCEPT ![p] = row]
        /\ history' = Recorded(q, p) /\ Track(q, p)
        /\ saves' = [saves EXCEPT ![r] = NoSave] /\ schema' = schema /\ clock' = clock
      BY <1>3 DEF Put, EndSave
  <2>2. people[p].link \in Users \cup {None}
      BY DEF PeopleInv, PeopleTypes, Profile
  <2>3. l \in Users \cup {None}
      BY <1>1, <2>2, NewLinkKeeps
  <2>4. row \in Profile
      BY <1>1, <2>3 DEF Profile, Request
  <2>5. [person |-> p, income |-> q.income, at |-> q.at] \in [person : Profiles, income : Incomes, at : Nat]
      BY <1>1 DEF Request
  <2>6. row.status = "live" /\ row.fam = q.fam /\ row.link = l
        /\ row.income = q.income /\ row.at = q.at
      OBVIOUS
  <2>7. \A o \in Profiles : people'[o] = IF o = p THEN row ELSE people[o]
      BY <2>1 DEF PeopleInv, PeopleTypes
  <2> HIDE DEF q, l, row
  <2>8. PeopleTypes'
      BY <2>1, <2>4, <2>5 DEF PeopleInv, PeopleTypes, Recorded, Track
  <2>9. CurrentIncomeRecorded'
    <3> SUFFICES ASSUME NEW o \in tracked'
                 PROVE  /\ people'[o].status = "live"
                        /\ [person |-> o, income |-> people'[o].income, at |-> people'[o].at] \in history'
        BY DEF CurrentIncomeRecorded, Live
    <3>1. CASE o = p
        BY <2>1, <2>6, <2>7, <3>1 DEF Track, Recorded
    <3>2. CASE o # p
      <4>1. o \in tracked /\ o \in Profiles
          BY <2>1, <3>2 DEF Track, PeopleInv, PeopleTypes
      <4>2. people'[o] = people[o] /\ history \subseteq history'
          BY <2>1, <2>7, <3>2, <4>1 DEF Recorded
      <4>3. QED BY <4>1, <4>2 DEF PeopleInv, CurrentIncomeRecorded, Live
    <3>3. QED BY <3>1, <3>2
  <2>10. FormsKept'
      BY <2>1 DEF FormsKept, PeopleInv, PeopleTypes, UsesFound
  <2>11. QED BY <2>8, <2>9, <2>10 DEF PeopleInv
<1>4. QED BY <1>2, <1>3

\* Deleting a profile keeps its incomes and its link.
LEMMA DeleteKeeps ==
    ASSUME PeopleInv, NEW p \in Profiles, DeletePersonProfile(p)
    PROVE  PeopleInv'
<1> DEFINE row == [people[p] EXCEPT !.status = "deleted"]
<1>1. row \in Profile /\ row.status = "deleted"
    BY DEF PeopleInv, PeopleTypes, Profile
<1>2. people' = [people EXCEPT ![p] = row]
    BY DEF DeletePersonProfile
<1>3. \A o \in Profiles : people'[o] = IF o = p THEN row ELSE people[o]
    BY <1>2 DEF PeopleInv, PeopleTypes
<1> HIDE DEF row
<1>4. PeopleTypes'
    BY <1>1, <1>2 DEF PeopleInv, PeopleTypes, DeletePersonProfile
<1>5. CurrentIncomeRecorded'
  <2> SUFFICES ASSUME NEW o \in tracked'
               PROVE  /\ people'[o].status = "live"
                      /\ [person |-> o, income |-> people'[o].income, at |-> people'[o].at] \in history'
      BY DEF CurrentIncomeRecorded, Live
  <2>1. o \in tracked /\ o # p /\ o \in Profiles
      BY DEF DeletePersonProfile, PeopleInv, PeopleTypes
  <2>2. people'[o] = people[o]
      BY <1>3, <2>1
  <2>3. QED BY <2>1, <2>2 DEF DeletePersonProfile, PeopleInv, CurrentIncomeRecorded, Live
<1>6. FormsKept'
    BY DEF DeletePersonProfile, FormsKept, UsesFound, PeopleInv
<1>7. QED BY <1>4, <1>5, <1>6 DEF PeopleInv

\* Every step keeps what holds of the profiles.
LEMMA PeopleStep == PeopleInv /\ [PeopleNext]_peopleVars => PeopleInv'
<1> SUFFICES ASSUME PeopleInv, [PeopleNext]_peopleVars PROVE PeopleInv'
    OBVIOUS
<1>1. ASSUME NEW r \in Reqs, ApplyInsert(r) \/ ApplyUpdate(r) PROVE PeopleInv'
  <2>1. saves[r].pc = "apply"
      BY <1>1 DEF ApplyInsert, ApplyUpdate
  <2>2. saves[r].id \in Profiles \cup {None}
      BY <2>1 DEF PeopleInv, PeopleTypes, Request, NoSave
  <2>3. PICK p \in Profiles : Put(r, p)
      BY <1>1, <2>2 DEF ApplyInsert, ApplyUpdate
  <2>4. QED BY <2>1, <2>3, PutKeeps
<1>2. ASSUME NEW r \in Reqs, SaveFails(r) PROVE PeopleInv'
    BY <1>2, QuietKeeps DEF SaveFails, EndSave
<1>3. ASSUME NEW m \in Migrations, Migrate(m) PROVE PeopleInv'
    BY <1>3 DEF Migrate, PeopleInv, PeopleTypes, CurrentIncomeRecorded, FormsKept, UsesFound, Live
<1>4. CASE Tick
    BY <1>4 DEF Tick, PeopleInv, PeopleTypes, CurrentIncomeRecorded, FormsKept, UsesFound, Live
<1>5. CASE UNCHANGED peopleVars
    BY <1>5 DEF peopleVars, PeopleInv, PeopleTypes, CurrentIncomeRecorded, FormsKept, UsesFound, Live
<1>6. QED
    BY <1>1, <1>2, <1>3, <1>4, <1>5, StartKeeps, IssueKeeps, DeleteKeeps DEF PeopleNext

\* Tables and handlers keep their types, and with them the invariant below,
\* through every form of every statement and every migration.
THEOREM PeopleInvariant == PeopleSpec => []PeopleInv
BY PeopleInitially, PeopleStep, PTL DEF PeopleSpec

\* The income of a profile last written by a statement that knows the history is
\* in the history with its updated_at (people.go:51-60, 291-300), however late
\* statements, fallbacks, deletions and migrations interleave.
THEOREM IncomesAreRecorded == PeopleSpec => []CurrentIncomeRecorded
<1>1. PeopleInv => CurrentIncomeRecorded
    BY DEF PeopleInv
<1>2. QED BY <1>1, PeopleInvariant, PTL

\* A link is replaced and never removed (people.go:279), whatever linked user an
\* update sends and whichever form of it is applied.
THEOREM LinksStay == PeopleSpec => LinkNeverCleared
<1>1. ASSUME PeopleInv, [PeopleNext]_peopleVars, NEW p \in Profiles, people[p].link # None
      PROVE  people'[p].link # None
  <2>1. CASE people' = people
      BY <1>1, <2>1
  <2>2. ASSUME NEW r \in Reqs, NEW o \in Profiles, saves[r].pc = "apply", Put(r, o), people' # people
        PROVE  people'[p].link # None
    <3> DEFINE l == NewLink(saves[r], people[o].link)
    <3>1. saves[r] \in Request /\ people[o].link \in Users \cup {None}
        BY <1>1, <2>2 DEF PeopleInv, PeopleTypes, NoSave, Profile
    <3>2. people[o].link # None => l # None
        BY <3>1, NewLinkKeeps
    <3>3. people' = [people EXCEPT ![o] =
                       [status |-> "live", fam |-> saves[r].fam, income |-> saves[r].income,
                        link |-> l, at |-> saves[r].at]]
        BY <2>2 DEF Put
    <3> HIDE DEF l
    <3>4. QED BY <1>1, <3>2, <3>3 DEF PeopleInv, PeopleTypes
  <2>3. ASSUME NEW r \in Reqs, ApplyInsert(r) \/ ApplyUpdate(r), people' # people
        PROVE  people'[p].link # None
    <3>1. saves[r].id \in Profiles \cup {None} /\ saves[r].pc = "apply"
        BY <1>1, <2>3 DEF PeopleInv, PeopleTypes, Request, NoSave, ApplyInsert, ApplyUpdate
    <3>2. QED BY <2>2, <2>3, <3>1 DEF ApplyInsert, ApplyUpdate
  <2>4. ASSUME NEW o \in Profiles, DeletePersonProfile(o) PROVE people'[p].link # None
    <3>1. [people[o] EXCEPT !.status = "deleted"].link = people[o].link
        BY <1>1 DEF PeopleInv, PeopleTypes, Profile
    <3>2. QED BY <1>1, <2>4, <3>1 DEF DeletePersonProfile, PeopleInv, PeopleTypes
  <2>5. QED
      BY <1>1, <2>1, <2>3, <2>4 DEF PeopleNext, peopleVars, StartCreate, StartUpdate, StartSave, Issue, SaveFails,
          Migrate, Tick
<1>2. PeopleInv /\ [PeopleNext]_peopleVars =>
        [\A p \in Profiles : people[p].link # None => people'[p].link # None]_peopleVars
    BY <1>1
<1>3. QED BY <1>2, PeopleInvariant, PTL DEF PeopleSpec, LinkNeverCleared


\* A save stores what the database could hold when it came in (people.go:51-101,
\* 261-436), through every fallback and every migration on the way.
THEOREM SavesAreComplete == PeopleSpec => SavedInFull
<1>1. ASSUME PeopleInv, [PeopleNext]_peopleVars, NEW r \in Reqs, NEW p \in Profiles,
             saves[r].pc = "apply", saves'[r] = NoSave, people'[p] # people[p]
      PROVE  /\ saves[r].found = FullForm =>
                  [person |-> p, income |-> saves[r].income, at |-> saves[r].at] \in history'
             /\ /\ "linked" \in saves[r].found /\ (saves[r].id = p \/ saves[r].found = FullForm)
                /\ saves[r].link # None
                => people'[p].link = saves[r].link
  <2> DEFINE q == saves[r]
  <2>1. q # NoSave /\ people' # people
      BY <1>1 DEF NoSave
  <2>2. q \in Request /\ UsesFound(q)
      BY <1>1, <2>1 DEF PeopleInv, PeopleTypes, FormsKept
  <2>3. PICK x \in Reqs : ApplyInsert(x) \/ ApplyUpdate(x)
    <3>1. saves' # saves
      BY <1>1, <2>1
    <3>2. QED
      BY <1>1, <2>1, <3>1 DEF PeopleNext, peopleVars, StartCreate, StartUpdate, StartSave,
          Issue, SaveFails, Migrate, Tick, DeletePersonProfile
  <2>4. saves' = [saves EXCEPT ![x] = NoSave]
      BY <2>3 DEF ApplyInsert, ApplyUpdate, Put, EndSave
  <2>5. x = r
      BY <1>1, <2>1, <2>4 DEF PeopleInv, PeopleTypes
  <2>6. PICK o \in Profiles : Put(r, o) /\ (q.id = None \/ q.id = o)
      BY <2>2, <2>3, <2>5 DEF ApplyInsert, ApplyUpdate, Request
  <2> DEFINE l == NewLink(q, people[o].link)
             row == [status |-> "live", fam |-> q.fam, income |-> q.income, link |-> l, at |-> q.at]
  <2>7. people' = [people EXCEPT ![o] = row] /\ history' = Recorded(q, o)
      BY <2>1, <2>6 DEF Put
  <2>8. row.link = l
      OBVIOUS
  <2> HIDE DEF row, l
  <2>9. o = p /\ people'[p] = row
      BY <1>1, <2>7 DEF PeopleInv, PeopleTypes
  <2>10. q.found = FullForm =>
           [person |-> p, income |-> q.income, at |-> q.at] \in history'
      BY <2>2, <2>7, <2>9 DEF UsesFound, Recorded, FullForm
  <2>11. p # None
      BY PeopleAssumption
  <2>12. "linked" \in q.found /\ (q.id = p \/ q.found = FullForm) => "linked" \in q.form
      BY <2>2, <2>11 DEF UsesFound, FullForm
  <2>13. QED BY <2>8, <2>9, <2>10, <2>12 DEF l, NewLink
<1>2. PeopleInv /\ [PeopleNext]_peopleVars =>
        [\A r \in Reqs, p \in Profiles :
           LET q == saves[r] IN
           q.pc = "apply" /\ saves'[r] = NoSave /\ people'[p] # people[p] =>
              /\ q.found = FullForm =>
                   [person |-> p, income |-> q.income, at |-> q.at] \in history'
              /\ "linked" \in q.found /\ (q.id = p \/ q.found = FullForm) /\ q.link # None =>
                   people'[p].link = q.link]_peopleVars
    BY <1>1
<1>3. QED BY <1>2, PeopleInvariant, PTL DEF PeopleSpec, SavedInFull

=============================================================================
