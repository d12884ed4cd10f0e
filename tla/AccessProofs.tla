---------------------------- MODULE AccessProofs ----------------------------
(***************************************************************************)
(* Proofs about Access, for any users, families, rows, tokens and number   *)
(* of calls in flight.  A reply is judged against the tables as they are   *)
(* while it is on its way, so the invariant says what has to stay true     *)
(* after the statement that read the rows: members stay, a home stays with *)
(* its family, and the id of a deleted profile is never given out again.   *)
(* Between its statements a call belongs to the user of its token, and a   *)
(* list is past hasFamilyAccess only for a member.  The same facts the     *)
(* other way round: a row a call is owed stays stored, and readable to its *)
(* caller, until it is gone for good.                                      *)
(***************************************************************************)
EXTENDS Access, TLAPS

Kinds == {"GetFamily", "ListUserFamilies", "ListFamilyMembers", "GetPersonProfile",
          "ListPersonProfilesByFamily", "ListIncomeHistoryByFamily", "GetHousingOption",
          "ListHousingOptions", "ListHousingGroups"}

\* A call between two statements.
IsCall(q) == q = [pc |-> q.pc, kind |-> q.kind, id |-> q.id, token |-> q.token,
                  barred |-> q.barred, owed |-> q.owed, viewer |-> q.viewer]

\* A deleted profile, whose id is not given out again.
Gone(p) == p \in spent \ DOMAIN persons /\ \A h \in history : h.person # p

\* What keeps a row that was owed in front of the statement that will read it.
Due(u, kind, id, row) ==
    /\ Stored(kind, row.id, row.fam)
         \/ (kind \in ProfileReads \cup {"ListIncomeHistoryByFamily"} /\ Gone(row.id))
    /\ Member(u, row.fam)
    /\ kind \in FamilyLists => row.fam = id
    /\ kind \notin FamilyLists /\ kind # "ListUserFamilies" => row.id = id
    /\ row.linked => /\ kind \in ProfileReads /\ linkColumn /\ row.id \in spent
                     /\ row.id \in DOMAIN persons => persons[row.id].link # Blank

Underway(q) ==
    /\ IsCall(q) /\ q.kind \in Kinds
    /\ \A row \in q.owed : Due(q.viewer, q.kind, q.id, row) /\ (q.pc = "legacy" => ~row.linked)
    /\ ~q.barred /\ q.token \in Tokens /\ q.viewer = TokenUser[q.token]
    /\ q.pc = "access" => q.kind \in FamilyLists
    /\ q.pc # "access" /\ q.kind \in FamilyLists => Member(q.viewer, q.id)
    /\ q.pc = "legacy" => q.kind \in ProfileReads

\* What user u may have learned of kind and id by code and rows.
Learned(u, kind, id, code, rows) ==
    /\ \A row \in rows : Member(u, row.fam)
    /\ kind \in FamilyLists /\ code # "PermissionDenied" => Member(u, id)
    /\ kind = "GetFamily" /\ code # "NotFound" => Member(u, id)
    /\ kind = "GetPersonProfile" /\ code # "NotFound" =>
         id \in spent /\ (id \in DOMAIN persons => Member(u, persons[id].fam))
    /\ kind = "GetHousingOption" /\ code # "NotFound" =>
         id \in DOMAIN homes /\ Member(u, homes[id])

\* A row that was owed is among rows, or gone.
Served(kind, rows, due) ==
    \/ \E row \in rows : /\ row.id = due.id /\ row.fam = due.fam
                         /\ due.linked => row.link # Blank
    \/ kind \in ProfileReads \cup {"ListIncomeHistoryByFamily"} /\ Gone(due.id)

Answered(q) ==
    /\ q.barred => q.code = "Unauthenticated"
    /\ q.code \notin {"Unauthenticated", "InvalidArgument"} =>
         /\ Learned(TokenUser[q.token], q.kind, q.id, q.code, q.rows)
         /\ \A due \in q.owed : Served(q.kind, q.rows, due)

Sound(q) ==
    /\ q.pc \in {"access", "read", "legacy"} => Underway(q)
    /\ q.pc = "done" => Answered(q)

TablesInv ==
    /\ role = [f \in Families |-> role[f]]
    /\ DOMAIN persons \subseteq spent
    /\ \A p \in DOMAIN persons : [person |-> p, fam |-> persons[p].fam] \in history
    /\ \A h \in history : h.person \in spent

IInv ==
    /\ TablesInv
    /\ reqs = [r \in Reqs |-> reqs[r]]
    /\ \A r \in Reqs : Sound(reqs[r])

-----------------------------------------------------------------------------
(* The writers.                                                            *)

\* How the tables may change under a call.
Grows ==
    /\ \A u, f : Member(u, f) => Member(u, f)'
    /\ spent \subseteq spent'
    /\ \A p \in DOMAIN persons' :
         IF p \in DOMAIN persons THEN persons'[p].fam = persons[p].fam ELSE p \notin spent
    /\ \A h \in DOMAIN homes : h \in DOMAIN homes' /\ homes'[h] = homes[h]
    /\ \A g \in DOMAIN groups : g \in DOMAIN groups' /\ groups'[g].fam = groups[g].fam
    /\ \A p \in DOMAIN persons : p \in DOMAIN persons' \/ Gone(p)'
    /\ \A p : Gone(p) => Gone(p)'
    /\ \A h \in history : h \in history' \/ Gone(h.person)'
    /\ linkColumn => linkColumn'
    /\ \A p \in DOMAIN persons \cap DOMAIN persons' :
         persons[p].link # Blank => persons'[p].link # Blank

\* A reply a user may have stays one: members stay, and rows keep their
\* family.
LEMMA LearnedStays ==
    ASSUME Grows, NEW u, NEW kind, NEW id, NEW code, NEW rows,
           Learned(u, kind, id, code, rows)
    PROVE  Learned(u, kind, id, code, rows)'
BY DEF Grows, Learned

\* A row that is owed stays due, or goes for good.
LEMMA DueStays ==
    ASSUME Grows, NEW u, NEW kind \in Kinds, NEW id, NEW row, Due(u, kind, id, row)
    PROVE  Due(u, kind, id, row)'
<1> DEFINE Deletable == kind \in ProfileReads \cup {"ListIncomeHistoryByFamily"}
           Held == Stored(kind, row.id, row.fam) \/ (Deletable /\ Gone(row.id))
<1>1. ASSUME Stored(kind, row.id, row.fam) PROVE Held'
  <2>1. CASE kind \in {"GetFamily", "ListUserFamilies"}
      BY <1>1, <2>1 DEF Stored, ProfileReads
  <2>2. CASE kind = "ListFamilyMembers"
    <3>1. Member(row.id, row.fam) => Member(row.id, row.fam)'
        BY DEF Grows
    <3>2. QED BY <1>1, <2>2, <3>1 DEF Stored, ProfileReads
  <2>3. CASE kind \in ProfileReads
    <3>1. row.id \in DOMAIN persons /\ persons[row.id].fam = row.fam
        BY <1>1, <2>3 DEF Stored, ProfileReads
    <3>2. Gone(row.id)' \/ (row.id \in DOMAIN persons' /\ persons'[row.id].fam = row.fam)
        BY <3>1 DEF Grows
    <3>3. QED BY <2>3, <3>2 DEF Stored, ProfileReads
  <2>4. CASE kind = "ListIncomeHistoryByFamily"
    <3>1. [person |-> row.id, fam |-> row.fam] \in history
        BY <1>1, <2>4 DEF Stored, ProfileReads
    <3>2. [person |-> row.id, fam |-> row.fam] \in history' \/ Gone(row.id)'
        BY <3>1 DEF Grows
    <3>3. QED BY <2>4, <3>2 DEF Stored, ProfileReads
  <2>5. CASE kind \in {"GetHousingOption", "ListHousingOptions"}
      BY <1>1, <2>5 DEF Stored, ProfileReads, Grows
  <2>6. CASE kind = "ListHousingGroups"
      BY <1>1, <2>6 DEF Stored, ProfileReads, Grows
  <2>7. QED BY <2>1, <2>2, <2>3, <2>4, <2>5, <2>6 DEF Kinds, ProfileReads
<1>2. ASSUME Deletable, Gone(row.id) PROVE Held'
    BY <1>2 DEF Grows
<1>3. Held'
    BY <1>1, <1>2 DEF Due
<1>4. Member(u, row.fam)'
    BY DEF Due, Grows
<1>5. row.linked /\ row.id \in DOMAIN persons' => row.id \in DOMAIN persons
    BY DEF Due, Grows
<1>6. row.linked => /\ linkColumn' /\ row.id \in spent'
                    /\ row.id \in DOMAIN persons' => persons'[row.id].link # Blank
    BY <1>5 DEF Due, Grows
<1> HIDE DEF Held
<1>7. QED BY <1>3, <1>4, <1>6 DEF Due, Held

\* A reply or a call under way stays sound while others write.
LEMMA SoundStays ==
    ASSUME Grows, NEW q, Sound(q)
    PROVE  Sound(q)'
<1>1. \A due : Served(q.kind, q.rows, due) => Served(q.kind, q.rows, due)'
    BY DEF Served, Grows
<1>2. q.pc = "done" => Answered(q)'
    BY <1>1, LearnedStays DEF Sound, Answered
<1>3. q.pc \in {"access", "read", "legacy"} => Underway(q)'
  <2> SUFFICES ASSUME Underway(q) PROVE Underway(q)'
      BY DEF Sound
  <2>1. \A row \in q.owed : Due(q.viewer, q.kind, q.id, row)'
      BY DueStays DEF Underway
  <2>2. QED BY <2>1 DEF Underway, Grows
<1>4. QED BY <1>2, <1>3 DEF Sound

\* The writers keep the invariant.
LEMMA WriterKeeps ==
    ASSUME IInv, Grows, TablesInv', reqs' = reqs
    PROVE  IInv'
<1>1. ASSUME NEW r \in Reqs PROVE Sound(reqs[r])'
  <2>1. Sound(reqs[r])
      BY DEF IInv
  <2>2. reqs'[r] = reqs[r]
      OBVIOUS
  <2> DEFINE q == reqs[r]
  <2> HIDE DEF q
  <2>3. QED BY <2>1, <2>2, SoundStays DEF q
<1>2. QED BY <1>1 DEF IInv

\* The tables are empty and no call is under way.
LEMMA InitIInv == Init => IInv
<1> SUFFICES ASSUME Init PROVE IInv
    OBVIOUS
<1>1. TablesInv
    BY DEF Init, TablesInv, Empty
<1>2. QED BY <1>1 DEF Init, IInv, Sound, Idle

\* Every write of the tables is of this kind.
LEMMA WritesGrow ==
    ASSUME IInv, NEW u \in Users, Writes(u)
    PROVE  Grows /\ TablesInv' /\ reqs' = reqs
<1>1. CASE DisableUser(u)
    BY <1>1 DEF DisableUser, tables, Grows, IInv, TablesInv, Member, Gone
<1>2. ASSUME NEW f \in Families, NEW as, Join(u, f, as)
      PROVE  Grows /\ TablesInv' /\ reqs' = reqs
  <2>1. role' = [role EXCEPT ![f] = Put(role[f], u, as)]
      BY <1>2 DEF Join
  <2>2. DOMAIN role[f] \subseteq DOMAIN Put(role[f], u, as)
      BY DEF Put
  <2>3. ASSUME NEW v, NEW g, Member(v, g) PROVE Member(v, g)'
      BY <2>1, <2>2, <2>3 DEF Member, IInv, TablesInv
  <2>4. QED BY <1>2, <2>1, <2>3 DEF Join, Grows, IInv, TablesInv, Gone
<1>3. ASSUME NEW p, NEW f, NEW link, SavePerson(u, p, f, link)
      PROVE  Grows /\ TablesInv' /\ reqs' = reqs
  <2> DEFINE stored == IF p \in DOMAIN persons THEN persons[p].link ELSE Blank
             row == [fam |-> f, link |-> IF linkColumn /\ link # Blank THEN link ELSE stored]
             entry == [person |-> p, fam |-> f]
  <2>1. persons' = [i \in DOMAIN persons \cup {p} |-> IF i = p THEN row ELSE persons[i]]
      BY <1>3 DEF SavePerson, Put
  <2>2. /\ row.fam = f /\ entry.person = p
        /\ p \in DOMAIN persons /\ persons[p].link # Blank => row.link # Blank
      OBVIOUS
  <2>a. history' = history \cup {entry}
      BY <1>3 DEF SavePerson
  <2> HIDE DEF row, entry
  <2>3. \A i \in DOMAIN persons' :
          IF i \in DOMAIN persons THEN persons'[i].fam = persons[i].fam ELSE i \notin spent
      BY <1>3, <2>1, <2>2 DEF SavePerson
  <2>4. \A q : Gone(q) => Gone(q)'
      BY <1>3, <2>1, <2>2, <2>a DEF SavePerson, Gone
  <2>5. Grows
      BY <1>3, <2>1, <2>2, <2>3, <2>4, <2>a DEF SavePerson, Grows, Member
  <2>6. TablesInv'
    <3>1. \A i \in DOMAIN persons' : [person |-> i, fam |-> persons'[i].fam] \in history'
        BY <2>1, <2>2, <2>a DEF IInv, TablesInv, entry
    <3>2. QED BY <1>3, <2>1, <2>2, <2>a, <3>1 DEF SavePerson, IInv, TablesInv
  <2>7. QED BY <1>3, <2>5, <2>6 DEF SavePerson
<1>4. ASSUME NEW p, DeletePerson(u, p)
      PROVE  Grows /\ TablesInv' /\ reqs' = reqs
  <2>1. persons' = [i \in DOMAIN persons \ {p} |-> persons[i]]
      BY <1>4 DEF DeletePerson, Drop
  <2>2. Gone(p)' /\ history' = {h \in history : h.person # p} /\ UNCHANGED spent
      BY <1>4, <2>1 DEF DeletePerson, Gone, IInv, TablesInv
  <2>3. \A q : Gone(q) => Gone(q)'
      BY <2>1, <2>2 DEF Gone
  <2>4. Grows
      BY <1>4, <2>1, <2>2, <2>3 DEF DeletePerson, Grows, Member
  <2>5. TablesInv'
    <3>1. \A i \in DOMAIN persons' : [person |-> i, fam |-> persons'[i].fam] \in history'
        BY <2>1, <2>2 DEF IInv, TablesInv
    <3>2. QED BY <1>4, <2>1, <2>2, <3>1 DEF DeletePerson, IInv, TablesInv
  <2>6. QED BY <1>4, <2>4, <2>5 DEF DeletePerson
<1>5. ASSUME NEW h, NEW f, SaveHome(u, h, f)
      PROVE  Grows /\ TablesInv' /\ reqs' = reqs
  <2>1. homes' = [i \in DOMAIN homes \cup {h} |-> IF i = h THEN f ELSE homes[i]]
      BY <1>5 DEF SaveHome, Put
  <2>2. QED BY <1>5, <2>1 DEF SaveHome, Grows, IInv, TablesInv, Member, Gone
<1>6. ASSUME NEW g, NEW f, SaveGroup(u, g, f) \/ UpdateHousingGroup(u, g)
      PROVE  Grows /\ TablesInv' /\ reqs' = reqs
  <2>1. \A i \in DOMAIN groups : i \in DOMAIN groups' /\ groups'[i].fam = groups[i].fam
    <3>1. CASE SaveGroup(u, g, f)
        BY <3>1 DEF SaveGroup, Put
    <3>2. CASE UpdateHousingGroup(u, g)
      <4>1. groups' = [groups EXCEPT ![g].name = u]
          BY <3>2 DEF UpdateHousingGroup
      <4>2. QED BY <4>1
    <3>3. QED BY <1>6, <3>1, <3>2
  <2>2. UNCHANGED <<role, persons, history, spent, homes, linkColumn, reqs>>
      BY <1>6 DEF SaveGroup, UpdateHousingGroup
  <2>3. QED BY <2>1, <2>2 DEF Grows, IInv, TablesInv, Member, Gone
<1>7. QED
    BY <1>1, <1>2, <1>3, <1>4, <1>5, <1>6 DEF Writes

-----------------------------------------------------------------------------
(* The calls.                                                              *)

\* A call moves on and the tables stay as they are.
LEMMA MoveKeeps ==
    ASSUME IInv, NEW r \in Reqs, NEW q, reqs' = [reqs EXCEPT ![r] = q], Sound(q),
           UNCHANGED tables
    PROVE  IInv'
<1>1. Grows /\ TablesInv'
    BY DEF tables, Grows, IInv, TablesInv, Member, Gone
<1>2. ASSUME NEW x, Sound(x) PROVE Sound(x)'
    BY <1>1, <1>2, SoundStays
<1>3. \A x \in Reqs : reqs'[x] = IF x = r THEN q ELSE reqs[x]
    BY DEF IInv
<1>4. ASSUME NEW x \in Reqs PROVE Sound(reqs[x])'
  <2> DEFINE y == IF x = r THEN q ELSE reqs[x]
  <2>1. Sound(y) /\ reqs'[x] = y
      BY <1>3 DEF IInv
  <2> HIDE DEF y
  <2>2. QED BY <1>2, <2>1
<1>5. QED BY <1>1, <1>4 DEF IInv

\* A call in flight is its caller's, who was not barred.
LEMMA CallInv ==
    ASSUME IInv, NEW r \in Reqs, NEW kind \in Kinds, NEW headers, NEW claimed, NEW id,
           Call(r, kind, headers, claimed, id)
    PROVE  IInv'
<1> DEFINE token == sessionTokenFromContext(headers)
           UserOf(t) == IF t \in Tokens THEN TokenUser[t] ELSE Blank
           owed == Owed(UserOf(Caller(headers)), kind, id)
           req == [pc |-> IF kind \in FamilyLists THEN "access" ELSE "read", kind |-> kind, id |-> id,
                   token |-> Caller(headers), barred |-> Barred(Caller(headers)),
                   owed |-> owed, viewer |-> requestActorID(UserOf(token), claimed)]
           q == IF ~Authenticate(token) THEN Reply([req EXCEPT !.owed = {}], "Unauthenticated", {})
                ELSE IF id = Blank /\ kind # "ListUserFamilies" THEN Reply(req, "InvalidArgument", {})
                ELSE req
<1>1. reqs' = [reqs EXCEPT ![r] = q] /\ UNCHANGED tables
    BY DEF Call
<1>2. Authenticate(token) =>
        token \in Tokens /\ Caller(headers) = token /\ ~Barred(token)
    BY AccessAssumption DEF Authenticate, Barred, Caller, sessionTokenFromContext
<1>3. req.pc = (IF kind \in FamilyLists THEN "access" ELSE "read") /\ req.kind = kind /\ req.id = id
      /\ req.token = Caller(headers) /\ req.barred = Barred(Caller(headers)) /\ req.viewer = UserOf(token)
      /\ req.owed = owed /\ IsCall(req)
    BY DEF requestActorID, IsCall
<1>9. ASSUME Authenticate(token), NEW row \in owed PROVE Due(UserOf(token), kind, id, row)
  <2>1. /\ Member(UserOf(token), row.fam) /\ Stored(kind, row.id, row.fam)
        /\ IF kind \in FamilyLists THEN row.fam = id ELSE kind = "ListUserFamilies" \/ row.id = id
        /\ row.linked <=> kind \in ProfileReads /\ linkColumn /\ persons[row.id].link # Blank
      BY <1>2, <1>9 DEF Owed
  <2>2. kind \in ProfileReads => row.id \in DOMAIN persons
      BY <2>1 DEF Stored, ProfileReads
  <2>3. QED BY <2>1, <2>2 DEF Due, IInv, TablesInv
<1>4. Authenticate(token) => Sound(req)
  <2> SUFFICES ASSUME Authenticate(token) PROVE Underway(req)
      BY <1>3 DEF Sound
  <2> HIDE DEF req, owed
  <2>1. \A row \in req.owed : Due(req.viewer, req.kind, req.id, row)
      BY <1>3, <1>9
  <2>2. QED BY <1>2, <1>3, <2>1 DEF Underway
<1>5. Sound(Reply([req EXCEPT !.owed = {}], "Unauthenticated", {}))
    BY DEF Reply, Sound, Answered
<1>6. Authenticate(token) => Sound(Reply(req, "InvalidArgument", {}))
    BY <1>2, <1>3 DEF Reply, Sound, Answered
<1> HIDE DEF req, token
<1>7. Sound(q)
    BY <1>4, <1>5, <1>6
<1> HIDE DEF q
<1>8. QED BY <1>1, <1>7, MoveKeeps

\* A reply with what the caller may learn is sound.
LEMMA DoneInv ==
    ASSUME IInv, NEW r \in Reqs, Underway(reqs[r]), NEW code, NEW rows,
           Learned(reqs[r].viewer, reqs[r].kind, reqs[r].id, code, rows),
           \A due \in reqs[r].owed : Served(reqs[r].kind, rows, due),
           Done(r, code, rows), UNCHANGED tables
    PROVE  IInv'
<1> DEFINE q == Reply(reqs[r], code, rows)
<1>1. /\ q.pc = "done" /\ q.kind = reqs[r].kind /\ q.id = reqs[r].id /\ q.token = reqs[r].token
      /\ q.barred = reqs[r].barred /\ q.owed = reqs[r].owed /\ q.code = code /\ q.rows = rows
    BY DEF Reply
<1>2. reqs' = [reqs EXCEPT ![r] = q]
    BY DEF Done
<1> HIDE DEF q
<1>3. Sound(q)
    BY <1>1 DEF Sound, Answered, Underway
<1>4. QED BY <1>2, <1>3, MoveKeeps

\* hasFamilyAccess lets a call through for members only.
LEMMA AccessInv ==
    ASSUME IInv, NEW r \in Reqs, hasFamilyAccess(r)
    PROVE  IInv'
<1>1. Underway(reqs[r]) /\ UNCHANGED tables
    BY DEF hasFamilyAccess, IInv, Sound
<1>2. CASE Member(reqs[r].viewer, reqs[r].id)
  <2> DEFINE q == [reqs[r] EXCEPT !.pc = "read"]
  <2>1. reqs' = [reqs EXCEPT ![r] = q]
      BY <1>2 DEF hasFamilyAccess
  <2>2. q = [pc |-> "read", kind |-> reqs[r].kind, id |-> reqs[r].id, token |-> reqs[r].token,
             barred |-> reqs[r].barred, owed |-> reqs[r].owed, viewer |-> reqs[r].viewer]
      BY <1>1 DEF Underway, IsCall
  <2>3. Sound(q)
      BY <1>1, <1>2, <2>2 DEF Sound, Underway, IsCall
  <2> HIDE DEF q
  <2>4. QED BY <1>1, <2>1, <2>3, MoveKeeps
<1>3. CASE ~Member(reqs[r].viewer, reqs[r].id)
  <2>1. Done(r, "PermissionDenied", {})
      BY <1>3 DEF hasFamilyAccess
  <2>2. reqs[r].kind \in FamilyLists
      BY <1>1 DEF hasFamilyAccess, Underway
  <2>3. Learned(reqs[r].viewer, reqs[r].kind, reqs[r].id, "PermissionDenied", {})
      BY <2>2 DEF Learned, FamilyLists
  <2>4. reqs[r].owed = {}
      BY <1>1, <1>3, <2>2 DEF Underway, Due
  <2>5. QED BY <1>1, <2>1, <2>3, <2>4, DoneInv
<1>4. QED BY <1>2, <1>3

-----------------------------------------------------------------------------
(* The statements that read.                                               *)

\* What the statement of each kind finds, its caller may learn: it joins
\* family_members itself, or hasFamilyAccess did.
LEMMA ResultLearned ==
    ASSUME TablesInv, NEW kind \in Kinds, NEW u, NEW id,
           kind \in FamilyLists => Member(u, id)
    PROVE  Learned(u, kind, id, Result(kind, u, id).code, Result(kind, u, id).rows)
<1> DEFINE result == Result(kind, u, id)
<1> SUFFICES Learned(u, kind, id, result.code, result.rows)
    OBVIOUS
<1>1. ASSUME NEW rows, result = Listed(rows) PROVE result.code = "OK" /\ result.rows = rows
    BY <1>1 DEF Listed
<1>2. ASSUME NEW rows, result = Found(rows)
      PROVE  /\ result.code = (IF rows = {} THEN "NotFound" ELSE "OK") /\ result.rows = rows
    BY <1>2 DEF Found
<1>3. CASE kind = "GetFamily"
  <2>1. result = Found(familyRows(u, id))
      BY <1>3 DEF Result
  <2>2. \A row \in familyRows(u, id) : row.fam = id /\ Member(u, id)
      BY DEF familyRows
  <2> HIDE DEF result
  <2>3. QED BY <1>2, <1>3, <2>1, <2>2 DEF Learned, FamilyLists
<1>4. CASE kind = "ListUserFamilies"
  <2>1. result = Listed(userFamilyRows(u))
      BY <1>4 DEF Result
  <2>2. \A row \in userFamilyRows(u) : Member(u, row.fam)
      BY DEF userFamilyRows
  <2> HIDE DEF result
  <2>3. QED BY <1>1, <1>4, <2>1, <2>2 DEF Learned, FamilyLists
<1>5. CASE kind \in FamilyLists
  <2>1. PICK rows : result = Listed(rows) /\ \A row \in rows : row.fam = id
    <3>1. CASE kind = "ListFamilyMembers"
      <4>1. result = Listed(memberRows(id)) /\ \A row \in memberRows(id) : row.fam = id
          BY <3>1 DEF Result, memberRows
      <4>2. QED BY <4>1
    <3>2. CASE kind = "ListPersonProfilesByFamily"
      <4>1. result = Listed(personRows(id)) /\ \A row \in personRows(id) : row.fam = id
          BY <3>2 DEF Result, personRows
      <4>2. QED BY <4>1
    <3>3. CASE kind = "ListIncomeHistoryByFamily"
      <4>1. result = Listed(historyRows(id)) /\ \A row \in historyRows(id) : row.fam = id
          BY <3>3 DEF Result, historyRows
      <4>2. QED BY <4>1
    <3>4. CASE kind = "ListHousingOptions"
      <4>1. result = Listed(homeListRows(id)) /\ \A row \in homeListRows(id) : row.fam = id
          BY <3>4 DEF Result, homeListRows
      <4>2. QED BY <4>1
    <3>5. CASE kind = "ListHousingGroups"
      <4>1. result = Listed(groupRows(id)) /\ \A row \in groupRows(id) : row.fam = id
          BY <3>5 DEF Result, groupRows
      <4>2. QED BY <4>1
    <3>6. QED BY <1>5, <3>1, <3>2, <3>3, <3>4, <3>5 DEF FamilyLists
  <2> HIDE DEF result
  <2>2. QED BY <1>1, <1>5, <2>1 DEF Learned, FamilyLists
<1>6. CASE kind = "GetPersonProfile"
  <2> DEFINE rows == {[id |-> q, fam |-> persons[q].fam, link |-> persons[q].link] :
                        q \in {id} \cap {s \in DOMAIN persons : Member(u, persons[s].fam)}}
  <2>1. result = [code |-> IF rows = {} THEN "NotFound" ELSE "OK", rows |-> rows]
      BY <1>6 DEF Result, personRow
  <2>2. \A row \in rows : row.fam = persons[id].fam /\ id \in DOMAIN persons /\ Member(u, persons[id].fam)
      OBVIOUS
  <2>3. result.code = (IF rows = {} THEN "NotFound" ELSE "OK") /\ result.rows = rows
      BY <2>1
  <2> HIDE DEF result, rows
  <2>4. QED BY <1>6, <2>2, <2>3 DEF Learned, FamilyLists, TablesInv
<1>7. CASE kind = "GetHousingOption"
  <2>1. result = Found(homeRows(u, id))
      BY <1>7 DEF Result
  <2>2. \A row \in homeRows(u, id) :
          row.fam = homes[id] /\ id \in DOMAIN homes /\ Member(u, homes[id])
      BY DEF homeRows
  <2> HIDE DEF result
  <2>3. QED BY <1>2, <1>7, <2>1, <2>2 DEF Learned, FamilyLists
<1>8. QED BY <1>3, <1>4, <1>5, <1>6, <1>7 DEF Kinds, FamilyLists

\* The older statement shows the same rows, without their links.
LEMMA LegacyLearned ==
    ASSUME NEW u, NEW kind, NEW id, NEW code, NEW rows, Learned(u, kind, id, code, rows)
    PROVE  Learned(u, kind, id, code, scanLegacyPersonRow(rows))
<1>1. \A row \in scanLegacyPersonRow(rows) : \E old \in rows : row.fam = old.fam
    BY DEF scanLegacyPersonRow
<1>2. QED BY <1>1 DEF Learned

\* What is due to the caller and stored, the statement of its kind finds.
LEMMA ResultServes ==
    ASSUME NEW kind \in Kinds, NEW u, NEW id, NEW due, Due(u, kind, id, due)
    PROVE  Served(kind, Result(kind, u, id).rows, due)
<1> DEFINE result == Result(kind, u, id)
           Hit(row) == /\ row.id = due.id /\ row.fam = due.fam
                       /\ due.linked => row.link # Blank
<1> SUFFICES ASSUME Stored(kind, due.id, due.fam) PROVE \E row \in result.rows : Hit(row)
    BY DEF Due, Served
<1>1. ASSUME NEW rows, NEW row \in rows, result = Listed(rows) \/ result = Found(rows), Hit(row)
      PROVE  \E x \in result.rows : Hit(x)
  <2>1. result.rows = rows
      BY <1>1 DEF Listed, Found
  <2> HIDE DEF result
  <2>2. QED BY <1>1, <2>1
<1>2. CASE kind = "GetFamily"
  <2> DEFINE row == [id |-> id, fam |-> id]
  <2>1. result = Found(familyRows(u, id)) /\ id = due.id /\ due.id = due.fam /\ ~due.linked
      BY <1>2 DEF Result, Due, Stored, FamilyLists, ProfileReads
  <2>2. row \in familyRows(u, id)
      BY <2>1 DEF Due, familyRows
  <2>3. Hit(row)
      BY <2>1
  <2>4. QED BY <1>1, <2>1, <2>2, <2>3
<1>3. CASE kind = "ListUserFamilies"
  <2> DEFINE row == [id |-> due.fam, fam |-> due.fam]
  <2>1. result = Listed(userFamilyRows(u)) /\ due.id = due.fam /\ due.fam \in Families /\ ~due.linked
      BY <1>3 DEF Result, Due, Stored, ProfileReads
  <2>2. row \in userFamilyRows(u)
      BY <2>1 DEF Due, userFamilyRows
  <2>3. Hit(row)
      BY <2>1
  <2>4. QED BY <1>1, <2>1, <2>2, <2>3
<1>4. CASE kind = "ListFamilyMembers"
  <2> DEFINE row == [id |-> due.id, fam |-> id, role |-> role[id][due.id]]
  <2>1. result = Listed(memberRows(id)) /\ due.fam = id /\ due.id \in DOMAIN role[id] /\ ~due.linked
      BY <1>4 DEF Result, Due, Stored, FamilyLists, ProfileReads, Member
  <2>2. row \in memberRows(id)
      BY <2>1 DEF memberRows
  <2>3. Hit(row)
      BY <2>1
  <2>4. QED BY <1>1, <2>1, <2>2, <2>3
<1>5. CASE kind = "GetPersonProfile"
  <2> DEFINE rows == {[id |-> q, fam |-> persons[q].fam, link |-> persons[q].link] :
                        q \in {id} \cap {s \in DOMAIN persons : Member(u, persons[s].fam)}}
             row == [id |-> id, fam |-> persons[id].fam, link |-> persons[id].link]
  <2>1. /\ due.id = id /\ id \in DOMAIN persons /\ persons[id].fam = due.fam
        /\ Member(u, due.fam) /\ (due.linked => persons[id].link # Blank)
      BY <1>5 DEF Due, Stored, FamilyLists, ProfileReads
  <2>2. result.rows = rows
      BY <1>5 DEF Result, personRow
  <2>3. row \in rows
      BY <2>1
  <2>4. Hit(row)
      BY <2>1
  <2> HIDE DEF rows, row, result
  <2>5. QED BY <2>2, <2>3, <2>4
<1>6. CASE kind = "ListPersonProfilesByFamily"
  <2> DEFINE row == [id |-> due.id, fam |-> id, link |-> persons[due.id].link]
  <2>1. /\ result = Listed(personRows(id))
        /\ due.fam = id /\ due.id \in DOMAIN persons /\ persons[due.id].fam = id
        /\ due.linked => persons[due.id].link # Blank
      BY <1>6 DEF Result, Due, Stored, FamilyLists, ProfileReads
  <2>2. row \in personRows(id)
      BY <2>1 DEF personRows
  <2>3. Hit(row)
      BY <2>1
  <2>4. QED BY <1>1, <2>1, <2>2, <2>3
<1>7. CASE kind = "ListIncomeHistoryByFamily"
  <2> DEFINE entry == [person |-> due.id, fam |-> id]
             row == [id |-> entry.person, fam |-> id]
  <2>1. /\ result = Listed(historyRows(id)) /\ due.fam = id /\ entry \in history /\ ~due.linked
      BY <1>7 DEF Result, Due, Stored, FamilyLists, ProfileReads
  <2>2. row \in historyRows(id)
      BY <2>1 DEF historyRows
  <2>3. Hit(row)
      BY <2>1
  <2>4. QED BY <1>1, <2>1, <2>2, <2>3
<1>8. CASE kind = "GetHousingOption"
  <2> DEFINE row == [id |-> id, fam |-> homes[id]]
  <2>1. /\ result = Found(homeRows(u, id)) /\ due.id = id /\ id \in DOMAIN homes
        /\ homes[id] = due.fam /\ Member(u, due.fam) /\ ~due.linked
      BY <1>8 DEF Result, Due, Stored, FamilyLists, ProfileReads
  <2>2. row \in homeRows(u, id)
      BY <2>1 DEF homeRows
  <2>3. Hit(row)
      BY <2>1
  <2>4. QED BY <1>1, <2>1, <2>2, <2>3
<1>9. CASE kind = "ListHousingOptions"
  <2> DEFINE row == [id |-> due.id, fam |-> id]
  <2>1. /\ result = Listed(homeListRows(id)) /\ due.fam = id /\ due.id \in DOMAIN homes
        /\ homes[due.id] = id /\ ~due.linked
      BY <1>9 DEF Result, Due, Stored, FamilyLists, ProfileReads
  <2>2. row \in homeListRows(id)
      BY <2>1 DEF homeListRows
  <2>3. Hit(row)
      BY <2>1
  <2>4. QED BY <1>1, <2>1, <2>2, <2>3
<1>10. CASE kind = "ListHousingGroups"
  <2> DEFINE row == [id |-> due.id, fam |-> id, name |-> groups[due.id].name]
  <2>1. /\ result = Listed(groupRows(id)) /\ due.fam = id /\ due.id \in DOMAIN groups
        /\ groups[due.id].fam = id /\ ~due.linked
      BY <1>10 DEF Result, Due, Stored, FamilyLists, ProfileReads
  <2>2. row \in groupRows(id)
      BY <2>1 DEF groupRows
  <2>3. Hit(row)
      BY <2>1
  <2>4. QED BY <1>1, <2>1, <2>2, <2>3
<1>11. QED
    BY <1>2, <1>3, <1>4, <1>5, <1>6, <1>7, <1>8, <1>9, <1>10 DEF Kinds

\* The older statement serves a caller who is owed no link.
LEMMA LegacyServes ==
    ASSUME NEW kind, NEW rows, NEW due, Served(kind, rows, due), ~due.linked
    PROVE  Served(kind, scanLegacyPersonRow(rows), due)
<1>1. ASSUME NEW row \in rows
      PROVE  \E old \in scanLegacyPersonRow(rows) : old.id = row.id /\ old.fam = row.fam
  <2> DEFINE old == [id |-> row.id, fam |-> row.fam, link |-> Blank]
  <2>1. old \in scanLegacyPersonRow(rows)
      BY DEF scanLegacyPersonRow
  <2>2. old.id = row.id /\ old.fam = row.fam
      OBVIOUS
  <2>3. QED BY <2>1, <2>2
<1>2. QED BY <1>1 DEF Served

\* The statement that reads the rows gives a member their rows and nobody
\* else any.
LEMMA ReadInv ==
    ASSUME IInv, NEW r \in Reqs, Read(r) \/ LegacyRead(r)
    PROVE  IInv'
<1> DEFINE result == Result(reqs[r].kind, reqs[r].viewer, reqs[r].id)
<1>1. Underway(reqs[r]) /\ reqs[r].pc # "access" /\ UNCHANGED tables
    BY DEF Read, LegacyRead, IInv, Sound
<1>2. Learned(reqs[r].viewer, reqs[r].kind, reqs[r].id, result.code, result.rows)
    BY <1>1, ResultLearned DEF Underway, IInv
<1>7. \A due \in reqs[r].owed : Served(reqs[r].kind, result.rows, due)
    BY <1>1, ResultServes DEF Underway
<1>3. CASE Done(r, result.code, result.rows)
    BY <1>1, <1>2, <1>3, <1>7, DoneInv
<1>4. CASE reqs[r].pc = "legacy" /\ Done(r, result.code, scanLegacyPersonRow(result.rows))
  <2>1. \A due \in reqs[r].owed : Served(reqs[r].kind, scanLegacyPersonRow(result.rows), due)
      BY <1>1, <1>4, <1>7, LegacyServes DEF Underway
  <2>2. QED BY <1>1, <1>2, <1>4, <2>1, LegacyLearned, DoneInv
<1>5. CASE /\ reqs[r].kind \in ProfileReads /\ ~linkColumn
           /\ reqs' = [reqs EXCEPT ![r].pc = "legacy"]
  <2> DEFINE q == [reqs[r] EXCEPT !.pc = "legacy"]
  <2>1. reqs' = [reqs EXCEPT ![r] = q]
      BY <1>5
  <2>2. q = [pc |-> "legacy", kind |-> reqs[r].kind, id |-> reqs[r].id, token |-> reqs[r].token,
             barred |-> reqs[r].barred, owed |-> reqs[r].owed, viewer |-> reqs[r].viewer]
      BY <1>1 DEF Underway, IsCall
  <2>3. Sound(q)
      BY <1>1, <1>5, <2>2 DEF Sound, Underway, IsCall, Due
  <2> HIDE DEF q
  <2>4. QED BY <1>1, <2>1, <2>3, MoveKeeps
<1>6. QED
    BY <1>3, <1>4, <1>5 DEF Read, LegacyRead

\* Every step keeps the invariant.
LEMMA StepInv == IInv /\ [Next]_vars => IInv'
<1> SUFFICES ASSUME IInv, [Next]_vars PROVE IInv'
    OBVIOUS
<1>1. ASSUME UNCHANGED <<tables, reqs>> PROVE IInv'
    BY <1>1, WriterKeeps DEF tables, Grows, IInv, TablesInv, Member, Gone
<1>2. ASSUME NEW u \in Users, Writes(u) PROVE IInv'
    BY <1>2, WritesGrow, WriterKeeps
<1>3. ASSUME NEW t \in Tokens, Login(t) \/ SessionEnds(t) PROVE IInv'
    BY <1>1, <1>3 DEF Login, SessionEnds
<1>4. CASE Migrate
  <2>1. Grows /\ TablesInv' /\ reqs' = reqs
      BY <1>4 DEF Migrate, Grows, IInv, TablesInv, Member, Gone
  <2>2. QED BY <2>1, WriterKeeps
<1>5. ASSUME NEW r \in Reqs, NEW headers, NEW claimed, Calls(r, headers, claimed) PROVE IInv'
  <2>1. PICK kind \in Kinds, id \in Families \cup Persons \cup Homes \cup {Blank} :
          Call(r, kind, headers, claimed, id)
    <3>1. CASE ListUserFamilies(r, headers, claimed)
        BY <3>1 DEF ListUserFamilies, Kinds
    <3>2. CASE \E f \in Families \cup {Blank} :
                 \/ GetFamily(r, headers, claimed, f) \/ ListFamilyMembers(r, headers, claimed, f)
                 \/ ListPersonProfilesByFamily(r, headers, claimed, f)
                 \/ ListIncomeHistoryByFamily(r, headers, claimed, f)
                 \/ ListHousingOptions(r, headers, claimed, f)
                 \/ ListHousingGroups(r, headers, claimed, f)
        BY <3>2 DEF GetFamily, ListFamilyMembers, ListPersonProfilesByFamily,
            ListIncomeHistoryByFamily, ListHousingOptions, ListHousingGroups, Kinds
    <3>3. CASE \E p \in Persons : GetPersonProfile(r, headers, claimed, p)
        BY <3>3 DEF GetPersonProfile, Kinds
    <3>4. CASE \E h \in Homes : GetHousingOption(r, headers, claimed, h)
        BY <3>4 DEF GetHousingOption, Kinds
    <3>5. QED BY <1>5, <3>1, <3>2, <3>3, <3>4 DEF Calls
  <2>2. QED BY <2>1, CallInv
<1>6. ASSUME NEW r \in Reqs, Finish(r) PROVE IInv'
    BY <1>6, MoveKeeps DEF Finish, Sound, Idle
<1>7. CASE UNCHANGED vars
    BY <1>1, <1>7 DEF vars
<1>8. QED
    BY <1>2, <1>3, <1>4, <1>5, <1>6, <1>7, AccessInv, ReadInv DEF Next

\* Calls and replies stay sound through every interleaving of the handlers'
\* statements with joins, writes, deletions, logouts and the migration.
THEOREM AccessInvariant == Spec => []IInv
BY InitIInv, StepInv, PTL DEF Spec

\* Rows reach only members of their family, and whoever is not one is told what
\* is said of a row that does not exist (auth_context.go:64-110,
\* people.go:104-252, housing.go:75-140, families.go:62-103, 154-195).
THEOREM OnlyMembersLearn == Spec => []StrangersLearnNothing
<1>1. IInv => StrangersLearnNothing
  <2> SUFFICES ASSUME IInv, NEW r \in Replies,
                      reqs[r].code \notin {"Unauthenticated", "InvalidArgument"}
               PROVE  LET Stranger(f) == ~Member(TokenUser[reqs[r].token], f)
                          Hidden(fam) == Stranger(fam) => reqs[r].code = "NotFound" IN
                      /\ \A row \in reqs[r].rows : ~Stranger(row.fam)
                      /\ reqs[r].kind \in FamilyLists /\ Stranger(reqs[r].id)
                           => reqs[r].code = "PermissionDenied"
                      /\ reqs[r].kind = "GetFamily" => Hidden(reqs[r].id)
                      /\ reqs[r].kind = "GetPersonProfile" /\ reqs[r].id \in DOMAIN persons =>
                           Hidden(persons[reqs[r].id].fam)
                      /\ reqs[r].kind = "GetHousingOption" /\ reqs[r].id \in DOMAIN homes =>
                           Hidden(homes[reqs[r].id])
      BY DEF StrangersLearnNothing
  <2>1. Learned(TokenUser[reqs[r].token], reqs[r].kind, reqs[r].id, reqs[r].code, reqs[r].rows)
      BY DEF IInv, Sound, Answered, Replies
  <2>2. QED BY <2>1 DEF Learned
<1>2. QED BY <1>1, AccessInvariant, PTL

\* A call whose session had ended or whose user was disabled is refused, whatever
\* headers it carries (auth_context.go:23-62).
THEOREM BarredAreRefused == Spec => []BarredCallsRefused
<1>1. IInv => BarredCallsRefused
    BY DEF IInv, Sound, Answered, BarredCallsRefused, Replies
<1>2. QED BY <1>1, AccessInvariant, PTL

\* A member gets every row that was there when they asked and still is, with the
\* link it had then, through the fallback, the migration and whatever is written
\* between the statements (auth_context.go:64-110, people.go:104-252).
THEOREM MembersGetTheirs == Spec => []MembersAreServed
<1>1. IInv => MembersAreServed
  <2> SUFFICES ASSUME IInv, NEW r \in Replies,
                      reqs[r].code \notin {"Unauthenticated", "InvalidArgument"},
                      NEW due \in reqs[r].owed, Stored(reqs[r].kind, due.id, due.fam)
               PROVE  \E row \in reqs[r].rows :
                         row.id = due.id /\ row.fam = due.fam /\ (due.linked => row.link # Blank)
      BY DEF MembersAreServed
  <2>1. Served(reqs[r].kind, reqs[r].rows, due)
      BY DEF IInv, Sound, Answered, Replies
  <2>2. ASSUME reqs[r].kind \in ProfileReads PROVE ~Gone(due.id)
      BY <2>2 DEF Stored, ProfileReads, Gone
  <2>3. ASSUME reqs[r].kind = "ListIncomeHistoryByFamily" PROVE ~Gone(due.id)
      BY <2>3 DEF Stored, ProfileReads, Gone
  <2>4. QED BY <2>1, <2>2, <2>3 DEF Served
<1>2. QED BY <1>1, AccessInvariant, PTL

=============================================================================
