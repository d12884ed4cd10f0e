----------------------------- MODULE AuthProofs -----------------------------
(***************************************************************************)
(* Proofs about Auth: administrators have changed the password, a key is   *)
(* used once, and the bootstrap touches accounts only while there is no    *)
(* active administrator, for any number of users, sessions, keys and       *)
(* handlers, and any crashes.                                              *)
(*                                                                         *)
(* A handler acts on what it read about its caller some statements ago.    *)
(* That the caller did change the password is still true when it acts      *)
(* because only the bootstrap takes it back, and the bootstrap runs before *)
(* the process serves (NobodyYet) and while no administrator is active     *)
(* (BootstrapAlone).                                                       *)
(***************************************************************************)
EXTENDS Auth, TLAPS

UserRow == [status : {"unborn", "active", "disabled"}, email : Emails,
            admin : BOOLEAN, must : BOOLEAN]
SessionRow == [status : {"unborn", "open", "revoked", "expired"},
               user : Users \cup {AnyUser}]
KeyRow == [status : {"unborn", "fresh", "used"}, expired : BOOLEAN,
           user : Users \cup {AnyUser}, uses : Nat]

\* A handler between two statements.
Plain == [pc : {"session", "verify", "newpw", "profile", "insertuser",
                "recheckgen", "insertkey"}, user : Users]
OnUser == [pc : {"disable", "revoke"}, user : Users, target : Users]
OnKey == [pc : {"recheckuse", "consume"}, user : Users, key : Keys,
          intime : BOOLEAN]

TypeOK ==
    /\ users \in [Users -> UserRow]
    /\ sessions \in [Sessions -> SessionRow]
    /\ keys \in [Keys -> KeyRow]
    /\ phase \in {"down", "ensure", "serving"}
    /\ reqs \in [Reqs -> {Idle} \cup Plain \cup OnUser \cup OnKey]
    /\ changed \subseteq Users

\* Sessions belong to users.
SessionsOwned == \A s \in Sessions : sessions[s].status = "open" => sessions[s].user \in Users

\* Who passes the administrator check has changed the password.
AdminsKnown == \A u \in Users : (users[u].admin /\ ~users[u].must) => u \in changed

\* No request is served before the bootstrap is over.
NobodyYet == phase # "serving" => \A r \in Reqs : reqs[r] = Idle

\* What HasActiveAdmin returned stays true until the bootstrap acts on it.
BootstrapAlone == phase = "ensure" => ActiveAdmins = {}

\* A key counts as used from its first use on.
UsesCounted ==
    \A k \in Keys : keys[k].uses = IF keys[k].status = "used" THEN 1 ELSE 0

IInv == /\ TypeOK /\ SessionsOwned /\ AdminsKnown /\ NobodyYet /\ BootstrapAlone
        /\ AdminsChangedPassword /\ UsesCounted

-----------------------------------------------------------------------------
(* Steps by what they change.                                              *)

\* A request that begins, fails or moves on, and changes no table.
LEMMA ReqStep ==
    ASSUME IInv, NEW r \in Reqs, UNCHANGED <<tables, phase, changed>>,
           reqs' = [reqs EXCEPT ![r] = reqs'[r]],
           reqs'[r] \in {Idle} \cup Plain \cup OnUser \cup OnKey,
           phase # "serving" => reqs'[r] = Idle,
           reqs'[r].pc \in AdminSteps => reqs'[r].user \in changed
    PROVE  IInv'
<1>1. UNCHANGED <<users, sessions, keys, phase, changed>>
  BY DEF tables
<1>2. TypeOK'
  BY <1>1 DEF IInv, TypeOK
<1>3. SessionsOwned' /\ AdminsKnown' /\ BootstrapAlone' /\ UsesCounted'
  BY <1>1 DEF IInv, SessionsOwned, AdminsKnown, BootstrapAlone, ActiveAdmins, Active,
              UsesCounted
<1>4. \A q \in Reqs \ {r} : reqs'[q] = reqs[q]
  BY DEF IInv, TypeOK
<1>5. NobodyYet'
  BY <1>1, <1>4 DEF IInv, NobodyYet
<1>6. AdminsChangedPassword'
  BY <1>1, <1>4 DEF IInv, AdminsChangedPassword
<1> QED BY <1>2, <1>3, <1>5, <1>6 DEF IInv

\* A handler that returns after changing a table, keeping what concerns
\* administrators: nobody loses a changed password.
LEMMA ReturnStep ==
    ASSUME IInv, NEW r \in Reqs, reqs[r].pc # "idle",
           Return(r), UNCHANGED phase,
           users' \in [Users -> UserRow], sessions' \in [Sessions -> SessionRow],
           keys' \in [Keys -> KeyRow], changed' \subseteq Users,
           changed \subseteq changed',
           SessionsOwned', AdminsKnown', UsesCounted'
    PROVE  IInv'
<1>1. phase = "serving"
  BY DEF IInv, NobodyYet, Idle
<1>2. /\ reqs' = [reqs EXCEPT ![r] = Idle] /\ reqs'[r] = Idle
      /\ \A q \in Reqs \ {r} : reqs'[q] = reqs[q]
  BY DEF Return, IInv, TypeOK
<1>3. TypeOK'
  BY <1>1, <1>2 DEF IInv, TypeOK
<1>4. NobodyYet' /\ BootstrapAlone'
  BY <1>1 DEF NobodyYet, BootstrapAlone
<1>5. AdminsChangedPassword'
  BY <1>2 DEF IInv, AdminsChangedPassword, Idle, AdminSteps
<1> QED BY <1>3, <1>4, <1>5 DEF IInv

-----------------------------------------------------------------------------
(* The process.                                                            *)

\* An empty database, and no process yet.
LEMMA InitInv ==
    ASSUME Init
    PROVE  IInv
<1>1. TypeOK
  <2>1. [status |-> "unborn", email |-> BootEmail, admin |-> FALSE, must |-> FALSE] \in UserRow
    BY AuthAssumption DEF UserRow
  <2>2. [status |-> "unborn", user |-> AnyUser] \in SessionRow
    BY DEF SessionRow
  <2>3. [status |-> "unborn", expired |-> FALSE, user |-> AnyUser, uses |-> 0] \in KeyRow
    BY DEF KeyRow
  <2>4. users \in [Users -> UserRow] /\ sessions \in [Sessions -> SessionRow]
    BY <2>1, <2>2 DEF Init
  <2>5. keys \in [Keys -> KeyRow] /\ changed \subseteq Users
    BY <2>3 DEF Init
  <2>6. reqs \in [Reqs -> {Idle} \cup Plain \cup OnUser \cup OnKey]
    BY DEF Init
  <2> QED BY <2>4, <2>5, <2>6 DEF Init, TypeOK
<1>2. SessionsOwned /\ AdminsKnown /\ NobodyYet /\ BootstrapAlone
  BY DEF Init, SessionsOwned, AdminsKnown, NobodyYet, BootstrapAlone
<1>3. AdminsChangedPassword /\ UsesCounted
  BY DEF Init, AdminsChangedPassword, AdminSteps, UsesCounted, Idle
<1> QED BY <1>1, <1>2, <1>3 DEF IInv

\* EnsureBootstrapAdmin goes on only when it saw no active administrator.
LEMMA BootCheckInv ==
    ASSUME IInv, BootCheck
    PROVE  IInv'
<1>1. UNCHANGED <<users, sessions, keys, reqs, changed>> /\ phase = "down"
  BY DEF BootCheck, tables
<1>2. phase' = IF ActiveAdmins # {} THEN "serving" ELSE "ensure"
  BY DEF BootCheck
<1>3. TypeOK'
  BY <1>1, <1>2 DEF IInv, TypeOK
<1>4. SessionsOwned' /\ AdminsKnown' /\ AdminsChangedPassword' /\ UsesCounted'
  BY <1>1 DEF IInv, SessionsOwned, AdminsKnown, AdminsChangedPassword, UsesCounted
<1>5. NobodyYet'
  BY <1>1 DEF IInv, NobodyYet
<1>6. ActiveAdmins' = ActiveAdmins
  BY <1>1 DEF ActiveAdmins, Active
<1>7. BootstrapAlone'
  BY <1>2, <1>6 DEF BootstrapAlone
<1> QED BY <1>3, <1>4, <1>5, <1>7 DEF IInv

\* The account the bootstrap promotes or creates has to change its password.
LEMMA BootAccountInv ==
    ASSUME IInv, BootPromote \/ BootCreate
    PROVE  IInv'
<1> DEFINE new == [status |-> "active", email |-> BootEmail, admin |-> TRUE, must |-> TRUE]
<1>1. PICK u \in Users : /\ users' = [users EXCEPT ![u] = new]
                         /\ changed' \in {changed, changed \ {u}}
  BY DEF BootPromote, BootCreate
<1>2. phase = "ensure" /\ phase' = "serving" /\ UNCHANGED <<sessions, keys, reqs>>
  BY DEF BootPromote, BootCreate
<1>3. new \in UserRow /\ new.must = TRUE
  BY AuthAssumption DEF UserRow
<1> HIDE DEF new
<1>4. users \in [Users -> UserRow]
  BY DEF IInv, TypeOK
<1>5. users' \in [Users -> UserRow]
  BY <1>1, <1>3, <1>4
<1>6. TypeOK'
  BY <1>1, <1>2, <1>5 DEF IInv, TypeOK
<1>7. SessionsOwned' /\ UsesCounted'
  BY <1>2 DEF IInv, SessionsOwned, UsesCounted
<1>8. NobodyYet' /\ BootstrapAlone'
  BY <1>2 DEF NobodyYet, BootstrapAlone
<1>9. AdminsKnown'
  <2>1. ASSUME NEW v \in Users, users'[v].admin, ~users'[v].must PROVE v \in changed'
    <3>1. v # u
      BY <1>1, <1>3, <1>4, <2>1
    <3>2. users'[v] = users[v]
      BY <1>1, <1>4, <3>1
    <3>3. v \in changed
      BY <3>2, <2>1 DEF IInv, AdminsKnown
    <3> QED BY <3>1, <3>3, <1>1
  <2> QED BY <2>1 DEF AdminsKnown
<1>10. AdminsChangedPassword'
  <2>1. \A r \in Reqs : reqs'[r] = Idle
    BY <1>2 DEF IInv, NobodyYet
  <2> QED BY <2>1 DEF AdminsChangedPassword, AdminSteps, Idle
<1> QED BY <1>6, <1>7, <1>8, <1>9, <1>10 DEF IInv

\* A crash loses the handlers and keeps the tables.
LEMMA CrashInv ==
    ASSUME IInv, Crash
    PROVE  IInv'
<1>1. /\ UNCHANGED <<users, sessions, keys, changed>> /\ phase' = "down"
      /\ reqs' = [r \in Reqs |-> Idle]
  BY DEF Crash, tables
<1>2. TypeOK'
  BY <1>1 DEF IInv, TypeOK
<1>3. SessionsOwned' /\ AdminsKnown' /\ UsesCounted' /\ BootstrapAlone' /\ NobodyYet'
  BY <1>1 DEF IInv, SessionsOwned, AdminsKnown, UsesCounted, BootstrapAlone, NobodyYet
<1>4. AdminsChangedPassword'
  BY <1>1 DEF AdminsChangedPassword, AdminSteps, Idle
<1> QED BY <1>2, <1>3, <1>4 DEF IInv

\* A key that expires counts as used or not as before.
LEMMA ExpireInv ==
    ASSUME IInv, Expire
    PROVE  IInv'
<1>1. UNCHANGED <<users, phase, reqs, changed>>
  BY DEF Expire
<1>2. \/ \E s \in Sessions : /\ sessions[s].status = "open"
                             /\ sessions' = [sessions EXCEPT ![s].status = "expired"]
                             /\ UNCHANGED keys
      \/ \E k \in Keys : /\ keys' = [keys EXCEPT ![k].expired = TRUE]
                         /\ UNCHANGED sessions
  BY DEF Expire
<1>3. sessions \in [Sessions -> SessionRow] /\ keys \in [Keys -> KeyRow]
  BY DEF IInv, TypeOK
<1>4. sessions' \in [Sessions -> SessionRow] /\ keys' \in [Keys -> KeyRow]
  <2>1. sessions' \in [Sessions -> SessionRow]
    BY <1>2, <1>3 DEF SessionRow
  <2>2. ASSUME NEW row \in KeyRow PROVE [row EXCEPT !.expired = TRUE] \in KeyRow
    BY DEF KeyRow
  <2>3. keys' \in [Keys -> KeyRow]
    BY <1>2, <1>3, <2>2
  <2> QED BY <2>1, <2>3
<1>5. SessionsOwned'
  BY <1>2, <1>3 DEF IInv, SessionsOwned, SessionRow
<1>6. UsesCounted'
  BY <1>2, <1>3 DEF IInv, UsesCounted, KeyRow
<1>7. TypeOK'
  BY <1>1, <1>4 DEF IInv, TypeOK
<1>8. ActiveAdmins' = ActiveAdmins
  BY <1>1 DEF ActiveAdmins, Active
<1>9. AdminsKnown' /\ NobodyYet' /\ BootstrapAlone' /\ AdminsChangedPassword'
  BY <1>1, <1>8 DEF IInv, AdminsKnown, NobodyYet, BootstrapAlone, AdminsChangedPassword
<1> QED BY <1>5, <1>6, <1>7, <1>9 DEF IInv

-----------------------------------------------------------------------------
(* Handlers.                                                               *)

\* What the checks in front of a handler establish about its caller.
LEMMA Caller ==
    ASSUME IInv, NEW s \in Sessions, Authenticated(s)
    PROVE  /\ sessions[s].user \in Users
           /\ AuthenticatedAdmin(s) => sessions[s].user \in changed
<1>1. sessions[s].user \in Users
  BY DEF Authenticated, IInv, SessionsOwned
<1> QED BY <1>1 DEF AuthenticatedAdmin, IInv, AdminsKnown

\* A request passes the checks in front of its handler.
LEMMA BeginStep ==
    ASSUME IInv, NEW r \in Reqs, NEW q \in Plain \cup OnUser \cup OnKey, Begin(r, q),
           q.pc \in AdminSteps => q.user \in changed
    PROVE  IInv'
<1>1. /\ phase = "serving" /\ reqs' = [reqs EXCEPT ![r] = q]
      /\ UNCHANGED <<tables, phase, changed>>
  BY DEF Begin
<1>2. reqs'[r] = q /\ reqs' = [reqs EXCEPT ![r] = reqs'[r]]
  BY <1>1 DEF IInv, TypeOK
<1> QED BY <1>1, <1>2, ReqStep

\* Every handler begins with what those checks read.
LEMMA BeginsInv ==
    ASSUME IInv, NEW r \in Reqs,
           \/ Login(r) \/ BeginChangePassword(r) \/ BeginUpdateAccount(r)
           \/ BeginCreateUser(r) \/ BeginDisable(r) \/ BeginGenerateKey(r)
           \/ BeginConsumeKey(r)
    PROVE  IInv'
<1>1. CASE Login(r)
  <2>1. PICK u \in Users : Begin(r, [pc |-> "session", user |-> u])
    BY <1>1 DEF Login
  <2>2. [pc |-> "session", user |-> u] \in Plain
    BY DEF Plain
  <2>3. [pc |-> "session", user |-> u].pc \notin AdminSteps
    BY DEF AdminSteps
  <2> QED BY <2>1, <2>2, <2>3, BeginStep
<1>2. CASE BeginChangePassword(r)
  <2>1. PICK s \in Sessions : /\ Authenticated(s)
                              /\ Begin(r, [pc |-> "verify", user |-> sessions[s].user])
    BY <1>2 DEF BeginChangePassword
  <2>2. [pc |-> "verify", user |-> sessions[s].user] \in Plain
    BY <2>1, Caller DEF Plain
  <2>3. [pc |-> "verify", user |-> sessions[s].user].pc \notin AdminSteps
    BY DEF AdminSteps
  <2> QED BY <2>1, <2>2, <2>3, BeginStep
<1>3. CASE BeginUpdateAccount(r)
  <2>1. PICK s \in Sessions : /\ Authenticated(s)
                              /\ Begin(r, [pc |-> "profile", user |-> sessions[s].user])
    BY <1>3 DEF BeginUpdateAccount
  <2>2. [pc |-> "profile", user |-> sessions[s].user] \in Plain
    BY <2>1, Caller DEF Plain
  <2>3. [pc |-> "profile", user |-> sessions[s].user].pc \notin AdminSteps
    BY DEF AdminSteps
  <2> QED BY <2>1, <2>2, <2>3, BeginStep
<1>4. CASE BeginCreateUser(r)
  <2>1. PICK s \in Sessions : /\ AuthenticatedAdmin(s)
                              /\ Begin(r, [pc |-> "insertuser", user |-> sessions[s].user])
    BY <1>4 DEF BeginCreateUser
  <2>2. sessions[s].user \in Users /\ sessions[s].user \in changed
    BY <2>1, Caller DEF AuthenticatedAdmin
  <2>3. [pc |-> "insertuser", user |-> sessions[s].user] \in Plain
    BY <2>2 DEF Plain
  <2> QED BY <2>1, <2>2, <2>3, BeginStep
<1>5. CASE BeginDisable(r)
  <2>1. PICK s \in Sessions, v \in Users :
          /\ AuthenticatedAdmin(s)
          /\ Begin(r, [pc |-> "disable", user |-> sessions[s].user, target |-> v])
    BY <1>5 DEF BeginDisable
  <2>2. sessions[s].user \in Users /\ sessions[s].user \in changed
    BY <2>1, Caller DEF AuthenticatedAdmin
  <2>3. [pc |-> "disable", user |-> sessions[s].user, target |-> v] \in OnUser
    BY <2>2 DEF OnUser
  <2> QED BY <2>1, <2>2, <2>3, BeginStep
<1>6. CASE BeginGenerateKey(r)
  <2>1. PICK s \in Sessions : /\ AuthenticatedAdmin(s)
                              /\ Begin(r, [pc |-> "recheckgen", user |-> sessions[s].user])
    BY <1>6 DEF BeginGenerateKey
  <2>2. sessions[s].user \in Users /\ sessions[s].user \in changed
    BY <2>1, Caller DEF AuthenticatedAdmin
  <2>3. [pc |-> "recheckgen", user |-> sessions[s].user] \in Plain
    BY <2>2 DEF Plain
  <2> QED BY <2>1, <2>2, <2>3, BeginStep
<1>7. CASE BeginConsumeKey(r)
  <2>1. PICK s \in Sessions, k \in Keys :
          /\ AuthenticatedAdmin(s)
          /\ Begin(r, [pc |-> "recheckuse", user |-> sessions[s].user, key |-> k,
                       intime |-> ~keys[k].expired])
    BY <1>7 DEF BeginConsumeKey
  <2>2. sessions[s].user \in Users /\ sessions[s].user \in changed
    BY <2>1, Caller DEF AuthenticatedAdmin
  <2>3. [pc |-> "recheckuse", user |-> sessions[s].user, key |-> k,
         intime |-> ~keys[k].expired] \in OnKey
    BY <2>2 DEF OnKey
  <2> QED BY <2>1, <2>2, <2>3, BeginStep
<1> QED BY <1>1, <1>2, <1>3, <1>4, <1>5, <1>6, <1>7

\* A handler that failed.
LEMMA FailInv ==
    ASSUME IInv, NEW r \in Reqs, Return(r), UNCHANGED <<tables, phase, changed>>
    PROVE  IInv'
<1>1. reqs' = [reqs EXCEPT ![r] = Idle]
  BY DEF Return
<1>2. reqs'[r] = Idle /\ reqs' = [reqs EXCEPT ![r] = reqs'[r]]
  BY <1>1 DEF IInv, TypeOK
<1>3. Idle.pc \notin AdminSteps
  BY DEF Idle, AdminSteps
<1> QED BY <1>2, <1>3, ReqStep

\* The request of a handler in flight, by its statement.
LEMMA AtStep ==
    ASSUME IInv, NEW r \in Reqs
    PROVE  /\ reqs[r].pc \in {"session", "verify", "newpw", "profile", "insertuser",
                              "recheckgen", "insertkey"} => reqs[r] \in Plain
           /\ reqs[r].pc \in {"disable", "revoke"} => reqs[r] \in OnUser
           /\ reqs[r].pc \in {"recheckuse", "consume"} => reqs[r] \in OnKey
<1>1. reqs[r] \in {Idle} \cup Plain \cup OnUser \cup OnKey
  BY DEF IInv, TypeOK
<1> QED BY <1>1 DEF Idle, Plain, OnUser, OnKey

\* A check in the middle of a handler that lets it pass.
LEMMA GotoInv ==
    ASSUME IInv, NEW r \in Reqs, NEW step, Goto(r, step),
           UNCHANGED <<tables, phase, changed>>,
           \/ At(r, "verify") /\ step = "newpw"
           \/ At(r, "recheckgen") /\ step = "insertkey"
           \/ At(r, "recheckuse") /\ step = "consume"
    PROVE  IInv'
<1>1. reqs' = [reqs EXCEPT ![r].pc = step]
  BY DEF Goto
<1>2. reqs'[r] = [reqs[r] EXCEPT !.pc = step] /\ reqs' = [reqs EXCEPT ![r] = reqs'[r]]
  BY <1>1 DEF IInv, TypeOK
<1>3. /\ reqs'[r] \in Plain \cup OnKey
      /\ reqs'[r].pc = step /\ reqs'[r].user = reqs[r].user
  <2>1. CASE At(r, "recheckuse")
    BY <2>1, <1>2, AtStep DEF At, OnKey
  <2>2. CASE At(r, "verify") \/ At(r, "recheckgen")
    BY <2>2, <1>2, AtStep DEF At, Plain
  <2> QED BY <2>1, <2>2
<1>4. phase = "serving"
  BY DEF IInv, NobodyYet, At, Idle
<1>5. reqs'[r].pc \in AdminSteps => reqs'[r].user \in changed
  BY <1>3 DEF IInv, AdminsChangedPassword, AdminSteps, At
<1> QED BY <1>2, <1>3, <1>4, <1>5, ReqStep

\* CreateSession stores a session of the user who logged in.
LEMMA CreateSessionInv ==
    ASSUME IInv, NEW r \in Reqs, CreateSession(r)
    PROVE  IInv'
<1>1. PICK s \in Sessions :
        sessions' = [sessions EXCEPT ![s] = [status |-> "open", user |-> reqs[r].user]]
  BY DEF CreateSession
<1>2. At(r, "session") /\ Return(r) /\ UNCHANGED <<users, keys, phase, changed>>
  BY DEF CreateSession
<1>3. reqs[r].user \in Users
  BY <1>2, AtStep DEF At, Plain
<1>4. [status |-> "open", user |-> reqs[r].user] \in SessionRow
  BY <1>3 DEF SessionRow
<1>5. TypeOK /\ SessionsOwned
  BY DEF IInv
<1>6. sessions' \in [Sessions -> SessionRow] /\ SessionsOwned'
  BY <1>1, <1>3, <1>4, <1>5 DEF TypeOK, SessionsOwned
<1>7. /\ users' \in [Users -> UserRow] /\ keys' \in [Keys -> KeyRow]
      /\ changed' \subseteq Users
  BY <1>2, <1>5 DEF TypeOK
<1>8. AdminsKnown' /\ UsesCounted'
  BY <1>2 DEF IInv, AdminsKnown, UsesCounted
<1>9. reqs[r].pc # "idle" /\ changed \subseteq changed'
  BY <1>2 DEF At
<1> QED BY <1>2, <1>6, <1>7, <1>8, <1>9, ReturnStep

\* RevokeUserSessions closes sessions and opens none.
LEMMA RevokeSessionsInv ==
    ASSUME IInv, NEW r \in Reqs, RevokeSessions(r)
    PROVE  IInv'
<1>1. sessions' = [s \in Sessions |->
                     IF sessions[s].user = reqs[r].target /\ sessions[s].status = "open"
                     THEN [sessions[s] EXCEPT !.status = "revoked"]
                     ELSE sessions[s]]
  BY DEF RevokeSessions
<1>2. At(r, "revoke") /\ Return(r) /\ UNCHANGED <<users, keys, phase, changed>>
  BY DEF RevokeSessions
<1>3. TypeOK /\ SessionsOwned
  BY DEF IInv
<1>4. sessions' \in [Sessions -> SessionRow]
  BY <1>1, <1>3 DEF TypeOK, SessionRow
<1>5. SessionsOwned'
  BY <1>1, <1>3 DEF TypeOK, SessionRow, SessionsOwned
<1>6. /\ users' \in [Users -> UserRow] /\ keys' \in [Keys -> KeyRow]
      /\ changed' \subseteq Users
  BY <1>2, <1>3 DEF TypeOK
<1>7. AdminsKnown' /\ UsesCounted'
  BY <1>2 DEF IInv, AdminsKnown, UsesCounted
<1>8. reqs[r].pc # "idle" /\ changed \subseteq changed'
  BY <1>2 DEF At
<1> QED BY <1>2, <1>4, <1>5, <1>6, <1>7, <1>8, ReturnStep

\* What the handlers do to an account, short of disabling it.
LEMMA AccountStep ==
    ASSUME IInv, NEW r \in Reqs,
           UpdateUserPassword(r) \/ UpdateUserAccount(r) \/ InsertUser(r)
    PROVE  /\ users' \in [Users -> UserRow]
           /\ AdminsKnown'
           /\ changed' \subseteq Users /\ changed \subseteq changed'
           /\ \A u \in Users : Exists(u) => /\ users'[u].admin = users[u].admin
                                            /\ users'[u].status = users[u].status
<1>1. users \in [Users -> UserRow] /\ changed \subseteq Users
  BY DEF IInv, TypeOK
<1>2. CASE UpdateUserPassword(r)
  <2>1. /\ users' = [users EXCEPT ![reqs[r].user].must = FALSE]
        /\ changed' = changed \cup {reqs[r].user}
    BY <1>2 DEF UpdateUserPassword
  <2>2. reqs[r].user \in Users
    BY <1>2, AtStep DEF UpdateUserPassword, At, Plain
  <2>3. \A u \in Users \ {reqs[r].user} : users'[u] = users[u]
    BY <1>1, <2>1
  <2>4. users'[reqs[r].user] = [users[reqs[r].user] EXCEPT !.must = FALSE]
    BY <1>1, <2>1, <2>2
  <2>5. users' \in [Users -> UserRow]
    BY <1>1, <2>1 DEF UserRow
  <2>6. AdminsKnown'
    BY <2>1, <2>3 DEF IInv, AdminsKnown
  <2> QED BY <1>1, <2>1, <2>2, <2>3, <2>4, <2>5, <2>6 DEF UserRow
<1>3. CASE UpdateUserAccount(r)
  <2>1. PICK e \in Emails : users' = [users EXCEPT ![reqs[r].user].email = e]
    BY <1>3 DEF UpdateUserAccount
  <2>2. changed' = changed
    BY <1>3 DEF UpdateUserAccount
  <2>3. users' \in [Users -> UserRow]
    BY <1>1, <2>1 DEF UserRow
  <2>4. \A u \in Users : /\ users'[u].admin = users[u].admin
                         /\ users'[u].must = users[u].must
                         /\ users'[u].status = users[u].status
    BY <1>1, <2>1 DEF UserRow
  <2>5. AdminsKnown'
    BY <2>2, <2>4 DEF IInv, AdminsKnown
  <2> QED BY <1>1, <2>2, <2>3, <2>4, <2>5
<1>4. CASE InsertUser(r)
  <2>1. PICK u \in Users, e \in Emails, isAdmin \in BOOLEAN :
          /\ ~Exists(u)
          /\ users' = [users EXCEPT ![u] = [status |-> "active", email |-> e,
                                            admin |-> isAdmin, must |-> isAdmin]]
    BY <1>4 DEF InsertUser
  <2>2. changed' = changed
    BY <1>4 DEF InsertUser
  <2>3. [status |-> "active", email |-> e, admin |-> isAdmin, must |-> isAdmin] \in UserRow
    BY DEF UserRow
  <2>4. users' \in [Users -> UserRow]
    BY <1>1, <2>1, <2>3
  <2>5. \A v \in Users \ {u} : users'[v] = users[v]
    BY <1>1, <2>1
  <2>6. ~(users'[u].admin /\ ~users'[u].must)
    BY <1>1, <2>1
  <2>7. AdminsKnown'
    BY <2>2, <2>5, <2>6 DEF IInv, AdminsKnown
  <2> QED BY <1>1, <2>1, <2>2, <2>4, <2>5, <2>7
<1> QED BY <1>2, <1>3, <1>4

\* Handlers that write one account.
LEMMA AccountInv ==
    ASSUME IInv, NEW r \in Reqs,
           UpdateUserPassword(r) \/ UpdateUserAccount(r) \/ InsertUser(r)
    PROVE  IInv'
<1>1. Return(r) /\ reqs[r].pc # "idle" /\ UNCHANGED <<sessions, keys, phase>>
  BY DEF UpdateUserPassword, UpdateUserAccount, InsertUser, At
<1>2. /\ sessions' \in [Sessions -> SessionRow] /\ keys' \in [Keys -> KeyRow]
      /\ SessionsOwned' /\ UsesCounted'
  BY <1>1 DEF IInv, TypeOK, SessionsOwned, UsesCounted
<1>3. /\ users' \in [Users -> UserRow]
      /\ AdminsKnown'
      /\ changed' \subseteq Users /\ changed \subseteq changed'
  BY AccountStep
<1>4. UNCHANGED phase
  BY <1>1
<1> QED BY <1>1, <1>2, <1>3, <1>4, ReturnStep

\* The first half of DisableUser: the handler goes on to revoke the sessions.
LEMMA DisableUserInv ==
    ASSUME IInv, NEW r \in Reqs, DisableUser(r)
    PROVE  IInv'
<1>1. /\ At(r, "disable") /\ UNCHANGED <<sessions, keys, phase, changed>>
      /\ users' = [users EXCEPT ![reqs[r].target].status = "disabled"]
      /\ reqs' = [reqs EXCEPT ![r].pc = "revoke"]
  BY DEF DisableUser, Goto
<1>2. reqs[r] \in OnUser
  BY <1>1, AtStep DEF At
<1>3. TypeOK
  BY DEF IInv
<1>4. /\ reqs'[r] = [reqs[r] EXCEPT !.pc = "revoke"]
      /\ \A q \in Reqs \ {r} : reqs'[q] = reqs[q]
  BY <1>1, <1>3 DEF TypeOK
<1>5. reqs'[r] \in OnUser /\ reqs'[r].user = reqs[r].user
  BY <1>2, <1>4 DEF OnUser
<1>6. reqs' \in [Reqs -> {Idle} \cup Plain \cup OnUser \cup OnKey]
  BY <1>1, <1>3, <1>4, <1>5 DEF TypeOK
<1>7. users \in [Users -> UserRow]
  BY <1>3 DEF TypeOK
<1>8. users' \in [Users -> UserRow]
  BY <1>1, <1>7 DEF UserRow
<1>9. \A u \in Users : users'[u].admin = users[u].admin /\ users'[u].must = users[u].must
  BY <1>1, <1>7 DEF UserRow
<1>10. TypeOK'
  BY <1>1, <1>3, <1>6, <1>8 DEF TypeOK
<1>11. SessionsOwned' /\ UsesCounted'
  BY <1>1 DEF IInv, SessionsOwned, UsesCounted
<1>12. AdminsKnown'
  BY <1>1, <1>9 DEF IInv, AdminsKnown
<1>13. phase = "serving"
  BY <1>1 DEF IInv, NobodyYet, At, Idle
<1>14. NobodyYet' /\ BootstrapAlone'
  BY <1>1, <1>13 DEF NobodyYet, BootstrapAlone
<1>15. AdminsChangedPassword'
  BY <1>1, <1>4, <1>5 DEF IInv, AdminsChangedPassword, AdminSteps, At
<1> QED BY <1>10, <1>11, <1>12, <1>14, <1>15 DEF IInv

\* A key is born unused, and used only if it is fresh.
LEMMA KeyInv ==
    ASSUME IInv, NEW r \in Reqs, InsertKey(r) \/ ConsumeKey(r)
    PROVE  IInv'
<1>1. Return(r) /\ reqs[r].pc # "idle" /\ UNCHANGED <<users, sessions, phase, changed>>
  BY DEF InsertKey, ConsumeKey, At
<1>2. keys \in [Keys -> KeyRow] /\ UsesCounted
  BY DEF IInv, TypeOK
<1>3. keys' \in [Keys -> KeyRow] /\ UsesCounted'
  <2>1. CASE InsertKey(r)
    <3>1. PICK k \in Keys : keys' = [keys EXCEPT ![k] =
                              [status |-> "fresh", expired |-> FALSE,
                               user |-> reqs[r].user, uses |-> 0]]
      BY <2>1 DEF InsertKey
    <3>2. reqs[r].user \in Users
      BY <2>1, AtStep DEF InsertKey, At, Plain
    <3>3. [status |-> "fresh", expired |-> FALSE,
                               user |-> reqs[r].user, uses |-> 0] \in KeyRow
      BY <3>2 DEF KeyRow
    <3>4. keys' \in [Keys -> KeyRow]
      BY <1>2, <3>1, <3>3
    <3>5. UsesCounted'
      BY <1>2, <3>1 DEF UsesCounted
    <3> QED BY <3>4, <3>5
  <2>2. CASE ConsumeKey(r) /\ ~Consumable(reqs[r].key, reqs[r].user, reqs[r].intime)
    <3>1. keys' = keys
      BY <2>2 DEF ConsumeKey
    <3> QED BY <3>1, <1>2 DEF UsesCounted
  <2>3. CASE ConsumeKey(r) /\ Consumable(reqs[r].key, reqs[r].user, reqs[r].intime)
    <3> DEFINE k == reqs[r].key
    <3>1. keys' = [keys EXCEPT ![k].status = "used", ![k].uses = @ + 1]
      BY <2>3 DEF ConsumeKey
    <3>2. k \in Keys
      BY <2>3, AtStep DEF ConsumeKey, At, OnKey
    <3>3. keys[k].status = "fresh" /\ keys[k].uses = 0
      BY <2>3, <3>2, <1>2 DEF Consumable, UsesCounted
    <3> HIDE DEF k
    <3>4. keys'[k] = [keys[k] EXCEPT !.status = "used", !.uses = keys[k].uses + 1]
      BY <1>2, <3>1, <3>2 DEF KeyRow
    <3>5. keys[k] = [status |-> keys[k].status, expired |-> keys[k].expired,
                     user |-> keys[k].user, uses |-> keys[k].uses]
          /\ keys[k].expired \in BOOLEAN /\ keys[k].user \in Users \cup {AnyUser}
      BY <1>2, <3>2 DEF KeyRow
    <3>6. keys'[k] \in KeyRow /\ keys'[k].status = "used" /\ keys'[k].uses = 1
      <4>1. keys'[k] = [status |-> "used", expired |-> keys[k].expired,
                         user |-> keys[k].user, uses |-> 1]
        <5>1. keys[k].uses + 1 = 1
          BY <3>3
        <5>2. DOMAIN keys[k] = {"status", "expired", "user", "uses"}
          BY <3>5
        <5>3. keys'[k] = [f \in DOMAIN keys[k] |->
                            IF f = "uses" THEN 1
                            ELSE IF f = "status" THEN "used" ELSE keys[k][f]]
          BY <3>4, <5>1, <5>2
        <5> QED BY <5>2, <5>3
      <4> QED BY <4>1, <3>5 DEF KeyRow
    <3>7. \A j \in Keys \ {k} : keys'[j] = keys[j]
      BY <1>2, <3>1
    <3>8. keys' \in [Keys -> KeyRow]
      BY <1>2, <3>1, <3>6, <3>7
    <3>9. UsesCounted'
      BY <1>2, <3>6, <3>7 DEF UsesCounted
    <3> QED BY <3>8, <3>9
  <2> QED BY <2>1, <2>2, <2>3
<1>4. /\ users' \in [Users -> UserRow] /\ sessions' \in [Sessions -> SessionRow]
      /\ changed' \subseteq Users /\ changed \subseteq changed' /\ UNCHANGED phase
  BY <1>1 DEF IInv, TypeOK
<1>5. SessionsOwned' /\ AdminsKnown'
  BY <1>1 DEF IInv, SessionsOwned, AdminsKnown
<1> QED BY <1>1, <1>3, <1>4, <1>5, ReturnStep

-----------------------------------------------------------------------------
(* Theorems.                                                               *)

\* No step breaks the invariant.
LEMMA NextInv ==
    ASSUME IInv, [Next]_vars
    PROVE  IInv'
<1>1. CASE UNCHANGED vars
  <2>1. UNCHANGED <<users, sessions, keys, phase, reqs, changed>>
    BY <1>1 DEF vars
  <2>2. ActiveAdmins' = ActiveAdmins
    BY <2>1 DEF ActiveAdmins, Active
  <2> QED BY <2>1, <2>2 DEF IInv, TypeOK, SessionsOwned, AdminsKnown, NobodyYet,
             BootstrapAlone, AdminsChangedPassword, UsesCounted
<1>2. CASE BootCheck
  BY <1>2, BootCheckInv
<1>3. CASE BootPromote \/ BootCreate
  BY <1>3, BootAccountInv
<1>4. CASE Crash
  BY <1>4, CrashInv
<1>5. CASE Expire
  BY <1>5, ExpireInv
<1>6. ASSUME NEW r \in Reqs, Fail(r) PROVE IInv'
  BY <1>6, FailInv DEF Fail
<1>7. ASSUME NEW r \in Reqs, VerifyCurrent(r) \/ RecheckGenerate(r) \/ RecheckConsume(r)
      PROVE  IInv'
  <2>1. UNCHANGED <<tables, phase, changed>>
    BY <1>7 DEF VerifyCurrent, RecheckGenerate, RecheckConsume
  <2>2. \/ Return(r)
        \/ At(r, "verify") /\ Goto(r, "newpw")
        \/ At(r, "recheckgen") /\ Goto(r, "insertkey")
        \/ At(r, "recheckuse") /\ Goto(r, "consume")
    BY <1>7 DEF VerifyCurrent, RecheckGenerate, RecheckConsume
  <2> QED BY <2>1, <2>2, FailInv, GotoInv
<1>8. ASSUME NEW r \in Reqs,
             \/ Login(r) \/ BeginChangePassword(r) \/ BeginUpdateAccount(r)
             \/ BeginCreateUser(r) \/ BeginDisable(r) \/ BeginGenerateKey(r)
             \/ BeginConsumeKey(r)
      PROVE  IInv'
  BY <1>8, BeginsInv
<1>9. ASSUME NEW r \in Reqs, CreateSession(r) \/ RevokeSessions(r) PROVE IInv'
  BY <1>9, CreateSessionInv, RevokeSessionsInv
<1>10. ASSUME NEW r \in Reqs,
              UpdateUserPassword(r) \/ UpdateUserAccount(r) \/ InsertUser(r)
       PROVE  IInv'
  BY <1>10, AccountInv
<1>11. ASSUME NEW r \in Reqs, DisableUser(r) PROVE IInv'
  BY <1>11, DisableUserInv
<1>12. ASSUME NEW r \in Reqs, InsertKey(r) \/ ConsumeKey(r) PROVE IInv'
  BY <1>12, KeyInv
<1> QED BY <1>1, <1>2, <1>3, <1>4, <1>5, <1>6, <1>7, <1>8, <1>9, <1>10, <1>11, <1>12
        DEF Next

\* Every reachable state of accounts, sessions, keys and handlers satisfies IInv.
THEOREM Inductive == Spec => []IInv
<1>1. Init => IInv
  BY InitInv
<1>2. IInv /\ [Next]_vars => IInv'
  BY NextInv
<1> QED BY <1>1, <1>2, PTL DEF Spec

\* README.md:205 and auth.go:76-85: nobody is past the administrator check
\* without having changed the password since becoming an administrator.
THEOREM AdminsHaveChanged == Spec => []AdminsChangedPassword
<1>1. IInv => AdminsChangedPassword
  BY DEF IInv
<1> QED BY <1>1, Inductive, PTL

\* CHANGELOG.md:177: a one-time access key is consumed once at most, whichever
\* requests overlap, and whether or not it expires under them.
THEOREM KeysAreOneTime == Spec => []KeyUsedOnce
<1>1. IInv => KeyUsedOnce
  BY DEF IInv, UsesCounted, KeyUsedOnce
<1> QED BY <1>1, Inductive, PTL

\* A step that makes somebody an administrator, or active again, or that touches
\* accounts before the process serves, is the bootstrap's.
LEMMA BootstrapStep ==
    ASSUME IInv, [Next]_vars,
           \/ phase # "serving" /\ users' # users
           \/ \E u \in Users :
               /\ Exists(u)
               /\ \/ users'[u].admin /\ ~users[u].admin
                  \/ users[u].status = "disabled" /\ users'[u].status = "active"
    PROVE  ActiveAdmins = {}
<1>1. CASE BootPromote \/ BootCreate
  <2>1. phase = "ensure"
    BY <1>1 DEF BootPromote, BootCreate
  <2> QED BY <2>1 DEF IInv, BootstrapAlone
<1>2. CASE UNCHANGED users
  BY <1>2
<1>3. ASSUME NEW r \in Reqs,
             UpdateUserPassword(r) \/ UpdateUserAccount(r) \/ InsertUser(r)
      PROVE  FALSE
  <2>1. phase = "serving"
    BY <1>3 DEF UpdateUserPassword, UpdateUserAccount, InsertUser, At, IInv, NobodyYet, Idle
  <2>2. \A u \in Users : Exists(u) => /\ users'[u].admin = users[u].admin
                                      /\ users'[u].status = users[u].status
    BY <1>3, AccountStep
  <2> QED BY <2>1, <2>2
<1>4. ASSUME NEW r \in Reqs, DisableUser(r) PROVE FALSE
  <2>1. phase = "serving"
    BY <1>4 DEF DisableUser, At, IInv, NobodyYet, Idle
  <2>2. users' = [users EXCEPT ![reqs[r].target].status = "disabled"]
    BY <1>4 DEF DisableUser
  <2>3. users \in [Users -> UserRow]
    BY DEF IInv, TypeOK
  <2>4. \A u \in Users : /\ users'[u].admin = users[u].admin
                         /\ users'[u].status \in {users[u].status, "disabled"}
    BY <2>2, <2>3 DEF UserRow
  <2> QED BY <2>1, <2>4
<1>5. ASSUME NEW r \in Reqs,
             \/ Fail(r) \/ Login(r) \/ CreateSession(r)
             \/ BeginChangePassword(r) \/ VerifyCurrent(r) \/ BeginUpdateAccount(r)
             \/ BeginCreateUser(r) \/ BeginDisable(r) \/ RevokeSessions(r)
             \/ BeginGenerateKey(r) \/ RecheckGenerate(r) \/ InsertKey(r)
             \/ BeginConsumeKey(r) \/ RecheckConsume(r) \/ ConsumeKey(r)
      PROVE  UNCHANGED users
  BY <1>5 DEF Fail, Login, CreateSession, BeginChangePassword, VerifyCurrent,
     BeginUpdateAccount, BeginCreateUser, BeginDisable, RevokeSessions, BeginGenerateKey,
     RecheckGenerate, InsertKey, BeginConsumeKey, RecheckConsume, ConsumeKey, Begin, tables
<1>6. CASE BootCheck \/ Crash \/ Expire \/ UNCHANGED vars
  BY <1>2, <1>6 DEF BootCheck, Crash, Expire, vars, tables
<1> QED BY <1>1, <1>2, <1>3, <1>4, <1>5, <1>6 DEF Next

\* README.md:206, "If any active admin already exists, bootstrap is skipped": the
\* accounts change under a starting process, and an existing account becomes an
\* administrator or active again, only while nobody is an active administrator.
THEOREM BootstrapNeedsNoAdmin == Spec => BootstrapOnlyWithoutAdmin
<1> DEFINE A == (\/ phase # "serving" /\ users' # users
                 \/ \E u \in Users :
                     /\ Exists(u)
                     /\ \/ users'[u].admin /\ ~users[u].admin
                        \/ users[u].status = "disabled" /\ users'[u].status = "active")
                => ActiveAdmins = {}
<1>1. IInv /\ [Next]_vars => [A]_vars
  BY BootstrapStep
<1>2. Spec => [][A]_vars
  BY <1>1, Inductive, PTL DEF Spec
<1> QED BY <1>2 DEF BootstrapOnlyWithoutAdmin
=============================================================================
