-------------------------------- MODULE Auth --------------------------------
(***************************************************************************)
(* Accounts, sessions and one-time admin access keys                       *)
(* (internal/server/auth.go, auth_context.go, internal/service/auth.go,    *)
(* internal/repository/postgres/users.go) and the bootstrap of the first   *)
(* administrator when the process starts (cmd/core/main.go).               *)
(*                                                                         *)
(* A handler is a sequence of single statements on the pool; between them  *)
(* other handlers run, the request may fail, or the process may die and    *)
(* start again, while the tables stay.  Whether a password given by a      *)
(* client verifies, and when a session or key expires, is a free choice.   *)
(* The limiter in front of the password operations only ever refuses a     *)
(* request and is a module of its own.                                     *)
(***************************************************************************)
EXTENDS Naturals, FiniteSets

CONSTANTS
    Users,      \* user ids
    Emails,     \* normalised email addresses
    BootEmail,  \* BOOTSTRAP_ADMIN_EMAIL
    Sessions,   \* session ids (and the hash of the token)
    Keys,       \* access key ids (and the hash of the key)
    Reqs        \* handlers in flight

ASSUME AuthAssumption == BootEmail \in Emails

VARIABLES
    users,      \* table users: status, email, is_admin, must_change_password
    sessions,   \* table sessions: unborn, open, revoked or expired, and the user
    keys,       \* table admin_access_keys: unborn, fresh or used (used_at), whether
                \* expires_at has passed, the user, and (history) how often granted
    phase,      \* where main is: not running, in EnsureBootstrapAdmin, serving
    reqs,       \* handlers
    changed     \* history: who changed the password since becoming admin

tables == <<users, sessions, keys>>
vars == <<users, sessions, keys, phase, reqs, changed>>

Idle == [pc |-> "idle"]

AnyUser == CHOOSE u \in Users : TRUE

Init ==
    /\ users = [u \in Users |-> [status |-> "unborn", email |-> BootEmail,
                                 admin |-> FALSE, must |-> FALSE]]
    /\ sessions = [s \in Sessions |-> [status |-> "unborn", user |-> AnyUser]]
    /\ keys = [k \in Keys |-> [status |-> "unborn", expired |-> FALSE,
                               user |-> AnyUser, uses |-> 0]]
    /\ phase = "down"
    /\ reqs = [r \in Reqs |-> Idle]
    /\ changed = {}

Exists(u) == users[u].status # "unborn"
Active(u) == users[u].status = "active"
EmailTaken(e) == \E u \in Users : Exists(u) /\ users[u].email = e
ActiveAdmins == {u \in Users : Active(u) /\ users[u].admin}

-----------------------------------------------------------------------------
(* The process.                                                            *)

\* Fault: an administrator who has not changed the password yet is not seen.
BootCheck_IgnoresNew ==
    /\ phase = "down"
    /\ phase' = IF \E u \in ActiveAdmins : ~users[u].must THEN "serving" ELSE "ensure"
    /\ UNCHANGED <<tables, reqs, changed>>

\* EnsureBootstrapAdmin (both variables are set): HasActiveAdmin, and serve at
\* once if there is one.
BootCheck ==
    /\ phase = "down"
    /\ phase' = IF ActiveAdmins # {} THEN "serving" ELSE "ensure"
    /\ UNCHANGED <<tables, reqs, changed>>

\* Fault: the promotion does not ask for a password change.
BootPromote_NoChange ==
    /\ phase = "ensure"
    /\ \E u \in Users :
        /\ Exists(u) /\ users[u].email = BootEmail
        /\ users' = [users EXCEPT ![u].status = "active", ![u].admin = TRUE]
        /\ changed' = changed \ {u}
    /\ phase' = "serving"
    /\ UNCHANGED <<sessions, keys, reqs>>

\* GetUserByEmail, then PromoteToBootstrapAdmin.
BootPromote ==
    /\ phase = "ensure"
    /\ \E u \in Users :
        /\ Exists(u) /\ users[u].email = BootEmail
        /\ users' = [users EXCEPT ![u] = [status |-> "active", email |-> BootEmail,
                                          admin |-> TRUE, must |-> TRUE]]
        /\ changed' = changed \ {u}
    /\ phase' = "serving"
    /\ UNCHANGED <<sessions, keys, reqs>>

\* GetUserByEmail finds nobody: CreateUser.
BootCreate ==
    /\ phase = "ensure"
    /\ ~EmailTaken(BootEmail)
    /\ \E u \in Users :
        /\ ~Exists(u)
        /\ users' = [users EXCEPT ![u] = [status |-> "active", email |-> BootEmail,
                                          admin |-> TRUE, must |-> TRUE]]
    /\ phase' = "serving"
    /\ UNCHANGED <<sessions, keys, reqs, changed>>

\* The process dies, or os.Exit(1) after an error during bootstrap.
Crash ==
    /\ phase # "down"
    /\ phase' = "down"
    /\ reqs' = [r \in Reqs |-> Idle]
    /\ UNCHANGED <<tables, changed>>

-----------------------------------------------------------------------------
(* Handlers.                                                               *)

Begin(r, req) ==
    /\ phase = "serving"
    /\ reqs[r].pc = "idle"
    /\ reqs' = [reqs EXCEPT ![r] = req]
    /\ UNCHANGED <<tables, phase, changed>>

At(r, step) == reqs[r].pc = step
Goto(r, step) == reqs' = [reqs EXCEPT ![r].pc = step]
Return(r) == reqs' = [reqs EXCEPT ![r] = Idle]

\* A statement fails or the context is done: the handler returns an error.
Fail(r) ==
    /\ reqs[r].pc # "idle"
    /\ Return(r)
    /\ UNCHANGED <<tables, phase, changed>>

\* Authenticate: an unrevoked, unexpired session of a user not disabled.
Authenticated(s) == sessions[s].status = "open" /\ Active(sessions[s].user)

\* authenticatedAdmin
AuthenticatedAdmin(s) ==
    LET u == sessions[s].user IN
    Authenticated(s) /\ users[u].admin /\ ~users[u].must

\* AuthService.Login: the user is read, not disabled, the password verifies.
Login(r) ==
    \E u \in Users : Active(u) /\ Begin(r, [pc |-> "session", user |-> u])

\* AuthServer.Login: CreateSession.
CreateSession(r) ==
    /\ At(r, "session")
    /\ \E s \in Sessions :
        /\ sessions[s].status = "unborn"
        /\ sessions' = [sessions EXCEPT ![s] = [status |-> "open",
                                                user |-> reqs[r].user]]
    /\ Return(r)
    /\ UNCHANGED <<users, keys, phase, changed>>

\* ChangePassword: authenticate; read the user and verify; update.
BeginChangePassword(r) ==
    \E s \in Sessions :
        Authenticated(s) /\ Begin(r, [pc |-> "verify", user |-> sessions[s].user])

VerifyCurrent(r) ==
    /\ At(r, "verify")
    /\ IF Active(reqs[r].user) THEN Goto(r, "newpw") ELSE Return(r)
    /\ UNCHANGED <<tables, phase, changed>>

UpdateUserPassword(r) ==
    /\ At(r, "newpw")
    /\ users' = [users EXCEPT ![reqs[r].user].must = FALSE]
    /\ changed' = changed \cup {reqs[r].user}
    /\ Return(r)
    /\ UNCHANGED <<sessions, keys, phase>>

\* UpdateMyAccount: authenticate; UPDATE under the unique index on email.
BeginUpdateAccount(r) ==
    \E s \in Sessions :
        Authenticated(s) /\ Begin(r, [pc |-> "profile", user |-> sessions[s].user])

UpdateUserAccount(r) ==
    /\ At(r, "profile")
    /\ \E e \in Emails :
        /\ \A v \in Users \ {reqs[r].user} : ~(Exists(v) /\ users[v].email = e)
        /\ users' = [users EXCEPT ![reqs[r].user].email = e]
    /\ Return(r)
    /\ UNCHANGED <<sessions, keys, phase, changed>>

\* CreateUser: an admin session; password hashing; INSERT.
BeginCreateUser(r) ==
    \E s \in Sessions :
        /\ AuthenticatedAdmin(s)
        /\ Begin(r, [pc |-> "insertuser", user |-> sessions[s].user])

\* A new administrator must change the password chosen for it.
InsertUser(r) ==
    /\ At(r, "insertuser")
    /\ \E u \in Users, e \in Emails, isAdmin \in BOOLEAN :
        /\ ~Exists(u) /\ ~EmailTaken(e)
        /\ users' = [users EXCEPT ![u] = [status |-> "active", email |-> e,
                                          admin |-> isAdmin, must |-> isAdmin]]
    /\ Return(r)
    /\ UNCHANGED <<sessions, keys, phase, changed>>

\* DisableUser: an admin session, not oneself; disable; revoke sessions.
BeginDisable(r) ==
    \E s \in Sessions, v \in Users :
        /\ AuthenticatedAdmin(s)
        /\ Exists(v) /\ v # sessions[s].user
        /\ Begin(r, [pc |-> "disable", user |-> sessions[s].user, target |-> v])

DisableUser(r) ==
    /\ At(r, "disable")
    /\ users' = [users EXCEPT ![reqs[r].target].status = "disabled"]
    /\ Goto(r, "revoke")
    /\ UNCHANGED <<sessions, keys, phase, changed>>

RevokeSessions(r) ==
    LET v == reqs[r].target IN
    /\ At(r, "revoke")
    /\ sessions' = [s \in Sessions |->
                      IF sessions[s].user = v /\ sessions[s].status = "open"
                      THEN [sessions[s] EXCEPT !.status = "revoked"]
                      ELSE sessions[s]]
    /\ Return(r)
    /\ UNCHANGED <<users, keys, phase, changed>>

\* GenerateAdminAccessKey: an admin session; the user is read again; INSERT.
BeginGenerateKey(r) ==
    \E s \in Sessions :
        /\ AuthenticatedAdmin(s)
        /\ Begin(r, [pc |-> "recheckgen", user |-> sessions[s].user])

RecheckGenerate(r) ==
    LET u == reqs[r].user IN
    /\ At(r, "recheckgen")
    /\ IF users[u].admin /\ ~users[u].must THEN Goto(r, "insertkey") ELSE Return(r)
    /\ UNCHANGED <<tables, phase, changed>>

InsertKey(r) ==
    /\ At(r, "insertkey")
    /\ \E k \in Keys :
        /\ keys[k].status = "unborn"
        /\ keys' = [keys EXCEPT ![k] = [status |-> "fresh", expired |-> FALSE,
                                        user |-> reqs[r].user, uses |-> 0]]
    /\ Return(r)
    /\ UNCHANGED <<users, sessions, phase, changed>>

\* ConsumeAdminAccessKey: an admin session; the handler reads the clock; the
\* role is read again; UPDATE ... WHERE used_at IS NULL AND expires_at > now with
\* the time read before, granted if it hit a row.
BeginConsumeKey(r) ==
    \E s \in Sessions, k \in Keys :
        /\ AuthenticatedAdmin(s)
        /\ keys[k].status # "unborn"
        /\ Begin(r, [pc |-> "recheckuse", user |-> sessions[s].user, key |-> k,
                     intime |-> ~keys[k].expired])

RecheckConsume(r) ==
    /\ At(r, "recheckuse")
    /\ IF users[reqs[r].user].admin THEN Goto(r, "consume") ELSE Return(r)
    /\ UNCHANGED <<tables, phase, changed>>

\* Fault: used_at IS NULL is missing.
Consumable_Again(k, u, intime) ==
    keys[k].status \in {"fresh", "used"} /\ keys[k].user = u /\ intime

Consumable(k, u, intime) == keys[k].status = "fresh" /\ keys[k].user = u /\ intime

ConsumeKey(r) ==
    LET k == reqs[r].key IN
    /\ At(r, "consume")
    /\ keys' = IF Consumable(k, reqs[r].user, reqs[r].intime)
               THEN [keys EXCEPT ![k].status = "used", ![k].uses = @ + 1]
               ELSE keys
    /\ Return(r)
    /\ UNCHANGED <<users, sessions, phase, changed>>

\* Time passes the expiry of a session or key.
Expire ==
    /\ \/ \E s \in Sessions :
            /\ sessions[s].status = "open"
            /\ sessions' = [sessions EXCEPT ![s].status = "expired"]
            /\ UNCHANGED keys
       \/ \E k \in Keys :
            /\ keys[k].status # "unborn" /\ ~keys[k].expired
            /\ keys' = [keys EXCEPT ![k].expired = TRUE]
            /\ UNCHANGED sessions
    /\ UNCHANGED <<users, phase, reqs, changed>>

Next ==
    \/ BootCheck \/ BootPromote \/ BootCreate \/ Crash \/ Expire
    \/ \E r \in Reqs :
        \/ Fail(r)
        \/ Login(r) \/ CreateSession(r)
        \/ BeginChangePassword(r) \/ VerifyCurrent(r) \/ UpdateUserPassword(r)
        \/ BeginUpdateAccount(r) \/ UpdateUserAccount(r)
        \/ BeginCreateUser(r) \/ InsertUser(r)
        \/ BeginDisable(r) \/ DisableUser(r) \/ RevokeSessions(r)
        \/ BeginGenerateKey(r) \/ RecheckGenerate(r) \/ InsertKey(r)
        \/ BeginConsumeKey(r) \/ RecheckConsume(r) \/ ConsumeKey(r)

Spec == Init /\ [][Next]_vars

-----------------------------------------------------------------------------
(* Properties.                                                             *)

\* README.md:206, "If any active admin already exists, bootstrap is skipped": no
\* start of the process touches an account while somebody is an active
\* administrator, and an existing account becomes an administrator, or a disabled
\* one active again, at no other time.
BootstrapOnlyWithoutAdmin ==
    [][(\/ phase # "serving" /\ users' # users
        \/ \E u \in Users :
            /\ Exists(u)
            /\ \/ users'[u].admin /\ ~users[u].admin
               \/ users[u].status = "disabled" /\ users'[u].status = "active")
       => ActiveAdmins = {}]_vars

AdminSteps == {"insertuser", "disable", "revoke", "recheckgen", "insertkey",
               "recheckuse", "consume"}

\* README.md:205, "The bootstrap admin is forced to change password on first
\* login", and auth.go:76-85: nobody gets past the administrator check before
\* changing the password given at creation or promotion, whichever came last.
AdminsChangedPassword ==
    \A r \in Reqs : reqs[r].pc \in AdminSteps => reqs[r].user \in changed

\* CHANGELOG.md:177, "One-time admin access key flow": however many requests
\* present a key, concurrently, after one another or across a restart, at most
\* one of them is granted.
KeyUsedOnce == \A k \in Keys : keys[k].uses <= 1
=============================================================================
