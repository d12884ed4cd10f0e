------------------------------ MODULE Startup ------------------------------
(***************************************************************************)
(* The life of the processes that share one database (cmd/core/main.go):   *)
(* configuration from the environment (internal/platform/config), the pool *)
(* (internal/platform/database), the listener, the bootstrap of the first  *)
(* administrator statement by statement (service.EnsureBootstrapAdmin),    *)
(* serving, a signal, the graceful stop and the end.  Password hashes      *)
(* (internal/platform/security) keep the parameters they were made with,   *)
(* because the next process may be configured differently.                 *)
(*                                                                         *)
(* Of the handlers only those that write the bootstrap columns of an       *)
(* account run here, one call per process at a time; module Auth has them  *)
(* all.  An account is named by its email, and sessions are left out: any  *)
(* active account may be the caller.                                       *)
(***************************************************************************)
EXTENDS Integers, FiniteSets

CONSTANTS
    Procs,      \* processes, on one host or on several
    Emails,     \* email addresses of accounts
    Passwords,  \* what a client may choose as a new password
    Envs        \* environments a process may be started with

VARIABLES
    users,      \* table users, by email
    proc,       \* main of every process: where it is and what it holds
    pool,       \* processes whose connection pool is open
    listening,  \* processes whose listener accepts connections
    call,       \* the handler in flight in a process
    known,      \* history: the password last given to an account
    changed     \* history: accounts that replaced a password set for them

startupVars == <<users, proc, pool, listening, call, known, changed>>

-----------------------------------------------------------------------------
(* Configuration.                                                          *)

TrimSpace(text) == IF text = "spaces" THEN "unset" ELSE text

env(text, fallback) == IF TrimSpace(text) = "unset" THEN fallback ELSE TrimSpace(text)

\* strconv.Atoi on the texts of an environment; other texts do not parse.
Atoi == [text \in {"0", "1", "2", "256"} |->
           CASE text = "0" -> 0 [] text = "1" -> 1 [] text = "2" -> 2 [] text = "256" -> 256]

envInt(text, fallback) ==
    IF TrimSpace(text) \in DOMAIN Atoi THEN Atoi[TrimSpace(text)] ELSE fallback

\* The parallelism is cut to eight bits.  (Numbers that do not fit the 32 bits
\* of the other two are not among the texts.)
Load(e) ==
    [addr |-> env(e.addr, ":50051"), url |-> env(e.url, "unset"),
     cert |-> env(e.cert, "unset"), key |-> env(e.key, "unset"),
     email |-> env(e.email, "unset"), password |-> env(e.password, "unset"),
     params |-> [memory |-> envInt(e.memory, 64), iterations |-> envInt(e.iterations, 3),
                 parallelism |-> envInt(e.parallelism, 2) % 256]]

\* Emails has every address an environment may name.
ASSUME EnvsAssumption == \A e \in Envs : env(e.email, "unset") \in Emails \cup {"unset"}

-----------------------------------------------------------------------------
(* Password hashes.                                                        *)

DefaultArgon2Params == [memory |-> 64, iterations |-> 3, parallelism |-> 2]

\* argon2.IDKey: equal for equal arguments only, and a panic without rounds
\* or threads.  (The salt distinguishes hashes no statement compares.)
IDKey(password, params) == <<password, params>>
Computes(params) == params.iterations > 0 /\ params.parallelism > 0

HashParams(params) == IF params.memory = 0 THEN DefaultArgon2Params ELSE params

\* Fault: the text carries the parameters given, not the ones used.
HashPassword_EncodesGiven(password, params) ==
    [params |-> params, key |-> IDKey(password, HashParams(params))]

HashPassword(password, params) ==
    [params |-> HashParams(params), key |-> IDKey(password, HashParams(params))]

VerifyPassword(password, hash) == IDKey(password, hash.params) = hash.key

-----------------------------------------------------------------------------
(* Accounts.                                                               *)

NoRow == [status |-> "none"]
Row(status, admin, must, hash) ==
    [status |-> status, admin |-> admin, must |-> must, hash |-> hash]

Exists(e) == users[e].status # "none"
ActiveAccount(e) == users[e].status = "active"
ActiveAdmins == {e \in Emails : ActiveAccount(e) /\ users[e].admin}

Off == [pc |-> "off"]
NoCall == [pc |-> "none"]

StartupInit ==
    /\ users = [e \in Emails |-> NoRow]
    /\ proc = [p \in Procs |-> Off]
    /\ pool = {}
    /\ listening = {}
    /\ call = [p \in Procs |-> NoCall]
    /\ known = [e \in Emails |-> "unset"]
    /\ changed = {}

MainAt(p, step) == proc[p].pc = step
Cancelled(p) == proc[p].ctx = "done"
Goto(p, step) == proc' = [proc EXCEPT ![p].pc = step]
rows == <<users, known, changed>>

-----------------------------------------------------------------------------
(* main, up to the bootstrap.                                              *)

Start(p) ==
    /\ MainAt(p, "off")
    /\ \E e \in Envs :
        proc' = [proc EXCEPT ![p] = [pc |-> "open", cfg |-> Load(e), ctx |-> "live"]]
    /\ UNCHANGED <<rows, pool, listening, call>>

\* os.Exit(1), a panic, or a kill: nothing deferred runs, and the system
\* closes the connections and the listener.
Die(p) ==
    /\ proc' = [proc EXCEPT ![p] = Off]
    /\ pool' = pool \ {p}
    /\ listening' = listening \ {p}
    /\ call' = [call EXCEPT ![p] = NoCall]
    /\ UNCHANGED rows

\* database.Open: a parsed DATABASE_URL and a ping under the signal context.
Open(p) ==
    /\ MainAt(p, "open") /\ proc[p].cfg.url # "unset" /\ ~Cancelled(p)
    /\ pool' = pool \cup {p}
    /\ Goto(p, "listen")
    /\ UNCHANGED <<rows, listening, call>>

\* net.Listen: one listener per address.
AddressFree(p) == \A q \in listening : proc[q].cfg.addr # proc[p].cfg.addr

Listen(p) ==
    /\ MainAt(p, "listen") /\ AddressFree(p)
    /\ listening' = listening \cup {p}
    /\ Goto(p, "check")
    /\ UNCHANGED <<rows, pool, call>>

HalfSet(cfg) == (cfg.email = "unset") # (cfg.password = "unset")

\* Certificates are loaded if both files are named; the bootstrap variables
\* come together or not at all.
CheckConfig(p) ==
    /\ MainAt(p, "check") /\ ~HalfSet(proc[p].cfg)
    /\ Goto(p, IF proc[p].cfg.email = "unset" THEN "register" ELSE "hasadmin")
    /\ UNCHANGED <<rows, pool, listening, call>>

-----------------------------------------------------------------------------
(* EnsureBootstrapAdmin.                                                   *)

HasActiveAdmin(p) ==
    /\ MainAt(p, "hasadmin") /\ ~Cancelled(p)
    /\ Goto(p, IF ActiveAdmins # {} THEN "register" ELSE "hash")
    /\ UNCHANGED <<rows, pool, listening, call>>

\* The limiter is new and gives a slot unless the context is done.
HashTemporary(p) ==
    /\ MainAt(p, "hash") /\ ~Cancelled(p) /\ Computes(HashParams(proc[p].cfg.params))
    /\ Goto(p, "find")
    /\ UNCHANGED <<rows, pool, listening, call>>

GetUserByEmail(p) ==
    /\ MainAt(p, "find") /\ ~Cancelled(p)
    /\ Goto(p, IF Exists(proc[p].cfg.email) THEN "promote" ELSE "create")
    /\ UNCHANGED <<rows, pool, listening, call>>

Bootstrapped(p) ==
    Row("active", TRUE, TRUE, HashPassword(proc[p].cfg.password, proc[p].cfg.params))

\* The account of BOOTSTRAP_ADMIN_EMAIL becomes row.
WriteBootstrap(p, row) ==
    LET e == proc[p].cfg.email IN
    /\ users' = [users EXCEPT ![e] = row]
    /\ known' = [known EXCEPT ![e] = proc[p].cfg.password]
    /\ changed' = changed \ {e}
    /\ Goto(p, "register")
    /\ UNCHANGED <<pool, listening, call>>

\* Fault: disabled_at is left as it is.
PromoteToBootstrapAdmin_StaysDisabled(p) ==
    /\ MainAt(p, "promote") /\ ~Cancelled(p)
    /\ WriteBootstrap(p, [Bootstrapped(p) EXCEPT !.status = users[proc[p].cfg.email].status])

\* Fault: must_change_password is left as it is.
PromoteToBootstrapAdmin_KeepsMust(p) ==
    /\ MainAt(p, "promote") /\ ~Cancelled(p)
    /\ WriteBootstrap(p, [Bootstrapped(p) EXCEPT !.must = users[proc[p].cfg.email].must])

PromoteToBootstrapAdmin(p) ==
    /\ MainAt(p, "promote") /\ ~Cancelled(p)
    /\ WriteBootstrap(p, Bootstrapped(p))

CreateUser(p) ==
    /\ MainAt(p, "create") /\ ~Cancelled(p) /\ ~Exists(proc[p].cfg.email)
    /\ WriteBootstrap(p, Bootstrapped(p))

\* The services are registered and a goroutine serves the listener.
Serve(p) ==
    /\ MainAt(p, "register")
    /\ Goto(p, "serving")
    /\ UNCHANGED <<rows, pool, listening, call>>

-----------------------------------------------------------------------------
(* The end of a process.                                                   *)

Starting == {"open", "listen", "check", "hasadmin", "hash", "find", "promote", "create"}
InBootstrap == {"hasadmin", "hash", "find", "promote", "create"}

\* The conditions under which a starting process cannot go on.
Doomed(p) ==
    \/ MainAt(p, "open") /\ (proc[p].cfg.url = "unset" \/ Cancelled(p))
    \/ MainAt(p, "listen") /\ ~AddressFree(p)
    \/ MainAt(p, "check") /\ HalfSet(proc[p].cfg)
    \/ proc[p].pc \in InBootstrap /\ Cancelled(p)
    \/ MainAt(p, "hash") /\ ~Computes(HashParams(proc[p].cfg.params))
    \/ MainAt(p, "create") /\ Exists(proc[p].cfg.email)

Exit(p) == Doomed(p) /\ Die(p)

\* A statement, the ping or a certificate fails.
Fail(p) == proc[p].pc \in Starting /\ ~Doomed(p) /\ Die(p)

Crash(p) == proc[p].pc \notin Starting \cup {"off"} /\ Die(p)

\* SIGINT or SIGTERM; a second one changes nothing.
Signal(p) ==
    /\ ~MainAt(p, "off") /\ ~Cancelled(p)
    /\ proc' = [proc EXCEPT ![p].ctx = "done"]
    /\ UNCHANGED <<rows, pool, listening, call>>

\* Fault: the goroutine does not call stop.
ServeFails_NoStop(p) ==
    /\ MainAt(p, "serving") /\ p \in listening
    /\ listening' = listening \ {p}
    /\ UNCHANGED <<rows, proc, pool, call>>

\* Serve returns an error: the goroutine cancels the context.
ServeFails(p) ==
    /\ MainAt(p, "serving") /\ p \in listening
    /\ listening' = listening \ {p}
    /\ proc' = [proc EXCEPT ![p].ctx = "done"]
    /\ UNCHANGED <<rows, pool, call>>

\* <-ctx.Done(), and GracefulStop closes the listener before it waits.
Done(p) ==
    /\ MainAt(p, "serving") /\ Cancelled(p)
    /\ listening' = listening \ {p}
    /\ Goto(p, "stopping")
    /\ UNCHANGED <<rows, pool, call>>

\* Fault: Stop is called in place of GracefulStop, which does not wait.
GracefulStop_NoWait(p) ==
    /\ MainAt(p, "stopping")
    /\ Goto(p, "returning")
    /\ UNCHANGED <<rows, pool, listening, call>>

\* GracefulStop waits for the calls in flight, for as long as they take:
\* SHUTDOWN_TIMEOUT is read and not used.
GracefulStop(p) ==
    /\ MainAt(p, "stopping") /\ call[p] = NoCall
    /\ Goto(p, "returning")
    /\ UNCHANGED <<rows, pool, listening, call>>

\* main returns: the deferred pool.Close, then the process ends.
ClosePool(p) ==
    /\ MainAt(p, "returning") /\ p \in pool
    /\ pool' = pool \ {p}
    /\ UNCHANGED <<rows, proc, listening, call>>

Return(p) ==
    /\ MainAt(p, "returning") /\ p \notin pool
    /\ Die(p)

-----------------------------------------------------------------------------
(* Handlers.                                                               *)

\* A call comes in, over a new connection or one accepted before: a Serve that
\* returned leaves those open until GracefulStop.
Begin(p, c) ==
    /\ MainAt(p, "serving") /\ call[p] = NoCall
    /\ call' = [call EXCEPT ![p] = c]
    /\ UNCHANGED <<rows, proc, pool, listening>>

\* A handler returns, with or without an error.
EndCall(p) == call' = [call EXCEPT ![p] = NoCall]

CallFails(p) ==
    /\ call[p].pc # "none"
    /\ EndCall(p)
    /\ UNCHANGED <<rows, proc, pool, listening>>

\* authenticatedAdmin
Administers(e) == e \in ActiveAdmins /\ ~users[e].must

\* ChangePassword: the row is read, the current password verifies, the new one
\* is hashed; then the UPDATE.
BeginChange(p) ==
    \E e \in Emails, current, new \in Passwords :
        /\ ActiveAccount(e) /\ VerifyPassword(current, users[e].hash)
        /\ Begin(p, [pc |-> "change", email |-> e, new |-> new])

\* CreateUser with one of the two roles: an admin session, a hash, an INSERT.
BeginCreate(p) ==
    \E a, e \in Emails, admin \in BOOLEAN, new \in Passwords :
        /\ Administers(a) /\ a # e
        /\ Begin(p, [pc |-> "insert", email |-> e, new |-> new, admin |-> admin])

\* DisableUser: an admin session, and not one's own account.
BeginDisable(p) ==
    \E a, e \in Emails :
        /\ Administers(a) /\ a # e
        /\ Begin(p, [pc |-> "disable", email |-> e])

\* Without rounds or threads the first password to hash ends the process.
PanicsHashing(p) ==
    /\ call[p].pc \in {"change", "insert"}
    /\ ~Computes(HashParams(proc[p].cfg.params))
    /\ Die(p)

HashNew(p) == HashPassword(call[p].new, proc[p].cfg.params)

UpdateUserPassword(p) ==
    LET e == call[p].email IN
    /\ call[p].pc = "change" /\ Computes(HashParams(proc[p].cfg.params))
    /\ users' = [users EXCEPT ![e] = Row(@.status, @.admin, FALSE, HashNew(p))]
    /\ known' = [known EXCEPT ![e] = call[p].new]
    /\ changed' = changed \cup {e}
    /\ EndCall(p)
    /\ UNCHANGED <<proc, pool, listening>>

InsertUser(p) ==
    LET e == call[p].email IN
    /\ call[p].pc = "insert" /\ Computes(HashParams(proc[p].cfg.params))
    /\ ~Exists(e)
    /\ users' = [users EXCEPT ![e] = Row("active", call[p].admin, call[p].admin, HashNew(p))]
    /\ known' = [known EXCEPT ![e] = call[p].new]
    /\ EndCall(p)
    /\ UNCHANGED <<proc, pool, listening, changed>>

DisableUser(p) ==
    /\ call[p].pc = "disable" /\ Exists(call[p].email)
    /\ users' = [users EXCEPT ![call[p].email] = Row("disabled", @.admin, @.must, @.hash)]
    /\ EndCall(p)
    /\ UNCHANGED <<proc, pool, listening, known, changed>>

Step(p) ==
    \/ Open(p) \/ Listen(p) \/ CheckConfig(p) \/ HasActiveAdmin(p) \/ HashTemporary(p)
    \/ GetUserByEmail(p) \/ PromoteToBootstrapAdmin(p) \/ CreateUser(p) \/ Serve(p)
    \/ Exit(p) \/ Done(p) \/ GracefulStop(p) \/ ClosePool(p) \/ Return(p)

CallStep(p) ==
    \/ UpdateUserPassword(p) \/ InsertUser(p) \/ DisableUser(p)
    \/ PanicsHashing(p) \/ CallFails(p)

StartupNext ==
    \E p \in Procs :
        \/ Start(p) \/ Step(p) \/ Fail(p) \/ Crash(p) \/ Signal(p) \/ ServeFails(p)
        \/ BeginChange(p) \/ BeginCreate(p) \/ BeginDisable(p)
        \/ CallStep(p)

StartupSpec == StartupInit /\ [][StartupNext]_startupVars

-----------------------------------------------------------------------------
(* Properties.                                                             *)

\* No handler ever finds its connection pool closed: GracefulStop waits for the
\* calls in flight, and the pool is closed by a defer of main, which runs after
\* it (cmd/core/main.go:42, 126), whatever ends the process and in whatever
\* order signal, Serve error and calls come.
CallsHavePool == \A p \in Procs : call[p] # NoCall => p \in pool

\* The password last given to an account, by bootstrap, creation or change,
\* opens it and no other does, whichever process wrote the hash and whatever
\* Argon2 parameters the processes that came before and after were configured
\* with (security/password.go:34-60).
PasswordsOutliveConfig ==
    \A e \in Emails : Exists(e) =>
        \A w \in Passwords : VerifyPassword(w, users[e].hash) <=> w = known[e]

\* "The bootstrap admin is forced to change password on first login"
\* (README.md:205): an administrator who need not change the password has
\* replaced the one set by bootstrap or by another administrator, also when
\* several processes bootstrap and serve at the same time
\* (users.go:103-123, service/auth.go:150).
AdminsChosePassword ==
    \A e \in ActiveAdmins : users[e].must \/ e \in changed

\* A process with bootstrap variables goes on to serve only in a state that has
\* an active administrator, even if another process wrote or disabled accounts
\* between its statements (service/auth.go:240-282, main.go:83-99).
BootstrapLeavesAdmin ==
    [][\A p \in Procs :
        proc[p].pc \in InBootstrap /\ proc'[p].pc = "register" => ActiveAdmins' # {}]_startupVars

\* A process that got a signal, or whose Serve failed, is never left waiting for
\* something nobody does: until it has ended, main or the call in flight that
\* main waits for can go on (main.go:115-126).  Handlers return or fail by
\* themselves; no timeout ends them.
StopNeverBlocks ==
    \A p \in Procs :
        ~MainAt(p, "off") /\ (Cancelled(p) \/ (MainAt(p, "serving") /\ p \notin listening))
            => ENABLED (Step(p) \/ CallStep(p))
=============================================================================
