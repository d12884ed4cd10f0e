# A TLA+ model of OurNeZt core

OurNeZt core is a gRPC server in Go over PostgreSQL: accounts and sessions,
families with invite codes, person profiles, housing options with groups and a
per-family checklist, and calculations on top of them. This directory holds TLA+
modules of its parts, TLC configurations that check them on small
instances, and TLAPS proofs for every value of their constants. `PROJECT.json` maps
each definition to the lines it models and lists runs, mutants, hazards, findings
and theorems.

## Inventory

| Component | State | Operations | What is hard | What makes it correct |
|---|---|---|---|---|
| Authentication limiter (`authlimit`, `server/auth_limit.go`) | bucket map, next sweep, slot channel | `allow` for IP and account, `Acquire`, release | requests interleave, sweeps run on behalf of others, contexts are cancelled at any time, the map and the channel have limits | no key passes more than two limits per window, active limits are never dropped or extended, slots are exact, blocked keys recover |
| Housing checklist (`repository/postgres/housing_checklist.go`) | criteria rows with positions, answers | save, delete, reorder a criterion; save an answer | multi-statement transactions at READ COMMITTED, family lock, row locks, share locks, rollbacks | contiguous positions, answers only for active criteria, no deadlock, every commit is one step of an abstract list |
| Housing options and groups (`server/housing.go`, `repository/postgres/housing.go`) | options with group, visibility, notes; groups | create, update, delete, assign, bulk visibility, group deletion, notes | several statements without a transaction, fields filled from an earlier read, client-supplied family | an option gets into a group of another family only by an update that names it, whoever changes an option writes for its family or its group's, an update keeps the notes |
| Accounts, sessions, keys, bootstrap (`service/auth.go`, `server/auth.go`, `repository/postgres/users.go`, `cmd/core`) | users, sessions, one-time keys | login, change password, update account, create and disable users, keys, bootstrap | check-then-act across statements, crash between bootstrap steps, expiry | an active administrator after every start, forced password change, a key granted at most once |
| Families and invitations (`families.go`) | families, members, invites | create, generate code, join | a transaction that may stop half way, two-statement operations, expiry in between | every family has an owner, roles never change, members were invited by a manager |
| People and income history (`people.go`) | profiles, history rows, linked user | create, update, delete | fallback forms for older schemas while migrations run, `now()` fixed before a lock wait | the current income is in the history, links are not lost, no form drops what the database could hold |
| Housing evaluation and dashboard (`domain/housing_checklist.go`, `server/housing_checklist.go`, `service/dashboard.go`, `server/dashboard.go`) | none (reads) | summary of a home's answers, list of options with summaries, household dashboard | two or three reads at different moments, no transaction | what is shown fits together, nothing untouched is missing |
| Calculations (`calculation/*`, `server/finance.go`) | none (pure) | CPF, income, affordability, grants, validation of options | bands, basis points, truncation, the loop from a stored grant back to the decision that produced it | parts add up to totals, answers move the way their inputs do, a deferred option has no grant |
| Reads and access (`server/auth_context.go` and the Get and List handlers) | sessions, members, rows | authenticate, check membership, read | several headers, sessions that end during a call, check and read apart, schema fallbacks | rows reach members only, barred callers are refused, strangers learn nothing, members get what was theirs |
| Protocol mapping and errors (`server/mapping.go`, `server/errors.go`, row scanners) | none | message to domain value to columns and back, errors to status codes | optional fields, dates that refuse a message | codes that do not tell strangers what exists |
| Process and configuration (`cmd/core/main.go`, `platform/*`) | the process, its pool and listener, the account table | load, open, listen, bootstrap, serve, stop | several processes on one database, crashes, changed settings, calls during the stop | bootstrap leaves an administrator, passwords stay valid, calls keep the pool, a stop never waits for nothing |
| Generated services (`gen/.../*_grpc.pb.go`) and the interceptor | counters of the log line | route, decode, charge, run, record | many handlers that differ in a name, concurrent ends of calls | stubs, handlers, switch and password methods agree, no end of password work is lost from the counts, log lines keep their distance |

Interaction: the gRPC interceptor consults the limiter before an auth handler; the
auth service consults it again around Argon2. Every other handler authenticates
through the session table and then talks to its repository. Repositories share
`families` and `family_members` (roles), housing and checklist share
`housing_options` (an answer locks its home, deleting a home deletes its answers).
Nothing but PostgreSQL and the limiter's mutex and channel synchronizes handlers.

## Modules

* `Limiter` - `allow` is split into the values its statements compute (`Swept`,
  `NoRoom`, `Charged`, `Stored`) and `Allow`, the change under the mutex. Requests
  go through `Arrive` (interceptor), `ReturnEarly` or `ChargeAccount`
  (`beginPasswordWork`), `Acquire` and `Release`; `Cancel` ends a context at any
  point. Instants are stored as the time left of them, so the clock needs no bound.
  `recent` is a history variable: how many requests of a key have passed in the last
  units of time, for every number of units up to a window.
* `ChecklistAbs` - what the checklist promises: one ordered list per family changed
  by atomic insertions, moves, retirements and permutations, and answers.
* `Checklist` - the repository's transactions, one action per SQL statement.
  Uncommitted row versions (`writes`) are the row locks; `famLock` is
  `SELECT ... FOR UPDATE` on the family; `Sharing` is `FOR SHARE`. A statement that
  meets a conflicting lock waits and then reads the committed version. `Rollback`
  may happen before every statement. `Abs` instantiates `ChecklistAbs`.
* `Housing` - handlers as sequences of single statements on the pool. A request
  record holds the Go locals that survive from one statement to the next. A request
  may name any family for its option, since the server accepts any.
* `Auth` - tables `users`, `sessions` and `admin_access_keys`; bootstrap as
  `BootCheck`, then `BootPromote` or `BootCreate`; `Crash` loses the handlers and
  keeps the tables. Whether a password verifies is a free choice. The expiry of a
  key is compared with the time taken before the caller is read again
  (`BeginConsumeKey`), as in server/auth.go:176.
* `Families` - `CreateFamily` as a transaction of two INSERTs, joining and code
  generation as two statements each, expiry of codes.
* `People` - the full statement and the forms older databases get, chosen by
  `Retries` from the error; `Issue` fixes `now()`, the apply actions run later.
* `Calculation` - the arithmetic as operators: `CalculateCPFContribution`,
  `CalculateIncomeBreakdown`, `CalculateHouseholdIncomeSummary`,
  `EstimateHousingGrantAmount`, `IsDeferredHousingOption`,
  `CalculateHousingAffordability`. Products that would leave TLC's 32 bits are
  divided in parts with the same result (`centsByBps`, `ratioInBps`). The annuity,
  a `float64` formula, is an interval that holds it, and the model takes both ends.
* `Finance` - the calculator handlers, whose only state is the `call` being answered.
  `MCPlanning` runs them beside `Planning`: they touch no table, so their calls are
  explored from the empty tables, each answered before anything else happens.
* `Planning` - extends `Calculation` with the tables of one family: profiles are
  validated and saved, an option is validated (`BeginSave`), its grant replaced
  (`applyGrantEstimate`) and then written, and the dashboard reads people, then
  options. `basis` is history: the household a grant was estimated from.
* `Evaluation` - extends `ChecklistAbs` (the specification `Checklist` implements)
  with weights and with the handlers that read homes, criteria and answers in three
  statements and summarise them.
* `Access` - the Get and List handlers from headers to reply: `Call` (which
  authenticates), `hasFamilyAccess`, `Read`, and `LegacyRead` when the schema is
  older. The writers are single steps here.
* `Startup` - `main` of several processes on one database: `Load`, `Open`,
  `Listen`, `CheckConfig`, the statements of `EnsureBootstrapAdmin`, `Serve`,
  `Signal`, `GracefulStop`, `ClosePool`, with `Crash` and `Fail` anywhere. Of the
  handlers it has the three that write an account's password, role or status, and
  hashes that carry their parameters.
* `Dispatch` - the generated tables row by row (the name a stub invokes, the entry of
  the `ServiceDesc`, the name its handler gives the interceptor, the method it runs), a
  call through client stub, routing, decoding and the interceptor, and `record` with
  its counters and log line. `ended` is history: the ends of calls that asked for
  password work, or did any, whatever the interceptor made of them.
* `ChecklistTables` (homes and answers, shared by `ChecklistAbs` and `Checklist`) and
  `Households` (users, families and handlers, shared by `Families` and `People`) only
  declare.
* `ServerProofs` (`Limiter`, `Dispatch` and `Startup`), `ChecklistProofs` (and
  `Evaluation`), `HousingProofs`, `AuthProofs`, `FamiliesProofs` (and `People`),
  `PlanningProofs` (and `Finance`), `AccessProofs`, `Sums` - theorems. `MC*` -
  instances.

Modules that are proved about together have names of their own for what others call
`Init`, `Next`, `Spec` and `vars`: `DispatchInit`, `PeopleSpec`, and so on.

Definitions named `X_Fault` (for example `LockFamily_NoLock`) are faulty versions
of `X`. Nothing uses them; each shows that a property notices that fault.

## Runs

| Run | Bounds | Shows |
|---|---|---|
| `limiter` | two requests, one host with two addresses, two accounts (one spelled in two ways), window 3, limits 2 and 1, two buckets, one slot | `SlidingWindowBound`, `WithinCapacity`, `SlotsExact`, `ActiveLimitKept`, `ExhaustedKeyRecovers`, `SlotFrees` in every interleaving with time, sweeps, a full map and cancellation |
| `checklist` | two transactions, two families, two criteria, one home | `ContiguousPositions` after every commit, `NoWaitCycle` over family, row and share locks, `AnswersOnlyActive`, `Quiesces`, and `ImplementsAbs`: every commit is one step of `ChecklistAbs` |
| `housing` | two handlers, two families, one option, one group, a user who may only read in one family, requests that name either family | `GroupsFollowClaims`, `WritersOfHomeOrGroup`, `NotesPreserved` |
| `housing_claims` | the same | `WritersOnly` is violated, see findings |
| `auth` | two users, two emails, one key, two handlers, crashes and restarts | `AdminsChangedPassword`, `KeyUsedOnce`, `BootstrapOnlyWithoutAdmin` |
| `families` | three users, two families, two codes, two handlers | `EveryFamilyHasOwner`, `MembersInvited`, `RolesKept` |
| `people` | two profiles, two writers, both migrations, at most `MaxHistory` history rows | `CurrentIncomeRecorded`, `LinkNeverCleared`, `SavedInFull` |
| `planning` | two profiles, one option, one handler, forms for every way to be deferred or nearly so; for the calculators, ages and wages on both sides of each band, threshold and ceiling, two-member households, options of each loan and home type, negative rates, fees and grants | `NoCentLost` and `BandsAreMonotone` of the arithmetic; `DeferredHasNoGrant`, `EchoChangesNothing`, `DashboardSound` of the tables |
| `evaluation` | two homes, two criteria, one reader | `SummaryIsSound`, `UntouchedAnswersShown` |
| `access` | two users, sessions, session and bearer headers in every combination, a profile, a home, a group, with and without the migration | `BarredCallsRefused`, `StrangersLearnNothing`, `MembersAreServed` |
| `startup` | two processes on one database, good and bad environments, one password (that no other one opens an account is left to `PasswordsStayValid`) | `CallsHavePool`, `PasswordsOutliveConfig`, `AdminsChosePassword`, `StopNeverBlocks`, `BootstrapLeavesAdmin` |
| `dispatch` | two calls, every stub and unknown names, four instants, three counted ends | `EveryEndAccounted`, `LinesSpaced` |

Why the bounds suffice: each hazard needs two actors in conflict. In `checklist` two
criteria are enough for a list whose order two transactions disagree about, and two
families for a request that names the other one's criterion; what two criteria cannot
show is a move that passes over a third. The limiter's map holds two buckets for three
keys, so it is full with an active, an expired and a new key; a window of three leaves
an instant strictly inside it. Ids are uuids in the code; a finite pool never runs out
in the middle of a request (`Unused`, `FreshIdLeft`) or the request fails as any
statement may. `MaxPosition` is one past the last position of a list of one, and the
last of a list of two. People's `HistoryBound` stops behaviours whose history has more
than `MaxHistory` rows: the properties compare a row with the last write of its
profile, so a longer past adds no case. Amounts are real cents, chosen where a band, a
bracket, a ceiling or a rounding step changes. A reader in `planning`, `evaluation` and
`access` races with writers that are single steps, so one reader meets every order of
their commits. Deadlock checking is on in every run. Symmetry is used only for
interchangeable handlers, sessions and ids, and never with liveness.

Fairness is assumed in two modules. `Limiter`: time passes, a handler that can proceed
does, and Argon2 work ends; no step blocks on another request (`Acquire` refuses instead
of waiting), so weak fairness is what the Go scheduler gives. Arrivals and
cancellations are not fair. `Checklist`: a statement that can run is run (weak fairness
of `Step(t)`). Nothing is assumed of the order in which locks are granted, nor that
anything is rolled back; that is why `Quiesces` speaks of the time after operations
stop arriving. `Startup` needs none: `StopNeverBlocks` says that a process on its way
out always has a next step of its own or a call of its own to wait for. How long that
call takes is not bounded, because `SHUTDOWN_TIMEOUT` is read and not used.

## Proofs

All but three of the properties the runs check are theorems, for every value of the
constants, from the named assumptions of the modules, which TLC evaluates in a run.
Of the three, the part that every single step contributes is a theorem.

* `Limiter`, in `ServerProofs` (assumptions: `KeysAssumption`, keys of IPs and accounts are
  distinct because of their prefixes, and `ConfigAssumption`, `New` replaces
  non-positive settings). The inductive invariant is `TypeOK`, `CountWithinLimit`,
  `WithinCapacity` and `SlotsExact`. They need each other: the map's domain must be
  finite for its cardinality to bound it, a count is bounded only if a stored bucket
  was below its limit, and `slots` is decremented safely only because it equals the
  number of working requests. `AllowKeepsActive` says one call of `allow` never
  touches another active bucket; with it `ActiveLimitsKept` follows for every step.
  `SlidingWindows` adds `WindowInv`: what passed since an active bucket began is in
  its count, and what passed before it, but within the span, was charged to one
  earlier bucket, so two limits bound the whole. It holds for every window length.
  The count is exactly what passed since the bucket began, so a key is refused only
  after a whole limit of its own requests (`RefusalsAreEarned`). `BlockedOnlyForAWindow`
  is the measure behind `ExhaustedKeyRecovers`: `Wait(k)` is between 1 and the window
  while a key is blocked, each `Tick` takes one off, no other step changes it.
  `SlotsFree` proves `SlotFrees` from `WorkEnds`: while requests do password work, some
  `Release` will happen. Weak fairness of each `Release` gives that, since only the
  request ends its own work; the theorem adds that every slot belongs to such a request.
* `Dispatch`, in `ServerProofs` (`DispatchAssumption`, bounds are numbers). `LogInv` has the sums and the
  fact that the next line is due one period after the last (`LogLinesSpaced`). The
  history counts what the call asked for and ran, the counters what the interceptor
  saw; `CallInv` follows a call from its stub to the method it runs and shows that the
  three agree. It rests on `ClientsAgree` and `HandlersAgree`, which compare the
  generated tables row by row, and on `SwitchAgrees`: the cases of the switch are the
  methods that reach password work. A row that deviates from the others makes one of
  the three lemmas, and with it `NoEndLost`, fail.
* `ChecklistProofs` (`ChecklistAssumption`: ids are ordered, criteria are finite).
  Contiguity is about committed rows and far from inductive. `IInv` says of every
  transaction, statement by statement, how the list it read relates to the committed
  one and which positions it has written (`Picked`, `Retired`, `Planned`, `Numbered`),
  that this survives the commits of others because whoever works on a family holds its
  lock (`LockHeld`) and a row has one writer (`OneWriter`), and that a share lock pins
  the rows it was granted on (`SharesHold`). From it follow `PositionsStayContiguous`,
  `NoAnswerOnRetired`, and `NoDeadlock`, where in any set of transactions one waits for
  none of the others: answers about to commit wait for nobody, numbering a list waits
  only for share locks, the first update of a row for those two, and the family and
  share locks for whoever works on a family. `Refinement` maps every commit to one
  operation of `ChecklistAbs`, every other step to none. The mapped list is a `CHOOSE`
  over sorted enumerations; `RankOfSorted` shows there is one.
  Two theorems are about progress. `OperationsAreFinite`: `Remaining(t)`, the statements
  a transaction has left, goes down with each of them and is raised only by its own next
  `Begin`. `NeverStuck`: whoever waits for nobody can execute its next statement, so with
  finitely many transactions one of the unfinished can. `MayStep(t)` writes out when a
  statement can run; `PoolSuffices` is needed for insertions, each of which finds an
  unused id. Together they are what `Quiesces` needs of each state and each step.
* `Evaluation`, in `ChecklistProofs` (`EvaluationAssumption`: what an answer consists
  of). `ReadInv` says
  what a reader knows between its statements; `UntouchedAreShown` follows since a
  change of an answer, its criterion or its home touches it. `SummariesAreSound` needs
  the columns (`ColumnInv`: only validated answers and weights are stored) and sums over
  rated criteria: each rating is between 1 and 5 times its weight, so is the sum. Its
  weights are positive integers where the code has positive floats.
* `HousingProofs` (nothing is assumed of clients). The invariant adds `AllReliable`: a
  handler that has validated a group holds a group of the family its request named, or
  a group that has been deleted meanwhile, which the foreign key then refuses; one
  about to write a whole group has a caller who writes for the group's family. Both
  stay true because a row never changes its family. From it follow `GroupsFollow` and
  `OnlyWritersWrite`. `NotesArePreserved` is a fact about single statements: each
  writes the notes or anything else, never both.
* `AuthProofs` (`AuthAssumption`: the bootstrap address is an address). A handler acts
  on what it read about its caller some statements ago. That the caller changed the
  password is still true then, because only the bootstrap takes it back, which runs
  before the process serves (`NobodyYet`) and while no administrator is active
  (`BootstrapAlone`). `KeysAreOneTime` counts grants: an open key has none, and
  the UPDATE that grants one closes it.
* `Startup`, in `ServerProofs` (`EnvsAssumption`: environments name addresses that the
  model has). `ProcessInv`
  ties places to the pool: from the listener on a process has its pool, and a call is
  in flight only in a process that serves or waits for it; the pool closes after that.
  `RowsInv` says that a row's hash is the one of the password last given with the
  parameters it carries, and that an administrator without the forced change has
  replaced the password; it needs the fact that the account of a password change in
  flight exists, because rows are never deleted. `BootInv` says a process in the
  bootstrap has an address, so that the statement it leaves by wrote an administrator
  or saw one (`BootstrapFindsOrMakesAdmin`). `StopInv` has the places of `main` and what
  each implies of the call and the listener; from it follow `StopGoesOn`, which is
  `StopNeverBlocks` with the conditions of the steps written out (`MayGoOn`), and
  `StopsAreShort`: `main` is a straight line of at most thirteen steps, five after a
  signal while serving, and nobody else's step adds to those left.
  All hold for any number of processes.
* `FamiliesProofs` (`FamiliesAssumption`). The invariant says what a handler knows
  between its statements: a family in creation is its own and has no members
  (`CreatedAlone`, `NoEarlyMembers`), a checked manager is one still, a presented code
  exists and was issued by a manager of its family. From it follow owners, invitations
  and `RolesNeverChange`. The last one justifies the constant memberships of `Housing`,
  `Checklist` and `People`.
* `People`, in `FamiliesProofs` (`PeopleAssumption`). The types and `CurrentIncomeRecorded` are
  inductive together, since a statement writes a profile and its history row in one
  step. `FormsKept` says that a save that found the complete schema stays with the full
  form, and an update that found the link's column with a form that has it
  (`UsesFound`): the schema only grows, so no statement fails for want of what was found. `SavesAreComplete` follows from it.
* `PlanningProofs` (`PlanningAssumption`: forms are options and profiles with integer
  amounts). `PInv` says that stored options and options on their way to the statement
  are consistent: deferred means no grant. The core is that `granted` changes no field
  but the grant, and that `IsDeferredHousingOption` looks at the grant in one direction
  only (`DeferralKept`), so that replacing it keeps what was decided. `EInv` adds that a
  stored grant is the estimate of its own household (`GrantedSettled`: estimating
  twice is estimating once), from which `EchoIsStable` follows. `DInv` adds what a
  dashboard holds after reading the people: a household, the one of the tables if
  nobody has disturbed it; `DashboardsAreSound` then is arithmetic.
* The calculators (`FinanceAssumption`: amounts are integers, households finite). The
  arithmetic is used through what it rounds: `centsByBps` is a product and
  `ratioInBps` a quotient, rounded down (`BpsRoundsDown`, `RatioRoundsDown`). From the
  first follow that shares fit into totals and grow with amount and rate, across the
  phase-in of the employee's share too: at $750 it is at most $37.50, and any
  rate from there on is at least 5%. `NoCentIsLost` holds for amounts of
  either sign: the handler refuses neither negative downpayment rates nor negative
  fees. A negative downpayment is paid as none, and with negative fees CPF and cash
  may exceed the upfront cost; the property says so. `BandsAreInLine` also holds for all
  integers, where the run looks at the edges of the bands.
* `AccessProofs` (`AccessAssumption`). A reply is judged against the tables as they are
  while it is on its way, so `IInv` says what stays true after the statement that read
  the rows: members stay, a home stays with its family, and the id of a deleted profile
  is not given out again. Between its statements a call belongs to the user of its
  token, and a list is past `hasFamilyAccess` only for a member. For `MembersGetTheirs`
  it keeps what a call was owed when it came in: members stay members and the column
  stays, so whatever is still stored is found by the statement that reads.
* `Sums` - sums over finite sets as the community modules compute them. Induction over
  sets is out of the prover's reach as a rule of inference; the lemmas look at a
  smallest subset that fails instead, which exists by well-foundedness.

`LimiterTypes`, `HousingTypes`, `TypeCorrect`, `DeferralSurvivesSaving`,
`RefusalsAreEarned`, `BlockedOnlyForAWindow`, `StopGoesOn`,
`StopsAreShort`, `OperationsAreFinite` and `NeverStuck` are proved and not repeated in
a run.

Only model-checked: the liveness properties `ExhaustedKeyRecovers` and `Quiesces`, which
take an induction over their measures under fairness, and `StopNeverBlocks`, which
speaks of enabledness. The prover reaches neither. That `MayStep` and `MayGoOn` are the
conditions under which `Step`, and `Step` or `CallStep`, are enabled is read off the
actions and is not proved.

## Findings

* `housing_claims`: `UpdateHousingOption` validates the group against the family of
  the request, not of the row. A user who writes in both families can put an option
  into a group of the other one, where CHANGELOG.md:58 says assignment is validated
  within the same family. From then on a writer of the group's family changes the
  option through the group (`BulkUpdateHousingGroupVisibility`) without a role in the
  option's family, where CHANGELOG.md:267 says family roles are enforced for
  updates. The run shows both, one after the other. What does hold is
  `GroupsFollowClaims` and `WritersOfHomeOrGroup`.

The models also reach the following, which no run states as a property. The first
three fall short of how a text of the repository can be read, each in one order of two
concurrent requests or processes; the others contradict no text:

* A group or visibility left out of an update is read first and written back later
  (`Housing`, `ReadExisting` and `UpdateRow`), so a change committed in between is undone;
  a test (`server/housing_test.go:297`) is named for preserving omitted fields.
* A login that passed its checks before the account was disabled opens its session
  after the revocation (`Auth`). The session does not authenticate while the account is
  disabled, which is `BarredCallsRefused`; it does again if bootstrap re-enables it.
  CHANGELOG.md:183 says disabling a user revokes the active sessions.
* `EnsureBootstrapAdmin` looks for an active administrator and promotes the bootstrap
  account in a later statement. Within one process nothing comes in between
  (`BootstrapOnlyWithoutAdmin`); a second process on the same database can have made the
  account an active administrator by then, and its password is reset, where README.md:206
  says bootstrap is skipped once there is an active administrator. What survives is
  `BootstrapLeavesAdmin` and `AdminsChosePassword`. Processes that share an address are
  apart: the listener is taken before the bootstrap.
* An access key that expires between the time taken for it (server/auth.go:176) and the
  UPDATE that compares it is still consumed (`Auth`).
* An invite that expires between the statement that reads it and the one that adds the
  member still lets the member in (`Families`).
* `updated_at = now()` is the time a statement was received: of two updates of a profile
  the one applied last may carry the earlier time (`People`).
* `PASSWORD_PARALLELISM` is cut to eight bits, so that 256 becomes 0 and Argon2 panics at
  the first password (`Startup`, `PanicsHashing`).

## Plan

1. Done: all components of the inventory; theorems for every safety property of a run
   (for `StopNeverBlocks` as `StopGoesOn`), and for the measures behind the liveness
   properties.
2. Compositions left: `Limiter` with `Auth` (an account's bucket and its login),
   `Families` with `Housing` instead of constant roles, sessions in `Startup`.
3. Proofs left: the induction over the measures that turns `BlockedOnlyForAWindow` into
   `ExhaustedKeyRecovers`, and `OperationsAreFinite` with `NeverStuck` into `Quiesces`.

## Not modelled

The field by field copies between messages, domain values and columns
(`server/mapping.go`, the row scanners): straight assignments that a test compares
better than a model. Names, descriptions and notes beyond what a property is about;
explanatory texts in calculation replies; logging other than the interceptor's counts. Durations, log
level, token sizes and lifetimes of the configuration are constants where a module
needs them. Argon2 is a function of its arguments; random tokens and SHA-256 are
distinct values. The sqlc output under `repository/db` is used by no server. Wire
encoding, reflection and transport belong to the protobuf and gRPC libraries. The
unique index on housing group names, the 10000 character limit of notes, and replies
that are plain copies (users, families) are left out. The exact value of the
floating point annuity has no counterpart in TLA+; neither have fractional weights.
