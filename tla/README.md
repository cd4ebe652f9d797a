# The identity service in TLA+

A model of the University Identity & Auth Service (FastAPI, SQLAlchemy, SQLite or PostgreSQL): its administrators and
its audit trail, registration, sign-in lockout, password reset, sessions and signing keys, access checks, eligibility
checks and the seed at startup. TLC checks the modules on small instances and TLAPS proves what matters most for every
value of the constants.

## 1. What the system is

Endpoints are synchronous functions, so FastAPI runs each request in a thread of its pool, and
`get_db` gives each its own SQLAlchemy session. There is no row lock, no version column and no
`SELECT ... FOR UPDATE` anywhere: a handler is a sequence of statements under READ COMMITTED, and
what it read may have changed when it writes. The database's constraints are the only guard that
does not depend on time. A session keeps the objects it loaded (its identity map) until a commit,
so a later statement may decide on an old copy; an `UPDATE` contains only the columns whose value
differs from the loaded one. CPython frees the guard's `User` object when the guard returns, so the
service loads the target afresh, except when the target is `current_user`, which stays referenced.

| component | state | operations | talks to |
|---|---|---|---|
| Role assignment (`role_assignment_service.py`, `routes/roles.py`) | `user_roles` | assign, replace, revoke | lookup, guard, audit |
| Account status and deletion (`user_management_service.py`, `routes/users.py`) | `users.status`, the row | set status, delete (cascade) | lookup, guard, audit |
| Administrator guard (`admin_guard.py`, `user_lookup.py`) | none | `ensure_admin_remains`, `ensure_not_self`, `find_user_or_404` | the tables |
| Demo protection (`demo_accounts.py`) | none | `ensure_not_protected_demo_account` | settings |
| Audit trail (`audit_service.py`) | `audit_logs` | `record`, in a commit of its own | every writing route |
| Sign-in and lockout (`auth_service.py`, `credentials.py`) | `password_hash`, `failed_login_count`, `locked_until` | login, change, reset, set password | security, audit |
| Password reset (`password_reset_service.py`) | `password_reset_tokens` | request a link, reset with it | credentials, email |
| Sessions (`dependencies/auth.py`, `security.py`) | `password_changed_at`, the tokens clients hold | issue, accept, refuse | credentials, keys |
| Signing keys and settings (`config.py`, `security.py`, `main.py`) | each container's key | validate, load or generate, publish | files, environment |
| Registration, profile edits (`user_management_service.py`, `routes/users.py`) | `users` | create, update | lookup, audit |
| Role and permission checks (`dependencies/auth.py`, `permission_repository.py`) | none | `require_active_account`, `RoleChecker`, `PermissionChecker` | `users`, `user_roles`, `role_permissions` |
| Profiles, validation, role catalogue (`profile_access_service.py`, `user_validation_service.py`, `role_*_service.py`) | none | read a profile, a role, the catalogue; rename oneself | lookup, Directory client |
| Eligibility, Directory client (`eligibility_service.py`, `directory_client.py`) | none; the Directory Service's | evaluate, resolve a unit, responsibilities, affiliations | HTTP |
| Reference data, seed, startup (`reference_data.py`, `seed.py`, `scripts/start.py`) | `roles`, `permissions`, demo users | ensure, seed | the tables |
| Email, CORS, errors, logging, schemas, migrations | none | | |

What makes it correct, and what is hard about it:

* **Administrators.** An active ADMIN always remains; nobody removes their own account; a demo account is
  never changed; a request changes only the account it names, exactly as it was asked. Hard because the
  guard, the lookups and the write are separate statements, and row ids are kept between them.
* **Audit.** A committed change is recorded. Hard because the record is a second commit that first reads
  rows again.
* **Lockout.** Five wrong passwords in a row lock, a lock holds and ends, a new password lifts it. Hard
  because bcrypt sits between the load and the commit of a copy.
* **Password reset.** One link, one use, three an account and window. Hard for the same reason.
* **Registration.** What is stored is what a sign-in seeks, duplicates are refused as such, an edit changes
  what it was sent and nothing else. Hard because values are checked in one spelling and stored in another,
  and because an edit is a difference from a copy.
* **Eligibility.** A verdict is never a guess, and an ineligible account never depends on the Directory. Hard
  because one verdict joins a database and up to four calls to another service, made one after the other.
* **Sessions.** A new password ends the sessions before it and none after it. Hard because times are cut
  to seconds and taken before the commit.
* **Keys.** In production every container verifies what every other has signed, restarts included. Hard because a
  missing setting falls back to a key that lives in one process.
* **Access.** Whoever is let in was entitled, whoever is refused was not, and an answer was true of one moment,
  or of two where a rename answers. Hard because a request decides on a copy, several statements and a remote call later, and because the rules are
  written twice, as roles on the endpoints and as permissions in the catalogue.
* **Startup.** A container that serves has its data, and the seed changes nothing that is there. Hard because two
  containers of different releases seed at once, beside administrators, and either may die.

`PROJECT.json` lists the places where each of these hazards bites, with the properties that cover them.

## 2. Modules

| module | models |
|---|---|
| `AccountAdministration` | the five administrator commands, the guard, the lookups, the audit record, crashes |
| `MCAccountAdministration` | its accounts, names and symmetry for TLC |
| `AccountAdministrationProofs` | its theorems |
| `AtomicDirectory` | what the five commands promise: each is one step. `AccountAdministration` implements it |
| `SignIn`, `SignInProofs` | login, lockout and every way of setting a password, on one account |
| `Lockout` | what attempts and new passwords promise: each is one step. `SignIn` implements it |
| `PasswordReset`, `MCPasswordReset`, `PasswordResetProofs` | reset links of one account |
| `ResetLink` | what the links promise: one, used once, within the limit. `PasswordReset` implements it |
| `SigningKeys` | the settings a container starts with and the key it then has |
| `Sessions`, `MCSessions`, `SessionsProofs` | tokens and changes of password, on one account; extends `SigningKeys` |
| `Registration`, `MCRegistration`, `RegistrationProofs` | creating and editing accounts, and the lookup of a sign-in |
| `Eligibility`, `MCEligibility`, `EligibilityProofs` | one eligibility check against two changing databases |
| `Access`, `MCAccess`, `AccessProofs` | the access checks and every reading endpoint, while administrators work |
| `Startup`, `MCStartup`, `StartupProofs` | the seed in several containers at once, crashes, administrators |

Accounts do not share lockout, links or tokens, so one account is enough in `SignIn`, `PasswordReset` and
`Sessions`. They touch the
same row as `AccountAdministration` in different columns, and an `UPDATE` writes only the changed ones.

### AccountAdministration

`status`, `userRoles` and `lastRowId` are the tables and the sequence behind `user_roles.id`; `req[r]` is the
thread `r` with its session: the step it is at (`pc`), `current_user` (`actor`), the path parameter (`name`), the
command, the `User` the service loaded (`target`, with `was` and `seen`, its status and role rows as loaded)
and the id of the `UserRole` it found (`row`). `lostAudit` is history.

| steps | code |
|---|---|
| `Begin` | authentication, `RoleChecker(["ADMIN"])`, demo protection, `ensure_not_self` |
| `GuardLoad`, `GuardCount` | `ensure_admin_remains`: its lookup, then its count |
| `NotFound`, `Load` | `find_user_or_404` |
| `FindLink`, `FindNewLink` | `get_user_role_link` |
| `Assign`, `Replace`, `Revoke`, `SetStatus`, `Delete` | the flush and commit; a refused one ends the request with a 500 |
| `Refresh` | the reads after the commit, which fail if another request deleted the row |
| `Audit` | `AuditService.record` |
| `Crash` | the process dies: every session is gone, the tables stay |

Names are modelled as what the comparisons see: the lookups compare exactly and the checks compare `str.lower()` of
both sides, so `Lower` is a parameter and the instance has the demo account's university id in two spellings, of
which the protection stops both and the lookups find one. `ReuseRowIds` chooses
between a sequence (PostgreSQL) and `max(id) + 1` (SQLite without `AUTOINCREMENT`). The access checks of `Begin` are
one step here; `Access` splits them. Roles exist throughout, so `ROLE_NOT_FOUND` does not occur, and malformed
identifiers are left out.

### AtomicDirectory

Status and the pairs account and role, without requests: a command needs an actor who is an active administrator at
that moment and, where it takes an administrator away, another one who stays. `AccountAdministration!Directory` maps its
tables to these by forgetting the row ids; `ActsAtOnce` says that every step is a command
or a stutter, a crash included. It holds with one thread, and with more if removals are kept apart (section 4).

### SignIn

`hash`, `fails` and `lock` are the columns; `worker[w]` is a request with the user it loaded. `LoginRead` and
`SetPasswordRead` load, `LoginWrong`, `LoginRight` and `SetPasswordCommit` commit the difference from the
copy. `lock` counts down to 0, a moment in the past; `NoLock` is NULL. `wrong` and `overlapped` (two requests have
been in progress at once) are history. `From(w)` is the count a worker would write from, and `Level(k)` those who would
write from `k`.

### Lockout

The password, the number of wrong ones in a row and the lock, without requests or copies: `Guess`, `SignIn` and
`SetPassword` are the attempt that fails, the one that succeeds and the new password. `SignIn!Promise` maps the row's
hash to the password, and `wrong`, which the code does not keep, to itself; `AttemptsAtOnce` says that until two
requests overlap the commit of each is that step. It cannot tell a sign-in that lifts a lock from setting the same
password again; `LockHolds` can.

### PasswordReset

Links are numbered in the order of their inserts; `age` replaces the clock, and `spent` is `used_at`. `Spend` is
the `UPDATE`, whose rows are those its statement saw, and `IssueLink` or `ResetPassword` the commit that shows
them to others. The model does not delay a statement that waits for a row lock; waiting only orders two commits
that the model also explores in that order. `uses`, `overlapped` and the `older` of a request are history.

### ResetLink

The open links, how often each was used and how many are recent. `PasswordReset!Promise` maps `Open` and the size of
`Recent` to these; `LinksInTurn` says that until two requests overlap the commit of a request is `Issue`, that of a reset
`Use`, the clock `Move`, and the rest a stutter.

### SigningKeys and Sessions

`settings` is what the environment holds, the same for every container of a deployment; `key[c]` what `get_signing_keys`
caches in container `c`. `StartContainer` is the import of `main.py`: a container whose settings are not `Valid`, or
whose key files cannot be read, never serves. Values are told apart as far as `validate` and the keys do: a path is
unset, missing, a pasted key or one of two files, a secret the development one or another.

The clock has `PerSecond` ticks in a second and is the same in all containers. A sign-in loads (`LoginRead`) and signs
(`LoginIssue`); a change of password, by any of the three endpoints, loads, takes the time (`Stamp`), hashes and commits.
`Stop` ends a container with the requests in it. Tokens do not depend on each other, so `tokens` follows the one token of
a client, which any sign-in may replace. A token keeps its `iat` and its key and, as history, the era (number of
passwords committed) in which it was issued and in which its sign-in loaded the user. `busy` is the second since which
some thread has been at work, `ended` its value at the last change, and `overlapped` as above.

### Registration

`users` holds the rows, `usedIds` the internal ids given so far, `req[r]` the thread with its command and the row its
session loaded (`target`). `CheckUniversityId` and `CheckEmail` are the lookups before the write, `Insert` and `Update`
the commits, where a clash of UNIQUE columns or a row that is gone is an unhandled error (500), `Reread` the
refresh. `Strip` and `Lower` are parameters, as in `AccountAdministration`. Name and account type stand for each
other (`Kinds`): nothing compares them. `alone` is history: nothing else was committed since the request began.

### Eligibility

`active` and `roles` are what the Identity database says of the user, `units`, `responsibilities` and `affiliations` what
the Directory would answer; administrators change either side while the request `req` is on its way. `Load` is
stage 1; `ResolveUnit`, `GetResponsibilities`, `FindAffiliations` and `GetPrimary` are one call each, and
`DirectoryFails` ends any of them with 503 or 502. Of each kind of unit only the one that the query may name is told
apart. `seen` is history: for every moment since the request began, what passed and what would have been a reason.
The Directory is taken to keep its contract when it answers 200.

### Access

One request is followed, from a query `Begin` chooses: an endpoint with a `RoleChecker` or a `PermissionChecker`,
`/auth/me`, a profile, a role, either validation endpoint, or a rename of oneself. `req.me` and `req.them` are the
`User` objects of its session, and `Loaded` is what the identity map makes of a second load. `LoadCaller` is the
statement of `get_current_user` with the checks that follow without another; `QueryCodes`, `ListRole`, `Update`,
`Refresh` and `LoadTarget` are a statement each; `LookUp` is the call to the Directory. `Change` is what the actions of
`Others` have in common, one commit of another request between two of them: a status, a role assigned, replaced or
revoked, an edit of name and account type, a deletion, the grants of another release. New accounts are left out, so a
deleted one is not followed by another under the same university id. Emails and passwords are left out too, as nothing here is decided by them.
`ROLE_PERMISSIONS` and `ALLOWED_ROLES` are the two tables of the source. The
accounts' ids and university ids are one name each, since whoever is found by either is the same account. `seen` is
history: the databases of every moment of the request, and those since its own write; `told` is the last answer of
`/auth/me` that is still current. `GET /roles/{name}` is one step of the listing; handlers behind a `RoleChecker` are
the other modules' subject.

### Startup

`rows` are the committed rows of five tables, told apart by their unique keys; `container[c]` is a process of `start.py`: the
list it is in, the place in it, what its transaction has flushed and what its session will write. The queries see
committed rows and the own transaction's. `Flush` waits while another transaction holds a row with the same key (`Free`), and
fails once that has been committed, which ends the container (`Exit`); it is started again. `CreateAccount`, `DeleteAccount`,
`ChangeStatus`, `AssignRole` and `RevokeRole` are administrators, who may not touch `ProtectedDemo`.

## 3. Runs

| run | instance | shows |
|---|---|---|
| `AccountAdmin_serial` | 4 accounts (two admins, a user whose university id is another's internal id, a demo account), 2 roles, 1 thread, 4 requests, crashes, SQLite's row ids | an ADMIN remains; role changes are exact; unless the process dies, changes are recorded; every request is one command of `AtomicDirectory` |
| `AccountAdmin_overlap` | 2 threads, 3 requests, row ids from a sequence | the table stays sound, nobody removes themselves, demo accounts and other accounts stay untouched |
| `SignIn_overlap` | 2 workers, limit 5, fair clock | until they overlap: every request is one step of `Lockout`, lock holds, new password unlocks; always: every guess counts or locks, locks end, endless guessing is locked again and again |
| `PasswordReset_overlap` | 2 threads, limit 2, 4 links | until they overlap: every request is one step of `ResetLink`; always: at most one open link a thread, one use a thread, one too many a further thread, older links closed |
| `Sessions_overlap` | 2 threads in 2 containers, 11 settings, 4 seconds, life of 2, 2 changes, 2 generated keys | in production keys outlive restarts; new sessions work; a change ends earlier sessions, to the second and for good until requests overlap |
| `Registration_overlap` | 2 threads, 2 accounts and room for one, each value in two spellings, 4 requests | every spelling signs in; edits keep the rest; without overlap, duplicates in stored form are 409 and edits take effect |
| `Eligibility_changing` | 3 kinds of unit, 3 portfolios, 3 sets of affiliations, 2 changes a request, fair | verdicts and reasons were true; stage 1 comes first; there is always an answer |
| `Access_changing` | 3 accounts (one protected) in two starts, 3 of the 9 roles in use, 2 changes, another release's grants | who is let in was entitled; refusals and answers were true (a rename's of two moments); `/auth/me` tells what the endpoints go by |
| `Startup_seeding` | 2 containers of two releases, one protected demo account and one not, one more account, 1 crash, fair | whoever serves has its data; a protected demo account has its role; the seed only adds; a container serves in the end |

Three more runs expect a violation, each of a sentence in the repository that the code does not keep:

| run | sentence | what happens |
|---|---|---|
| `AccountAdmin_lost_admin` | `admin_guard.py:1` | two administrators deactivate each other; both guards counted two |
| `PasswordReset_used_twice` | `password_reset_service.py:9` | two overlapping resets with one link both set a password |
| `Registration_respelled` | `docs/API_CONTRACT.md:137` | one thread: a duplicate in another spelling is a 500 |

**What overlap breaks.** Properties with `~overlapped`, and those of the serial run, fail once two requests of one
account overlap. The slips are of one kind, a decision on a copy or on a count of its own statement, so they have no
run each: simultaneous wrong passwords count once, and a lock set while a new password is hashed survives it
(`AttemptsAtOnce`, `PasswordSetUnlocks` in `SignIn`); two links stay open, one is used twice and one more than the
limit is issued (`LinksInTurn` in `PasswordReset`); a token issued while the new password is hashed survives the
change, and a change that commits late revives refused tokens (`SameSecondOnly`, `RefusedForGood` in `Sessions`); a
change is committed and never recorded because the account or the actor was deleted before the record
(`AuditComplete`), and a replace writes over a role it did not name (`RoleWriteExact`). On SQLite, where a freed row
id is given out again, `OnlyNamedAccount` fails too. An eligibility check that finds no matching affiliation and then
reads the primary one may answer `AFFILIATION_MISMATCH` for an affiliation added in between. `FewOpen`, `NearLimit`,
`FewUses`, `EveryGuessCounts`, `GuessingLocks`, `EarlierSessionsEnd` and `AccountAdmin_overlap` say how far it can go.

**What else the models show.** Three conditions in the properties are there because the code needs them.
`ServesIfNoneTaken` assumes that no other account has a demo account's university id or email: `seed.py:42` looks demo
accounts up by their id only, and `POST /users` does not ask the protection, so an account created with such a
value makes the INSERT of every later seed fail, and no container of that release starts. `KeysOutliveRestarts` assumes
that the two key files are a pair: `security.py:75` does not compare them, and with two that are not, the service starts
and refuses every token it signs. `AnswerWasTrue` lets a rename answer with columns of one moment and role rows of another:
the columns are those of `users.py:108`, the role rows those of the lookup after it. An account of type STAFF whose one
role is TECHNICIAN renames itself; an administrator sets the type to STUDENT and then revokes TECHNICIAN between the
two; the answer says STAFF, which was effective at no moment. TLC finds such a run when the second disjunct of
`RolesExplained` is dropped; that one change is never enough is part of the property.

**Bounds.** `MaxAccepted` bounds the requests of a behaviour: four serial commands assign, replace, revoke and remove
on the same account, and three overlapping ones let a third change what the other two hold. `MaxRowId` leaves room for
every insert of those. In `PasswordReset`, `MaxLinks` exceeds the limit by what two threads can overrun; `WindowTicks`
to `LinkTicks` is 15 to 30 minutes, the defaults. `MaxTime` and `MaxChanges` allow changes in the same, the next and a
later second, tokens that expire, and both containers replaced in between; `MaxKeys` lets each generate a key.
`MaxCrashes` kills either container at any step of its seed, and losing a race ends a container without being counted.
`MaxChanges` of `Eligibility` and `Access` lets each database change once, or one twice, in every gap between two
calls. A lock of two ticks lets time pass within it. Deadlock is not checked in the runs of `AccountAdministration`
and `Registration`, whose behaviours stop when `MaxAccepted` is reached, nor in `Sessions_overlap`, where settings
that are not valid start nothing and the clock has an end. Nothing in the code waits for another request, and in the
other modules some action is always possible.

**Fairness** is assumed three times. In `SignIn_overlap` time passes (`WF_vars(Tick)`). In `Eligibility_changing` the
request goes on (`WF_vars(Evaluate)`): each call has httpx's timeout, so it ends in an answer or in `DirectoryFails`.
In `Startup_seeding` a container goes on (`WF_vars(Step(c))`): Docker and Render restart one that exits, and a
PostgreSQL INSERT that waits for a row is woken when the other transaction ends. Nobody is obliged to sign in, to
finish or to administer. `GuessingLocks` is conditional: *if* wrong passwords never cease and nothing resets the
count, locks recur.

**Mutants.** The operators called faulty variants in the modules are not part of the specifications. Each is a
plausible bug in the definition that follows it, and each property of a passing run is violated by one.

**Types.** Each module states `TypeOK`. It is proved for every value of the constants (`TypeCorrect`), so no run repeats it.

## 4. Proofs

Every theorem holds for every value of the constants that satisfies the assumptions named in the modules.

*For any number of threads, however they overlap.*

* `AccountAdministrationProofs`: `TypeCorrect`; `LinksStaySound`; `NobodyRemovesThemselves`; `DemoAccountsKept`; and,
  with ids from a sequence (`~ReuseRowIds`), `WritesStayOnAccount`. The inductive invariants say what a request holds
  is entitled: its actor passed `ensure_not_self` for that name and ids never change (`AllEntitled`); the role rows it
  saw are rows of its target (`SeenOwned`); a name that passed the protection finds no demo account (`AllDemoApart`);
  ids in sessions were issued before (`IdsIssued`), hence never belong to another account later (`AllOwnRows`). With
  reused ids the theorem is false.
* `PasswordResetProofs`: `OlderLinksClosed`, since what was open when a reset began is, from its `UPDATE` on, in the set it
  will spend or already spent (`OlderClosing`); `LimitNearlyKept`, since the recent links and the requests that passed the
  count together stay below limit plus threads (`FewPending`); `OpenLinksFew`, since each open link but
  the newest is owed by a thread of its own (`HasIssuers`); `LinkUsesFew`, since after the first use a link is spent, so
  nobody checks it any more, and what it has been used and will be is no more than there are threads (`FewUsers`).
* `SignInProofs`: `GuessesClimb`. Take, for each count below the limit, the workers that would write from it: a wrong
  password locks or empties a level by one for good, and only a reset of the count refills one. There are finitely
  many workers and levels, so guessing ends in a lock. `LocksRunOut`: during a lock no attempt begins, so each worker
  renews it at most once.
* `SessionsProofs`, for any number of threads, containers and settings: `CurrentPasswordWorks`, as no stored time is in the
  future and no sign-in has used a later password (`Causal`); `ChangesEndSessions`, as no change takes its time before the
  thread, hence the busy stretch, began (`Timed`, `Ended`); `TokensSurviveRestarts`, as every key of a production
  deployment is the one its settings name (`KeysFixed`).
* `RegistrationProofs`: `EverySpellingSignsIn`, from rows that are distinct and in stored form; `UpdatesKeepTheRest`, because
  an `UPDATE` holds only sent fields; `DuplicatesFound` and `UpdatesTakeEffect` for a request that was alone: what it
  looked up is still so at its write (`Current`).
* `EligibilityProofs`: `EligibleIsTrue`, `ReasonsAreTrue`, `IdentityComesFirst`. Past stage 1 its checks passed at one of the
  moments seen and still do unless the Identity database changed (`StageOne`); while the Directory is unchanged all
  moments agree about the relationship (`DirectoryKept`); so without changes on both sides one moment had it all.
  `RequestsComeToAnEnd`: each step lowers the number of those still to make (`Remaining`), which nothing else touches;
  `AnsweredInFive`: it begins at five at most, one statement and four calls.
* `AccessProofs`, for any accounts, grants of another release and number of changes: `OnlyEntitledAdmitted`,
  `RefusalsTrue`, `AnswersTrue`, `PromisesKept`. The caller's copy was the row at a moment seen, and that row entitled
  it so far (`CallerKnown`, `Checked`); after an own write it is a row since then (`CopyRefreshed`); no commit
  changes both type and roles of an account, so two moments that differ in both have a third (`OneAtATime`); the listing so
  far lies between the grants of two moments (`CatalogueSoFar`); the grants agree with the rules of the
  `RoleChecker`s, which no later release adds to (`GrantsMirrorRules`); and while nothing changes the copy is the row
  (`CopyFresh`, `ToldTrue`).
* `StartupProofs`, for any number of containers and any lists: `SeedAddsOnly`; `ReadyMeansSeeded`, as whatever a
  container has passed in its lists is committed, flushed or about to be written by it (`AllPrepared`), and nobody
  removes it (`Lasting`); `DemoKeepsRole`, as an account and its role are in one transaction (`AllPaired`);
  `SeedLosesRacesOnly`: the lookups that must find something do, as the names a container has flushed stay in sight
  (`AllSeeing`), so a seed fails only at an insert, and because a row it found missing has been committed since. The
  lists must be `Closed`, as those of the source are, and the demo accounts' identifiers not taken.

*Until two requests overlap*, because overlap breaks them (section 3), and for any number of threads:

* `CountExact`, `LockKept`, `PasswordUnlocks`: the busy worker's copy is the row, but for a lock that runs down (`Fresh`).
* `NewestLinkOnly`, `LinkWorksOnce`, `LimitKept`: the link checked is still open and the count still below the
  limit at the commit (`Current`), and a used link is spent (`UsedIsSpent`).
* `EarlierTokensRefused`, `RefusedStayRefused`: the token is from before the stamp, and stamps do not go back (`Orderly`).
* `AttemptsImplementLockout`, `InTurnIsLockout`: on such a copy each commit is a step of `Lockout`, and if no two
  requests of the account ever overlap, `SignIn` implements it (`Promise!Spec`). A protected account sets no password
  (`ProtectedKept`).
* `RequestsImplementResetLink`, `InTurnIsResetLink`: the same for `PasswordReset` and `ResetLink`, from `Current`.
  `NewestLinkOnly`, `LinkWorksOnce` and `LimitKept` above, and `CountExact`, are what the comments of the code claim
  one by one; the runs check them as these refinements.

*As long as removals are kept apart.* A theorem that held for one thread only would say little of a threaded server.
These hold for any number of threads under `[]P`, where `P` says which requests must not be at work at once. One
thread satisfies each `P`, and each is what a lock in the handlers would give, so the theorems also say which one is
missing. They are not properties of the code as it is: `AccountAdmin_lost_admin` and "What overlap breaks" show what
happens without. The same statements hold in local TLC runs with two threads.

* `AdminAlwaysRemains`, under `ChecksApart`: of two requests that take something from somebody, one commits before the
  other's guard looks. What the guard saw is then still true at the write (`AllHeld`), however the lookups, the
  assignments and the records overlap, crashes included.
* `RoleWritesAreExact`, under `RemovalsAlone`: while a removal is before its commit, no other request is. Then also
  the role rows the session loaded with the user, on which a replace decides whether there is anything to write, are
  still so (`AllGrounded`).
* `CommandsActAtOnce`, the refinement of `AtomicDirectory`, under `RemovalsAlone`: with `AllGrounded`, where the actor
  is still an active administrator, each commit is the command it came from; every other step is a stutter.
* `EveryChangeAudited`, under `RecordsFirst`, where the lock is kept until the record is committed: the rows a request
  reads between its change and its record are still there (`AllStillThere`).

*Model-checked only.* `LockEnds`, `GuessingLocks`, `AlwaysAnswered` and `ServesIfNoneTaken`: liveness is out of the prover's
reach. The safety half of each, what every step gains and none loses, is proved: `LocksRunOut`, `GuessesClimb`,
`RequestsComeToAnEnd`, `SeedLosesRacesOnly`; that steps are taken until nothing is left is TLC's part.

## 5. Not modelled, and the plan

Done: `AccountAdministration` and its refinement of `AtomicDirectory`, `SignIn` and `Lockout`, `PasswordReset` and
`ResetLink`, `SigningKeys` and `Sessions`, `Registration`, `Eligibility`, `Access`, `Startup`. Left, in this order:

1. `SignIn` and `Sessions` composed over one row, with the account's status.
2. The audit records of the other writing endpoints (sign-in, passwords, registration), which follow the pattern of
   `AccountAdministration!Audit`.

Left out for good:

* Email delivery: one HTTP request after the answer, whose failure is logged and changes nothing.
* The settings that have nothing to do with the keys, CORS, the error envelope, logging, health, deprecated routes: no
  state of their own. `Settings.validate` is modelled whole, with the others as one condition.
* Schemas, which reject malformed requests before a handler runs, and migrations, whose constraints are modelled where
  rows are written.
* A Directory that answers 200 outside its contract (`directory_client.py:142` takes every 200 for an active
  responsibility, an empty list too): nothing in the repository says what should happen.
* Cryptography: signatures, hashes and random tokens are taken to be exact and never to collide.
