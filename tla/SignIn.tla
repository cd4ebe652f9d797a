------------------------------- MODULE SignIn -------------------------------
(***************************************************************************)
(* Signing in to one account, the lockout after repeated wrong passwords   *)
(* and everything that sets a password (services/auth_service.py,          *)
(* services/credentials.py).                                               *)
(*                                                                         *)
(* A worker loads the user, checks a password against the copy (bcrypt, a  *)
(* slow step by design) and commits.  SQLAlchemy writes only the columns   *)
(* whose value differs from the one loaded, so a commit may overwrite      *)
(* another's columns or leave them alone, according to the copy.           *)
(***************************************************************************)
EXTENDS Naturals

CONSTANTS
  Workers,            \* threads serving requests on this account
  Passwords,
  NoPassword,         \* password_hash is NULL
  MAX_FAILED_LOGINS,
  LockTicks,          \* LOCKOUT_DURATION, in ticks of the model's clock
  LockoutApplies      \* FALSE for a protected demo account

NoLock == LockTicks + 1     \* locked_until is NULL

ASSUME SignInAssumption ==
  /\ NoPassword \notin Passwords
  /\ MAX_FAILED_LOGINS \in Nat /\ MAX_FAILED_LOGINS > 1
  /\ LockTicks \in Nat /\ LockTicks > 0
  /\ LockoutApplies \in BOOLEAN

VARIABLES
  hash,        \* users.password_hash, as the password it was made from
  fails,       \* users.failed_login_count
  lock,        \* users.locked_until, as the ticks left; 0: a moment in the past
  worker,      \* what each worker is doing, with the user as it loaded it
  wrong,       \* history: wrong passwords since the last lock, correct
               \* sign-in or new password
  overlapped   \* history: two workers have been at it at the same time

vars == <<hash, fails, lock, worker, wrong, overlapped>>

Hashes == Passwords \cup {NoPassword}

Counts == 0 .. MAX_FAILED_LOGINS - 1

User == [hash : Hashes, fails : Counts, lock : 0 .. LockTicks + 1]

Idle == [pc |-> "idle"]

Working == [pc : {"login", "set"}, password : Passwords, user : User]

row == [hash |-> hash, fails |-> fails, lock |-> lock]

IsLocked == 0 < lock /\ lock <= LockTicks

-----------------------------------------------------------------------------
Init ==
  /\ hash \in Hashes
  /\ fails = 0
  /\ lock = NoLock
  /\ worker = [w \in Workers |-> Idle]
  /\ wrong = 0
  /\ overlapped = FALSE

Start(w, what, p) ==
  /\ worker[w] = Idle
  /\ worker' = [worker EXCEPT ![w] = [pc |-> what, password |-> p, user |-> row]]
  /\ overlapped' = (overlapped \/ \E v \in Workers : worker[v] # Idle)
  /\ UNCHANGED <<hash, fails, lock, wrong>>

Done(w) ==
  /\ worker' = [worker EXCEPT ![w] = Idle]
  /\ UNCHANGED overlapped

(* Faulty variant: a running lock is not looked at.                        *)
LoginReadAnyway(w, p) == Start(w, "login", p)

(* A locked account is refused before the password is looked at.           *)
LoginRead(w, p) ==
  /\ ~(LockoutApplies /\ IsLocked)
  /\ Start(w, "login", p)

(* Faulty variants: > for >=, and a lock that keeps the count.             *)
RecordFailedLoginLate(u) ==
  IF u.fails + 1 > MAX_FAILED_LOGINS
  THEN fails' = 0 /\ lock' = LockTicks /\ wrong' = 0
  ELSE fails' = u.fails + 1 /\ lock' = lock /\ wrong' = wrong + 1

CountWithoutLock(u) ==
  /\ fails' = (u.fails + 1) % MAX_FAILED_LOGINS
  /\ lock' = lock
  /\ wrong' = IF fails' = 0 THEN 0 ELSE wrong + 1

(* record_failed_login on the copy, and the commit.                        *)
RecordFailedLogin(u) ==
  IF u.fails + 1 >= MAX_FAILED_LOGINS
  THEN fails' = 0 /\ lock' = LockTicks /\ wrong' = 0
  ELSE fails' = u.fails + 1 /\ lock' = lock /\ wrong' = wrong + 1

LoginWrong(w) ==
  /\ worker[w].pc = "login"
  /\ worker[w].password # worker[w].user.hash
  /\ IF LockoutApplies
     THEN RecordFailedLogin(worker[w].user)
     ELSE UNCHANGED <<fails, lock, wrong>>
  /\ Done(w)
  /\ UNCHANGED hash

(* Faulty variants: only the lock, or only the count, is cleared.          *)
ClearLock(u) == fails' = fails /\ lock' = IF u.lock = NoLock THEN lock ELSE NoLock

ClearCount(u) == fails' = (IF u.fails = 0 THEN fails ELSE 0) /\ lock' = lock

(* Count and lock to 0 and NULL, written where the copy has another value. *)
Clear(u) ==
  /\ fails' = IF u.fails = 0 THEN fails ELSE 0
  /\ lock' = IF u.lock = NoLock THEN lock ELSE NoLock

(* The right password clears both, before the account's status decides     *)
(* between a token and a 403 (see Sessions).                               *)
LoginRight(w) ==
  /\ worker[w].pc = "login"
  /\ worker[w].password = worker[w].user.hash
  /\ Clear(worker[w].user)
  /\ wrong' = 0
  /\ Done(w)
  /\ UNCHANGED hash

(* change_password, reset_password and set_user_password load the user.    *)
(* The last one is open to an administrator whatever the account's state,  *)
(* so nothing more restricts when a password is set than the protection.   *)
SetPasswordRead(w, p) ==
  /\ LockoutApplies                     \* ensure_not_protected_demo_account
  /\ Start(w, "set", p)

(* set_new_password on the copy, and the commit.                           *)
SetPasswordCommit(w) ==
  /\ worker[w].pc = "set"
  /\ hash' = worker[w].password
  /\ Clear(worker[w].user)
  /\ wrong' = 0
  /\ Done(w)

(* A stretch of LOCKOUT_DURATION goes by.                                  *)
Tick ==
  /\ IsLocked
  /\ lock' = lock - 1
  /\ UNCHANGED <<hash, fails, worker, wrong, overlapped>>

Next ==
  \/ \E w \in Workers :
       \/ \E p \in Passwords : LoginRead(w, p) \/ SetPasswordRead(w, p)
       \/ LoginWrong(w) \/ LoginRight(w) \/ SetPasswordCommit(w)
  \/ Tick

Spec == Init /\ [][Next]_vars

(* Time passes; nobody is obliged to sign in.                              *)
FairSpec == Spec /\ WF_vars(Tick)

-----------------------------------------------------------------------------
(* The count stays below the limit, every copy is a row the table could    *)
(* hold, and no worker keeps a user after its request (credentials.py).    *)
TypeOK ==
  /\ hash \in Hashes
  /\ fails \in Counts
  /\ lock \in 0 .. LockTicks + 1
  /\ worker \in [Workers -> Working \cup {Idle}]
  /\ wrong \in Nat
  /\ overlapped \in BOOLEAN

(* As long as attempts have not overlapped, failed_login_count is the      *)
(* number of wrong passwords in a row since the last lock, correct sign-in *)
(* or new password, and the one that reaches the limit locks               *)
(* (auth_service.py, login).                                               *)
CountsWrongPasswords ==
  LockoutApplies /\ ~overlapped => fails = wrong /\ wrong < MAX_FAILED_LOGINS

SetsPassword == \E w \in Workers : SetPasswordCommit(w)

(* Lockout, with the row as it is committed.                               *)
Promise == INSTANCE Lockout WITH password <- hash

(* As long as no two requests have overlapped, the statements of an        *)
(* attempt amount to one step of Lockout or to none: the wrong password    *)
(* that completes the row locks and no earlier one does, none counts       *)
(* during a lock, the right one clears the count, a new one the lock too   *)
(* (auth_service.py, login, with credentials.py).                          *)
AttemptsAtOnce ==
  Promise!Init /\ [][~overlapped => Promise!Next \/ UNCHANGED Promise!account]_vars

(* A running lock is not lifted or shortened by a sign-in, as long as none *)
(* has overlapped: only time and a new password end it (credentials.py,    *)
(* is_locked).                                                             *)
LiftsLock == ~overlapped /\ IsLocked /\ lock' # lock /\ ~Tick /\ ~SetsPassword

LockHolds == [][~LiftsLock]_vars

(* credentials.py, set_new_password: "a sign-in lockout is lifted": the    *)
(* account is not locked when the commit of a new password is through,     *)
(* unless requests have overlapped.                                        *)
LeavesLock == ~overlapped /\ SetsPassword /\ IsLocked'

PasswordSetUnlocks == [][~LeavesLock]_vars

(* Every lock ends, even if wrong passwords keep coming: attempts during a *)
(* lock do not prolong it (auth_service.py, the refusal before the check). *)
LockEnds == IsLocked ~> ~IsLocked

Resets == SetsPassword \/ \E w \in Workers : LoginRight(w)

(* Guessing cannot go on: with wrong passwords for ever and no correct     *)
(* sign-in or new password, the account is locked again and again, though  *)
(* overlapping attempts overwrite each other's counts.                     *)
GuessingLocks ==
  LockoutApplies =>
    ([]<><<\E w \in Workers : LoginWrong(w)>>_vars /\ <>[][~Resets]_vars => []<>IsLocked)

(* The count a worker would write from: its copy's, or the row's if it has *)
(* no copy yet.                                                            *)
From(v) == IF worker[v].pc = "login" THEN worker[v].user.fails ELSE fails

Level(k) == {v \in Workers : From(v) = k}

(* Somebody leaves level k, nobody joins it and nobody falls below it.     *)
Climbs(k) ==
  /\ Level(k)' \subseteq Level(k) /\ Level(k)' # Level(k)
  /\ \A j \in 0 .. k - 1 : Level(j)' \subseteq Level(j)

(* Why guessing cannot go on however attempts overlap: a wrong password    *)
(* locks or empties a level of the count by a worker and fills no lower    *)
(* one, and no other step refills one, but for those that reset the count. *)
EveryGuessCounts ==
  [][LockoutApplies /\ ~Resets =>
       IF \E w \in Workers : LoginWrong(w)
       THEN \E w \in Workers, k \in Counts :
              /\ LoginWrong(w) /\ k = worker[w].user.fails
              /\ IF k + 1 < MAX_FAILED_LOGINS THEN Climbs(k) ELSE IsLocked'
       ELSE \A k \in Counts : Level(k)' = Level(k)]_vars
=============================================================================
