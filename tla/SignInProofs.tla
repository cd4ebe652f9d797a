---------------------------- MODULE SignInProofs ----------------------------
(***************************************************************************)
(* Proofs about SignIn, for any number of workers: types, that it          *)
(* implements Lockout as long as no two requests overlap, and that         *)
(* guessing is counted even if they do.  Two workers with copies of the    *)
(* same row break the other promises.                                      *)
(***************************************************************************)
EXTENDS SignIn, TLAPS

-----------------------------------------------------------------------------
(* A copy of the row has the type of a user.                               *)
LEMMA RowType ==
  ASSUME TypeOK
  PROVE  row \in [hash : Hashes, fails : Counts, lock : 0 .. LockTicks + 1]
BY DEF TypeOK, row

(* The two writers of count and lock keep their ranges.                    *)
LEMMA RecordFailedLoginType ==
  ASSUME TypeOK, NEW u \in User, RecordFailedLogin(u)
  PROVE  /\ fails' \in Counts
         /\ lock' \in 0 .. LockTicks + 1
         /\ wrong' \in Nat
BY SignInAssumption DEF TypeOK, User, Counts, RecordFailedLogin

(* Clearing the count and the lock keeps the ranges.                       *)
LEMMA ClearType ==
  ASSUME TypeOK, NEW u \in User, Clear(u)
  PROVE  /\ fails' \in Counts
         /\ lock' \in 0 .. LockTicks + 1
BY SignInAssumption DEF TypeOK, User, Counts, Clear, NoLock

(* A worker that is at some step holds a user.                             *)
LEMMA WorkerHolds ==
  ASSUME TypeOK, NEW w \in Workers, worker[w].pc \in {"login", "set"}
  PROVE  /\ worker[w] \in Working
         /\ worker[w].user \in User
         /\ worker[w].password \in Passwords
BY DEF TypeOK, Working, Idle

(* TypeOK is inductive on its own.                                         *)
LEMMA TypeStep ==
  ASSUME TypeOK, [Next]_vars
  PROVE  TypeOK'
<1>1. CASE UNCHANGED vars
  BY <1>1 DEF TypeOK, vars
<1>2. ASSUME NEW w \in Workers, NEW p \in Passwords, NEW what \in {"login", "set"},
             Start(w, what, p)
      PROVE  TypeOK'
  <2>1. [pc |-> what, password |-> p, user |-> row] \in Working
    BY RowType DEF Working, User
  <2> QED
    BY <1>2, <2>1 DEF Start, TypeOK
<1>3. ASSUME NEW w \in Workers, LoginWrong(w) PROVE TypeOK'
  <2>1. worker[w].user \in User
    BY <1>3, WorkerHolds DEF LoginWrong
  <2>2. /\ fails' \in Counts
        /\ lock' \in 0 .. LockTicks + 1
        /\ wrong' \in Nat
    BY <1>3, <2>1, RecordFailedLoginType DEF LoginWrong, TypeOK
  <2> QED
    BY <1>3, <2>2 DEF LoginWrong, Done, TypeOK
<1>4. ASSUME NEW w \in Workers, LoginRight(w) PROVE TypeOK'
  <2>1. worker[w].user \in User
    BY <1>4, WorkerHolds DEF LoginRight
  <2> QED
    BY <1>4, <2>1, ClearType DEF LoginRight, Done, TypeOK
<1>5. ASSUME NEW w \in Workers, SetPasswordCommit(w) PROVE TypeOK'
  <2>1. worker[w].user \in User /\ worker[w].password \in Passwords
    BY <1>5, WorkerHolds DEF SetPasswordCommit
  <2> QED
    BY <1>5, <2>1, ClearType DEF SetPasswordCommit, Done, TypeOK, Hashes
<1>6. ASSUME Tick PROVE TypeOK'
  BY <1>6, SignInAssumption DEF Tick, IsLocked, TypeOK
<1> QED
  BY <1>1, <1>2, <1>3, <1>4, <1>5, <1>6 DEF Next, LoginRead, SetPasswordRead

(* The initial row and idle workers have their types.                      *)
LEMMA TypeInit == Init => TypeOK
<1> SUFFICES ASSUME Init PROVE TypeOK
  OBVIOUS
<1>1. overlapped \in BOOLEAN
  BY DEF Init
<1> QED
  BY <1>1, SignInAssumption DEF Init, TypeOK, Hashes, Counts, NoLock

(* Whatever the workers' interleaving, failed_login_count stays below the  *)
(* limit and every copy is a row the table could hold (credentials.py).    *)
THEOREM TypeCorrect == Spec => []TypeOK
<1>1. TypeOK /\ [Next]_vars => TypeOK'
  BY TypeStep
<1> QED
  BY TypeInit, <1>1, PTL DEF Spec

-----------------------------------------------------------------------------
(* The inductive invariant while nothing has overlapped: one worker at     *)
(* most is busy, and its copy is still the row, but for time, which can    *)
(* run a lock down and never sets or removes one; and a sign-in that got   *)
(* past is_locked still finds no lock.                                     *)
InTurn ==
  ~overlapped => \A v, w \in Workers : worker[v] # Idle /\ worker[w] # Idle => v = w

Fresh(w) ==
  /\ worker[w].pc \in {"login", "set"} =>
       /\ worker[w].user.hash = hash
       /\ worker[w].user.fails = fails
       /\ worker[w].user.lock = NoLock <=> lock = NoLock
  /\ worker[w].pc = "login" /\ LockoutApplies => ~IsLocked

CopiesFresh == ~overlapped => \A w \in Workers : Fresh(w)

SerialInv == TypeOK /\ InTurn /\ CopiesFresh /\ CountsWrongPasswords

(* An idle worker has no copy to be out of date.                           *)
LEMMA IdleIsFresh ==
  ASSUME NEW w \in Workers, worker'[w] = Idle
  PROVE  Fresh(w)'
BY DEF Fresh, Idle

(* Workers that start when nobody is busy leave the others idle.           *)
LEMMA StartAlone ==
  ASSUME TypeOK, NEW w \in Workers, NEW p \in Passwords, NEW what, Start(w, what, p), ~overlapped'
  PROVE  /\ ~overlapped
         /\ worker'[w] = [pc |-> what, password |-> p, user |-> row]
         /\ \A v \in Workers : v # w => worker'[v] = Idle
BY DEF Start, TypeOK

(* A worker that is done leaves everybody idle.                            *)
LEMMA DoneAlone ==
  ASSUME TypeOK, InTurn, NEW w \in Workers, worker[w].pc \in {"login", "set"}, Done(w), ~overlapped'
  PROVE  ~overlapped /\ \A v \in Workers : worker'[v] = Idle
<1>1. worker[w] # Idle
  BY DEF Idle
<1> QED
  BY <1>1 DEF Done, TypeOK, InTurn

(* One worker at most is busy until requests overlap.                      *)
LEMMA InTurnStep ==
  ASSUME SerialInv, [Next]_vars
  PROVE  InTurn'
<1> SUFFICES ASSUME ~overlapped'
             PROVE  \A v, w \in Workers : worker'[v] # Idle /\ worker'[w] # Idle => v = w
  BY DEF InTurn
<1>1. CASE UNCHANGED <<worker, overlapped>>
  BY <1>1 DEF SerialInv, InTurn
<1>2. ASSUME NEW w \in Workers, NEW p \in Passwords, LoginRead(w, p) \/ SetPasswordRead(w, p)
      PROVE  \A v \in Workers : v # w => worker'[v] = Idle
  BY <1>2, StartAlone DEF LoginRead, SetPasswordRead, SerialInv
<1>3. ASSUME NEW w \in Workers, worker[w].pc \in {"login", "set"}, Done(w)
      PROVE  \A v \in Workers : worker'[v] = Idle
  BY <1>3, DoneAlone DEF SerialInv
<1> QED
  BY <1>1, <1>2, <1>3 DEF Next, vars, Tick, LoginWrong, LoginRight, SetPasswordCommit

(* The actions of a worker leave it idle or start it with the row as it    *)
(* is; the others are idle.                                                *)
LEMMA FreshStep ==
  ASSUME SerialInv, [Next]_vars
  PROVE  CopiesFresh'
<1> SUFFICES ASSUME ~overlapped' PROVE \A v \in Workers : Fresh(v)'
  BY DEF CopiesFresh
<1>1. CASE UNCHANGED vars
  BY <1>1 DEF SerialInv, CopiesFresh, Fresh, IsLocked, vars
<1>2. ASSUME NEW w \in Workers, NEW p \in Passwords, LoginRead(w, p)
      PROVE  \A v \in Workers : Fresh(v)'
  <2>1. /\ worker'[w] = [pc |-> "login", password |-> p, user |-> row]
        /\ \A v \in Workers : v # w => worker'[v] = Idle
    BY <1>2, StartAlone DEF LoginRead, SerialInv
  <2>2. Fresh(w)'
    BY <1>2, <2>1 DEF LoginRead, Start, Fresh, row, IsLocked
  <2> QED
    BY <2>1, <2>2, IdleIsFresh
<1>3. ASSUME NEW w \in Workers, NEW p \in Passwords, SetPasswordRead(w, p)
      PROVE  \A v \in Workers : Fresh(v)'
  <2>1. /\ worker'[w] = [pc |-> "set", password |-> p, user |-> row]
        /\ \A v \in Workers : v # w => worker'[v] = Idle
    BY <1>3, StartAlone DEF SetPasswordRead, SerialInv
  <2>2. Fresh(w)'
    BY <1>3, <2>1 DEF SetPasswordRead, Start, Fresh, row, IsLocked
  <2> QED
    BY <2>1, <2>2, IdleIsFresh
<1>4. ASSUME NEW w \in Workers, worker[w].pc \in {"login", "set"}, Done(w)
      PROVE  \A v \in Workers : Fresh(v)'
  BY <1>4, DoneAlone, IdleIsFresh DEF SerialInv
<1>5. ASSUME Tick PROVE \A v \in Workers : Fresh(v)'
  <2>0. ~overlapped
    BY <1>5 DEF Tick
  <2>1. ~(\E w \in Workers : worker[w].pc = "login" /\ LockoutApplies)
    BY <1>5, <2>0 DEF Tick, SerialInv, CopiesFresh, Fresh
  <2>2. lock # NoLock /\ lock' # NoLock
    BY <1>5, SignInAssumption DEF Tick, IsLocked, NoLock, SerialInv, TypeOK
  <2> SUFFICES ASSUME NEW w \in Workers PROVE Fresh(w)'
    OBVIOUS
  <2> QED
    BY <1>5, <2>0, <2>1, <2>2 DEF Tick, SerialInv, CopiesFresh, Fresh, NoLock
<1> QED
  BY <1>1, <1>2, <1>3, <1>4, <1>5 DEF Next, LoginWrong, LoginRight, SetPasswordCommit

(* The count and the history of wrong passwords move together.             *)
LEMMA CountStep ==
  ASSUME SerialInv, [Next]_vars
  PROVE  CountsWrongPasswords'
<1> SUFFICES ASSUME LockoutApplies, ~overlapped' PROVE (fails = wrong)'
  <2>1. TypeOK'
    BY TypeStep DEF SerialInv
  <2>2. fails' < MAX_FAILED_LOGINS
    BY <2>1, SignInAssumption DEF TypeOK, Counts
  <2> QED
    BY <2>2 DEF CountsWrongPasswords
<1>0. ~overlapped /\ fails = wrong
  <2>1. ~overlapped
    BY DEF Next, vars, LoginRead, SetPasswordRead, Start, Tick, LoginWrong, LoginRight,
           SetPasswordCommit, Done
  <2> QED
    BY <2>1 DEF SerialInv, CountsWrongPasswords
<1>1. CASE UNCHANGED <<fails, wrong>>
  BY <1>0, <1>1
<1>2. ASSUME NEW w \in Workers, LoginWrong(w) PROVE (fails = wrong)'
  <2>1. worker[w].user.fails = fails
    BY <1>0, <1>2 DEF LoginWrong, SerialInv, CopiesFresh, Fresh
  <2> QED
    BY <1>0, <1>2, <2>1 DEF LoginWrong, RecordFailedLogin
<1>3. ASSUME NEW w \in Workers, worker[w].pc \in {"login", "set"}, Clear(worker[w].user), wrong' = 0
      PROVE (fails = wrong)'
  <2>1. worker[w].user.fails = fails
    BY <1>0, <1>3 DEF SerialInv, CopiesFresh, Fresh
  <2> QED
    BY <1>3, <2>1 DEF Clear
<1> QED
  BY <1>1, <1>2, <1>3
  DEF Next, vars, LoginRead, SetPasswordRead, Start, Tick, LoginRight, SetPasswordCommit

(* The initial state: no copies, and no wrong password counted.            *)
LEMMA SerialInit == Init => SerialInv
<1> SUFFICES ASSUME Init PROVE SerialInv
  OBVIOUS
<1>1. TypeOK
  BY TypeInit
<1>2. CopiesFresh /\ InTurn
  BY DEF Init, CopiesFresh, Fresh, Idle, InTurn
<1>3. CountsWrongPasswords
  BY SignInAssumption DEF Init, CountsWrongPasswords
<1> QED
  BY <1>1, <1>2, <1>3 DEF SerialInv

(* The inductive invariant holds in every state.                           *)
LEMMA SerialInvariant == Spec => []SerialInv
<1>1. ASSUME SerialInv, [Next]_vars PROVE SerialInv'
  BY <1>1, TypeStep, InTurnStep, FreshStep, CountStep DEF SerialInv
<1>2. SerialInv /\ [Next]_vars => SerialInv'
  BY <1>1
<1> QED
  BY SerialInit, <1>2, PTL DEF Spec

(* README "Lockout", without overlap: failed_login_count is the number of  *)
(* wrong passwords in a row, so the limit is reached exactly when it says. *)
THEOREM CountExact == Spec => []CountsWrongPasswords
<1>1. SerialInv => CountsWrongPasswords
  BY DEF SerialInv
<1> QED
  BY SerialInvariant, <1>1, PTL

(* A protected demo account is never locked.                               *)
NeverLocked == ~LockoutApplies => lock = NoLock

LEMMA ProtectedNeverLocks == Spec => []NeverLocked
<1>1. Init => NeverLocked
  BY DEF Init, NeverLocked
<1>2. ASSUME NeverLocked, [Next]_vars PROVE NeverLocked'
  <2> SUFFICES ASSUME ~LockoutApplies PROVE lock' = NoLock
    BY DEF NeverLocked
  <2>1. lock = NoLock /\ ~IsLocked
    BY <1>2, SignInAssumption DEF NeverLocked, IsLocked, NoLock
  <2> QED
    BY <1>2, <2>1 DEF Next, vars, LoginRead, Start, SetPasswordRead, LoginWrong, LoginRight, Clear,
       SetPasswordCommit, Tick
<1>3. NeverLocked /\ [Next]_vars => NeverLocked'
  BY <1>2
<1> QED
  BY <1>1, <1>3, PTL DEF Spec

(* No overlap: no sign-in lifts, shortens or prolongs a running lock, even *)
(* one that loaded the user before (auth_service.py, login).               *)
THEOREM LockKept == Spec => LockHolds
<1>1. ASSUME SerialInv, NeverLocked, [Next]_vars PROVE [~LiftsLock]_vars
  <2> SUFFICES ASSUME LiftsLock, ~UNCHANGED vars PROVE FALSE
    OBVIOUS
  <2>1. ~overlapped /\ IsLocked /\ lock' # lock /\ ~Tick /\ ~SetsPassword
    BY DEF LiftsLock
  <2>2. LockoutApplies
    BY <1>1, <2>1, SignInAssumption DEF NeverLocked, IsLocked, NoLock
  <2>3. ASSUME NEW w \in Workers PROVE ~LoginWrong(w) /\ ~LoginRight(w)
    BY <1>1, <2>1, <2>2 DEF SerialInv, CopiesFresh, Fresh, LoginWrong, LoginRight
  <2> QED
    BY <1>1, <2>1, <2>3 DEF Next, LoginRead, SetPasswordRead, Start, SetsPassword
<1>2. SerialInv /\ NeverLocked /\ [Next]_vars => [~LiftsLock]_vars
  BY <1>1
<1> QED
  BY SerialInvariant, ProtectedNeverLocks, <1>2, PTL DEF Spec, LockHolds

(* No overlap: setting a password always ends a lock, which is how a       *)
(* locked-out user gets back in (credentials.py, set_new_password).        *)
THEOREM PasswordUnlocks == Spec => PasswordSetUnlocks
<1>1. ASSUME SerialInv, [Next]_vars PROVE [~LeavesLock]_vars
  <2> SUFFICES ASSUME LeavesLock PROVE FALSE
    OBVIOUS
  <2>1. PICK w \in Workers : SetPasswordCommit(w)
    BY DEF LeavesLock, SetsPassword
  <2>2. worker[w].user.lock = NoLock <=> lock = NoLock
    BY <1>1, <2>1 DEF LeavesLock, SetPasswordCommit, SerialInv, CopiesFresh, Fresh
  <2>3. lock' = NoLock
    BY <2>1, <2>2 DEF SetPasswordCommit, Clear
  <2>4. NoLock > LockTicks
    BY SignInAssumption DEF NoLock
  <2> QED
    BY <2>3, <2>4, SignInAssumption DEF LeavesLock, IsLocked, NoLock
<1>2. SerialInv /\ [Next]_vars => [~LeavesLock]_vars
  BY <1>1
<1> QED
  BY SerialInvariant, <1>2, PTL DEF Spec, PasswordSetUnlocks

-----------------------------------------------------------------------------
(* The refinement of Lockout, until two requests overlap.                  *)

(* A wrong password is a guess: its copy's count is the row's.             *)
LEMMA WrongIsGuess ==
  ASSUME SerialInv, ~overlapped, NEW w \in Workers, LoginWrong(w)
  PROVE  Promise!Next \/ UNCHANGED Promise!account
<1>1. CASE ~LockoutApplies
  BY <1>1 DEF LoginWrong, Promise!account
<1>2. CASE LockoutApplies
  <2>1. worker[w].user.fails = fails /\ ~IsLocked
    BY <1>2 DEF SerialInv, CopiesFresh, Fresh, LoginWrong
  <2>2. fails = wrong /\ wrong < MAX_FAILED_LOGINS /\ wrong \in Nat
    BY <1>2 DEF SerialInv, CountsWrongPasswords, TypeOK
  <2>3. RecordFailedLogin(worker[w].user) /\ hash' = hash
    BY <1>2 DEF LoginWrong
  <2>4. Promise!MayTry
    BY <2>1 DEF Promise!MayTry, Promise!IsLocked, IsLocked
  <2>5. Promise!Guess
    BY <1>2, <2>1, <2>2, <2>3, <2>4, SignInAssumption DEF RecordFailedLogin, Promise!Guess
  <2> QED
    BY <2>5 DEF Promise!Next
<1> QED
  BY <1>1, <1>2

(* A commit that clears what its copy has is a commit that clears.         *)
LEMMA ClearIsUnlock ==
  ASSUME SerialInv, ~overlapped, NEW w \in Workers, worker[w].pc \in {"login", "set"},
         Clear(worker[w].user), wrong' = 0
  PROVE  Promise!Unlock
BY DEF SerialInv, CopiesFresh, Fresh, Clear, Promise!Unlock, Promise!NoLock, NoLock

(* A protected account's password is not being set.                        *)
ProtectedKept == \A w \in Workers : worker[w].pc = "set" => LockoutApplies

LEMMA ProtectionHolds == Spec => []ProtectedKept
<1>1. Init => ProtectedKept
  BY DEF Init, ProtectedKept, Idle
<1>2. TypeOK /\ ProtectedKept /\ [Next]_vars => ProtectedKept'
  BY DEF TypeOK, ProtectedKept, Next, vars, LoginRead, SetPasswordRead, Start, Done, Idle,
         LoginWrong, LoginRight, SetPasswordCommit, Tick
<1> QED
  BY <1>1, <1>2, TypeCorrect, PTL DEF Spec

(* Every step is a step of Lockout or changes nothing of the account.      *)
LEMMA StepIsPromised ==
  ASSUME SerialInv, ProtectedKept, ~overlapped, [Next]_vars
  PROVE  Promise!Next \/ UNCHANGED Promise!account
<1>1. CASE UNCHANGED <<hash, wrong, lock>>
  BY <1>1 DEF Promise!account
<1>2. ASSUME NEW w \in Workers, LoginRight(w) PROVE Promise!Next
  <2>1. worker[w].password \in Passwords /\ hash = worker[w].password
    BY <1>2, WorkerHolds DEF SerialInv, LoginRight, CopiesFresh, Fresh
  <2>2. Promise!MayTry
    BY <1>2 DEF SerialInv, LoginRight, CopiesFresh, Fresh, Promise!MayTry, Promise!IsLocked, IsLocked
  <2>3. Promise!Unlock /\ hash' = hash
    BY <1>2, ClearIsUnlock DEF LoginRight
  <2>4. Promise!SignIn
    BY <2>1, <2>2, <2>3, SignInAssumption DEF Promise!SignIn
  <2> QED
    BY <2>4 DEF Promise!Next
<1>3. ASSUME NEW w \in Workers, SetPasswordCommit(w)
      PROVE  Promise!Next \/ UNCHANGED Promise!account
  <2>1. worker[w].password \in Passwords /\ hash' = worker[w].password
    BY <1>3, WorkerHolds DEF SerialInv, SetPasswordCommit
  <2>2. Promise!Unlock
    BY <1>3, ClearIsUnlock DEF SetPasswordCommit
  <2>3. LockoutApplies
    BY <1>3 DEF SetPasswordCommit, ProtectedKept
  <2> QED
    BY <2>1, <2>2, <2>3 DEF Promise!Next, Promise!SetPassword
<1>4. ASSUME Tick PROVE Promise!Next
  BY <1>4 DEF Tick, Promise!Next, Promise!Tick, Promise!IsLocked, IsLocked
<1> QED
  BY <1>1, <1>2, <1>3, <1>4, WrongIsGuess
     DEF Next, vars, LoginRead, SetPasswordRead, Start

(* Until two requests overlap, the statements of an attempt amount to one  *)
(* step of Lockout or to none, for any number of workers.                  *)
THEOREM AttemptsImplementLockout == Spec => AttemptsAtOnce
<1>1. Init => Promise!Init
  BY DEF Init, Promise!Init, Hashes, NoLock, Promise!NoLock
<1>2. SerialInv /\ ProtectedKept /\ [Next]_vars =>
        [~overlapped => Promise!Next \/ UNCHANGED Promise!account]_vars
  BY StepIsPromised
<1> QED
  BY <1>1, <1>2, SerialInvariant, ProtectionHolds, PTL DEF Spec, AttemptsAtOnce

(* So a service that serves one request of an account at a time implements *)
(* Lockout, whatever else its workers do meanwhile.                        *)
THEOREM InTurnIsLockout == Spec /\ []~overlapped => Promise!Spec
<1>1. Init => Promise!Init
  BY DEF Init, Promise!Init, Hashes, NoLock, Promise!NoLock
<1>2. SerialInv /\ ProtectedKept /\ ~overlapped /\ [Next]_vars => [Promise!Next]_(Promise!account)
  BY StepIsPromised
<1> QED
  BY <1>1, <1>2, SerialInvariant, ProtectionHolds, PTL DEF Spec, Promise!Spec

-----------------------------------------------------------------------------
(* Overlap: guessing climbs.                                               *)

(* The worker that records a wrong password leaves its level, and whoever  *)
(* has no copy comes to stand above it.                                    *)
LEMMA WrongClimbs ==
  ASSUME TypeOK, LockoutApplies, NEW w \in Workers, LoginWrong(w), NEW k,
         k = worker[w].user.fails, k + 1 < MAX_FAILED_LOGINS
  PROVE  Climbs(k)
<1>1. k \in Nat /\ worker[w].pc = "login"
  BY WorkerHolds DEF LoginWrong, User, Counts
<1>2. fails' = k + 1
  BY SignInAssumption, <1>1 DEF LoginWrong, RecordFailedLogin
<1>3. worker'[w].pc # "login" /\ \A v \in Workers : v # w => worker'[v] = worker[v]
  BY DEF LoginWrong, Done, TypeOK, Idle
<1>4. From(w) = k /\ From(w)' = k + 1
  BY <1>1, <1>2, <1>3 DEF From
<1>5. \A v \in Workers : From(v)' = From(v) \/ From(v)' = k + 1
  BY <1>2, <1>3, <1>4 DEF From
<1>6. \A j \in 0 .. k : Level(j)' \subseteq Level(j)
  BY <1>1, <1>5 DEF Level
<1>7. w \in Level(k) /\ w \notin Level(k)'
  BY <1>1, <1>4 DEF Level
<1> QED
  BY <1>1, <1>6, <1>7 DEF Climbs

(* A worker that takes its copy stays on its level.                        *)
LEMMA StartStays ==
  ASSUME TypeOK, NEW w \in Workers, NEW what, NEW p, Start(w, what, p)
  PROVE  \A v \in Workers : From(v)' = From(v)
<1>1. worker'[w] = [pc |-> what, password |-> p, user |-> row] /\ fails' = fails
  BY DEF Start, TypeOK
<1>2. From(w) = fails /\ From(w)' = fails
  BY <1>1 DEF Start, From, Idle, row
<1>3. \A v \in Workers : v # w => worker'[v] = worker[v]
  BY DEF Start, TypeOK
<1> QED
  BY <1>1, <1>2, <1>3 DEF From

(* However attempts overlap, each wrong password locks or climbs: with     *)
(* finitely many workers, the numbers of them on the levels 0, 1, 2, ...   *)
(* decrease in lexicographic order from guess to guess, so a lock is a     *)
(* bounded number of guesses away at every moment.                         *)
THEOREM GuessesClimb == Spec => EveryGuessCounts
<1> DEFINE Counted ==
      IF \E w \in Workers : LoginWrong(w)
      THEN \E w \in Workers, k \in Counts :
             /\ LoginWrong(w) /\ k = worker[w].user.fails
             /\ IF k + 1 < MAX_FAILED_LOGINS THEN Climbs(k) ELSE IsLocked'
      ELSE \A k \in Counts : Level(k)' = Level(k)
<1>1. ASSUME TypeOK, [Next]_vars, LockoutApplies, ~Resets PROVE Counted
  <2>1. CASE \E w \in Workers : LoginWrong(w)
    <3>1. PICK w \in Workers : LoginWrong(w)
      BY <2>1
    <3>2. worker[w].user.fails \in Counts
      BY <1>1, <3>1, WorkerHolds DEF LoginWrong, User
    <3>3. ~(worker[w].user.fails + 1 < MAX_FAILED_LOGINS) => lock' = LockTicks
      BY <1>1, <3>1, <3>2, SignInAssumption DEF LoginWrong, RecordFailedLogin, Counts
    <3>4. ~(worker[w].user.fails + 1 < MAX_FAILED_LOGINS) => IsLocked'
      BY <3>3, SignInAssumption DEF IsLocked
    <3> QED
      BY <1>1, <2>1, <3>1, <3>2, <3>4, WrongClimbs
  <2>2. CASE ~\E w \in Workers : LoginWrong(w)
    <3>1. CASE UNCHANGED <<worker, fails>>
      BY <2>2, <3>1 DEF Level, From
    <3>2. ASSUME NEW w \in Workers, NEW p \in Passwords, LoginRead(w, p) \/ SetPasswordRead(w, p)
          PROVE  \A v \in Workers : From(v)' = From(v)
      BY <1>1, <3>2, StartStays DEF LoginRead, SetPasswordRead
    <3>3. CASE \A v \in Workers : From(v)' = From(v)
      BY <2>2, <3>3 DEF Level
    <3> QED
      BY <1>1, <2>2, <3>1, <3>2, <3>3 DEF Next, vars, Tick, Resets, SetsPassword
  <2> QED
    BY <2>1, <2>2
<1>2. TypeOK /\ [Next]_vars => [LockoutApplies /\ ~Resets => Counted]_vars
  BY <1>1
<1> QED
  BY <1>2, TypeCorrect, PTL DEF Spec, EveryGuessCounts
-----------------------------------------------------------------------------
(* Overlap: why a lock ends, up to the fairness of the clock.              *)

(* The attempts that got past is_locked.                                   *)
Attempts == {w \in Workers : worker[w].pc = "login"}

(* During a lock no attempt begins, and only one that began before can set *)
(* the lock back; it does so once, as it ends with that.                   *)
LockRunsOut ==
  [][IsLocked /\ IsLocked' =>
       /\ Attempts' \subseteq Attempts
       /\ lock' <= lock \/ Attempts' # Attempts]_vars

(* Whatever the overlap, a lock can be renewed at most once for each       *)
(* attempt that began before it; everything else lets it run down          *)
(* (auth_service.py, the refusal before the check).                        *)
THEOREM LocksRunOut == Spec => LockRunsOut
<1>1. ASSUME TypeOK, NeverLocked, [Next]_vars, IsLocked, IsLocked'
      PROVE  /\ Attempts' \subseteq Attempts
             /\ lock' <= lock \/ Attempts' # Attempts
  <2>1. LockoutApplies /\ lock \in Nat
    BY <1>1, SignInAssumption DEF NeverLocked, IsLocked, NoLock, TypeOK
  <2>2. CASE UNCHANGED <<worker, lock>>
    BY <2>1, <2>2 DEF Attempts
  <2>3. ASSUME NEW w \in Workers, LoginWrong(w) \/ LoginRight(w)
        PROVE  Attempts' \subseteq Attempts /\ Attempts' # Attempts
    <3>1. worker'[w] = Idle /\ \A v \in Workers : v # w => worker'[v] = worker[v]
      BY <1>1, <2>3 DEF LoginWrong, LoginRight, Done, TypeOK
    <3>2. w \in Attempts /\ w \notin Attempts'
      BY <2>3, <3>1 DEF LoginWrong, LoginRight, Attempts, Idle
    <3> QED
      BY <3>1, <3>2 DEF Attempts
  <2>4. ASSUME NEW w \in Workers, NEW p \in Passwords, SetPasswordRead(w, p)
        PROVE  Attempts' = Attempts /\ lock' = lock
    BY <1>1, <2>4 DEF SetPasswordRead, Start, Attempts, TypeOK, Idle
  <2>5. ASSUME NEW w \in Workers, SetPasswordCommit(w)
        PROVE  Attempts' = Attempts /\ lock' = lock
    <3>1. worker'[w] = Idle /\ \A v \in Workers : v # w => worker'[v] = worker[v]
      BY <1>1, <2>5 DEF SetPasswordCommit, Done, TypeOK
    <3>2. Attempts' = Attempts
      BY <2>5, <3>1 DEF SetPasswordCommit, Attempts, Idle
    <3>3. lock' = lock
      BY <1>1, <2>5, SignInAssumption DEF SetPasswordCommit, Clear, IsLocked, NoLock
    <3> QED
      BY <3>2, <3>3
  <2>6. CASE Tick
    BY <2>1, <2>6 DEF Tick, Attempts
  <2> QED
    BY <1>1, <2>1, <2>2, <2>3, <2>4, <2>5, <2>6 DEF Next, vars, LoginRead
<1>2. TypeOK /\ NeverLocked /\ [Next]_vars =>
        [IsLocked /\ IsLocked' =>
           /\ Attempts' \subseteq Attempts
           /\ lock' <= lock \/ Attempts' # Attempts]_vars
  BY <1>1
<1> QED
  BY <1>2, TypeCorrect, ProtectedNeverLocks, PTL DEF Spec, LockRunsOut
=============================================================================
