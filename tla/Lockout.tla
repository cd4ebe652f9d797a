------------------------------ MODULE Lockout ------------------------------
(***************************************************************************)
(* What signing in promises for one account: every attempt and every new   *)
(* password is one step, the last of MAX_FAILED_LOGINS wrong passwords in  *)
(* a row locks, and a lock refuses attempts until it has run out or a new  *)
(* password is set.  SignIn is shown to implement it as long as no two     *)
(* requests overlap.                                                       *)
(***************************************************************************)
EXTENDS Naturals

CONSTANTS
  Passwords,
  NoPassword,
  MAX_FAILED_LOGINS,
  LockTicks,
  LockoutApplies      \* FALSE for a protected demo account

VARIABLES
  password,   \* the account's password
  wrong,      \* wrong passwords in a row
  lock        \* ticks left of the lock

account == <<password, wrong, lock>>

NoLock == LockTicks + 1

IsLocked == 0 < lock /\ lock <= LockTicks

MayTry == LockoutApplies => ~IsLocked

Init ==
  /\ password \in Passwords \cup {NoPassword}
  /\ wrong = 0
  /\ lock = NoLock

Unlock == wrong' = 0 /\ lock' = NoLock

(* A wrong password, of which the last of the row locks.                   *)
Guess ==
  /\ LockoutApplies /\ MayTry
  /\ \/ /\ wrong + 1 < MAX_FAILED_LOGINS
        /\ wrong' = wrong + 1
        /\ UNCHANGED lock
     \/ /\ wrong + 1 = MAX_FAILED_LOGINS
        /\ wrong' = 0
        /\ lock' = LockTicks
  /\ UNCHANGED password

(* The right password: the row begins anew.                                *)
SignIn ==
  /\ password # NoPassword
  /\ MayTry
  /\ Unlock
  /\ UNCHANGED password

(* A new password, locked or not, unless the account is protected.         *)
SetPassword(p) ==
  /\ LockoutApplies
  /\ password' = p
  /\ Unlock

Tick ==
  /\ IsLocked
  /\ lock' = lock - 1
  /\ UNCHANGED <<password, wrong>>

Next == Guess \/ SignIn \/ (\E p \in Passwords : SetPassword(p)) \/ Tick

Spec == Init /\ [][Next]_account
=============================================================================
