SPECIFICATION FairSpec
CONSTANTS
  Workers = {w1, w2}
  Passwords = {p1, p2}
  NoPassword = none
  MAX_FAILED_LOGINS = 5
  LockTicks = 2
  LockoutApplies = TRUE
PROPERTIES AttemptsAtOnce EveryGuessCounts LockHolds PasswordSetUnlocks LockEnds GuessingLocks
