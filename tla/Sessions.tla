------------------------------ MODULE Sessions ------------------------------
(***************************************************************************)
(* Which tokens of an account are accepted, by which container, and which  *)
(* outlive a new password.  decode_token checks the signature and exp;     *)
(* get_current_user then refuses a token whose iat is before               *)
(* users.password_changed_at (dependencies/auth.py).  Both times are whole *)
(* seconds, the first taken when a sign-in ends, the second before the new *)
(* password is hashed and committed (services/credentials.py).             *)
(*                                                                         *)
(* Sign-ins here are with the right password; SignIn has the others.       *)
(***************************************************************************)
EXTENDS SigningKeys

CONSTANTS
  Workers,        \* threads serving requests on this account
  ContainerOf,    \* the container each runs in
  LifeSeconds,    \* ACCESS_TOKEN_EXPIRE_MINUTES in seconds
  PerSecond,      \* ticks of the model's clock in a second
  MaxTime,        \* bound on the clock
  MaxChanges      \* bound on the number of new passwords

ASSUME SessionAssumption ==
  /\ ContainerOf \in [Workers -> Containers]
  /\ LifeSeconds \in Nat
  /\ PerSecond \in Nat \ {0}
  /\ MaxTime \in Nat /\ PerSecond <= MaxTime
  /\ MaxChanges \in Nat

VARIABLES
  now,         \* utc_now()
  changedAt,   \* users.password_changed_at in seconds, 0 for NULL
  tokens,      \* the token a client has, if it has one
  worker,      \* what each thread is doing, with what its session has loaded
  era,         \* history: how many new passwords were committed
  busy,        \* history: the second since which some thread is or was last busy
  ended,       \* history: busy when the last new password was committed
  overlapped   \* history: two requests were in progress at once

account == <<changedAt, era, ended>>
vars == <<keys, now, tokens, worker, account, busy, overlapped>>

Second(t) == t \div PerSecond

Seconds == 0 .. Second(MaxTime)

(* History: issued and password are the eras in which a token was signed   *)
(* and in which its sign-in loaded the password.                           *)
Token ==
  [iat : Seconds, issued : 0 .. MaxChanges, password : 0 .. MaxChanges, key : Keys]

Idle == [pc |-> "idle"]

Request ==
  [pc : {"login"}, password : 0 .. MaxChanges]
    \cup [pc : {"loaded", "hash"}, loaded : Seconds, stamp : Seconds]

(* exp, and issued_before_password_change.                                 *)
Expired(t) == t.iat + LifeSeconds < Second(now)
Void(t) == Expired(t) \/ t.iat < changedAt

(* decode_token and get_current_user.                                      *)
Accepted(c, t) == t.key = key[c].verify /\ ~Void(t)

-----------------------------------------------------------------------------
Init ==
  /\ KeysInit
  /\ now = PerSecond
  /\ changedAt = 0
  /\ tokens = {}
  /\ worker = [w \in Workers |-> Idle]
  /\ era = 0
  /\ busy = 0
  /\ ended = 0
  /\ overlapped = FALSE

(* Another second, or part of one, goes by.                                *)
Tick ==
  /\ now < MaxTime
  /\ now' = now + 1
  /\ UNCHANGED <<keys, tokens, worker, account, busy, overlapped>>

(* A thread of a serving container takes a request.                        *)
Begin(w, request) ==
  /\ worker[w] = Idle
  /\ ContainerOf[w] \in Serving
  /\ worker' = [worker EXCEPT ![w] = request]
  /\ IF \A v \in Workers : worker[v] = Idle
     THEN busy' = Second(now) /\ UNCHANGED overlapped
     ELSE overlapped' = TRUE /\ UNCHANGED busy
  /\ UNCHANGED <<keys, now, tokens, account>>

(* A sign-in loads the user and checks the password against that hash.     *)
LoginRead(w) == Begin(w, [pc |-> "login", password |-> era])

(* encode_token: iat is the time of signing, in whole seconds.  The client *)
(* is the one that is looked at or another.                                *)
LoginIssue(w) ==
  /\ worker[w].pc = "login"
  /\ \/ tokens' = {[iat |-> Second(now), issued |-> era, password |-> worker[w].password,
                    key |-> key[ContainerOf[w]].sign]}
     \/ UNCHANGED tokens
  /\ worker' = [worker EXCEPT ![w] = Idle]
  /\ UNCHANGED <<keys, now, account, busy, overlapped>>

(* Every path to a new password loads the user first.                      *)
SetPasswordRead(w) ==
  /\ era < MaxChanges
  /\ Begin(w, [pc |-> "loaded", loaded |-> changedAt, stamp |-> 0])

(* Faulty variant: the change is rounded up to the next second.            *)
StampRoundedUp(w) ==
  /\ worker[w].pc = "loaded"
  /\ worker' = [worker EXCEPT ![w].pc = "hash", ![w].stamp = Second(now) + 1]
  /\ UNCHANGED <<keys, now, tokens, account, busy, overlapped>>

(* set_new_password takes the time, then hashes.                           *)
Stamp(w) ==
  /\ worker[w].pc = "loaded"
  /\ worker' = [worker EXCEPT ![w].pc = "hash", ![w].stamp = Second(now)]
  /\ UNCHANGED <<keys, now, tokens, account, busy, overlapped>>

(* A new password is committed with the time it is to have.                *)
Committed(w, time) ==
  /\ worker[w].pc = "hash"
  /\ era < MaxChanges
  /\ changedAt' = time
  /\ era' = era + 1
  /\ ended' = busy
  /\ worker' = [worker EXCEPT ![w] = Idle]
  /\ UNCHANGED <<keys, now, tokens, busy, overlapped>>

(* Faulty variants: only the first change is timed, or a later one clears  *)
(* the time as it clears a lockout.                                        *)
CommitFirstOnly(w) == Committed(w, IF changedAt = 0 THEN worker[w].stamp ELSE changedAt)

CommitClearsTime(w) == Committed(w, IF worker[w].loaded = 0 THEN worker[w].stamp ELSE 0)

(* The commit writes password_changed_at where it differs from the one     *)
(* that was loaded.                                                        *)
SetPasswordCommit(w) ==
  Committed(w, IF worker[w].stamp = worker[w].loaded THEN changedAt ELSE worker[w].stamp)

Start(c) ==
  /\ StartContainer(c)
  /\ UNCHANGED <<now, tokens, worker, account, busy, overlapped>>

(* The requests in progress end with their container.                      *)
Stop(c) ==
  /\ StopContainer(c)
  /\ worker' = [w \in Workers |-> IF ContainerOf[w] = c THEN Idle ELSE worker[w]]
  /\ UNCHANGED <<now, tokens, account, busy, overlapped>>

Next ==
  \/ Tick
  \/ \E w \in Workers :
       \/ LoginRead(w) \/ LoginIssue(w)
       \/ SetPasswordRead(w) \/ Stamp(w) \/ SetPasswordCommit(w)
  \/ \E c \in Containers : Start(c) \/ Stop(c)

Spec == Init /\ [][Next]_vars

-----------------------------------------------------------------------------
(* Times are within the clock, eras within those counted, and every        *)
(* serving container has keys (models/user.py, core/security.py).          *)
TypeOK ==
  /\ KeysTypeOK
  /\ now \in 0 .. MaxTime
  /\ changedAt \in Seconds
  /\ tokens \subseteq Token
  /\ worker \in [Workers -> Request \cup {Idle}]
  /\ era \in 0 .. MaxChanges
  /\ busy \in Seconds /\ ended \in Seconds
  /\ overlapped \in BOOLEAN

(* credentials.py: "a token issued later in this same second must stay     *)
(* valid": whoever signs in with the new password is let in until the      *)
(* token expires, by every container with its key, even if the sign-in     *)
(* follows within the same second or an older change is committed late.    *)
NewSessionsWork ==
  \A t \in tokens : t.password = era /\ ~Expired(t) =>
    \A c \in Serving : t.key = key[c].verify => Accepted(c, t)

(* API_CONTRACT: "fixed signing keys, so tokens and data survive           *)
(* restarts", and config.py, which refuses to start in production with     *)
(* development-only keys: there every container verifies every token,      *)
(* whichever signed it, and so do other services with the keys it          *)
(* publishes, as long as the two key files are a pair.                     *)
KeysOutliveRestarts ==
  settings.production /\ settings.private = settings.public =>
    \A t \in tokens, c \in Serving :
      /\ t.key = key[c].verify
      /\ t.key[1] # "secret" => t.key \in Published(c)
      /\ t.key # <<"secret", "development">>

(* README, "Password changes end sessions": tokens issued before the last  *)
(* change are refused.  Whole seconds leave one exception: a token of the  *)
(* very second in which the change began.                                  *)
SameSecondOnly ==
  ~overlapped =>
    \A t \in tokens : t.issued < era => Void(t) \/ t.iat = changedAt

(* The same however requests overlap: no token outlives a change that was  *)
(* signed in a second before the requests the change overlapped with began.*)
EarlierSessionsEnd == \A t \in tokens : t.iat < ended => Void(t)

(* auth.py, change_password: "Every session that started before the change *)
(* ... must sign in again": a refused token is never accepted again.       *)
Revives == \E t \in tokens : Void(t) /\ ~Void(t)'

RefusedForGood == [][~overlapped' => ~Revives]_vars
=============================================================================
