--------------------------- MODULE SessionsProofs ---------------------------
(***************************************************************************)
(* Proofs about Sessions, for any number of threads and containers, any    *)
(* settings and any clock: types; sign-ins with the current password; keys *)
(* in production; and which sessions a new password ends, with overlapping *)
(* requests and without.                                                   *)
(***************************************************************************)
EXTENDS Sessions, TLAPS

-----------------------------------------------------------------------------
(* Seconds follow the clock.                                               *)
LEMMA SecondGrows ==
  ASSUME NEW s \in Nat, NEW t \in Nat, s <= t
  PROVE  /\ Second(s) \in Nat
         /\ Second(s) <= Second(t)
BY SessionAssumption DEF Second

(* The second of a moment of the clock is in range.                        *)
LEMMA SecondType ==
  ASSUME NEW t \in 0 .. MaxTime
  PROVE  Second(t) \in Seconds
<1>1. Second(t) \in Nat /\ Second(t) <= Second(MaxTime) /\ Second(MaxTime) \in Nat
  BY SecondGrows, SessionAssumption
<1> QED
  BY <1>1 DEF Seconds

(* Zero is a second: the stamp of a request that has not taken the time.   *)
LEMMA SecondZero == 0 \in Seconds /\ \A s \in Seconds : s \in Nat
<1>1. Second(MaxTime) \in Nat
  BY SecondGrows, SessionAssumption
<1> QED
  BY <1>1 DEF Seconds

-----------------------------------------------------------------------------
(* The keys a container takes from valid settings, unless it generates     *)
(* them.                                                                   *)
Configured == IF settings.algorithm = "HS256" THEN Secret(settings) ELSE Files(settings)

(* A container starts with configured keys or fresh ones, and in           *)
(* production never with fresh ones.                                       *)
LEMMA StartedKeys ==
  ASSUME KeysTypeOK, NEW c \in Containers, StartContainer(c)
  PROVE  /\ KeysTypeOK'
         /\ key[c] = None /\ key' = [key EXCEPT ![c] = key'[c]] /\ key'[c] # None
         /\ settings' = settings /\ Valid(settings)
         /\ settings.production => key'[c] = Configured
<1>1. settings \in Settings
  BY KeyAssumption DEF KeysTypeOK
<1>2. settings.algorithm \in {"RS256", "HS256", "other"} /\ settings.secret \in {"development", "own"}
      /\ settings.private \in KeyPath /\ settings.public \in KeyPath
  BY <1>1 DEF Settings
<1>3. /\ Secret(settings) \in SigningKey /\ Files(settings) \in SigningKey
      /\ \A n \in 1 .. MaxKeys : Ephemeral(n) \in SigningKey
  BY <1>2 DEF Secret, Files, Ephemeral, SigningKey, Keys
<1>4. \A k \in SigningKey : k # None
  <2>1. \A x \in Keys : x # <<>>
    BY DEF Keys
  <2> QED
    BY <2>1 DEF SigningKey, None
<1>5. \A x : key' = [key EXCEPT ![c] = x] => key'[c] = x
  BY DEF KeysTypeOK
<1>6. CASE settings.algorithm = "HS256"
  <2>1. key' = [key EXCEPT ![c] = Secret(settings)] /\ generated' = generated
    BY <1>6 DEF StartContainer
  <2>2. key'[c] = Secret(settings)
    BY <1>5, <2>1
  <2> QED
    BY <1>3, <1>4, <1>6, <2>1, <2>2 DEF StartContainer, KeysTypeOK, Configured
<1>7. CASE settings.algorithm = "RS256" /\ {"unset", "missing"} \cap {settings.private, settings.public} = {}
  <2>1. key' = [key EXCEPT ![c] = Files(settings)] /\ generated' = generated
    BY <1>7 DEF StartContainer
  <2>2. key'[c] = Files(settings)
    BY <1>5, <2>1
  <2> QED
    BY <1>3, <1>4, <1>7, <2>1, <2>2 DEF StartContainer, KeysTypeOK, Configured
<1>8. CASE settings.algorithm = "RS256" /\ "unset" \in {settings.private, settings.public}
  <2>1. /\ generated < MaxKeys /\ generated' = generated + 1
        /\ key' = [key EXCEPT ![c] = Ephemeral(generated')]
    BY <1>8 DEF StartContainer
  <2>2. key'[c] = Ephemeral(generated')
    BY <1>5, <2>1
  <2>3. generated' \in 1 .. MaxKeys
    BY <2>1, KeyAssumption DEF KeysTypeOK
  <2>4. ~settings.production
    BY <1>8 DEF StartContainer, Valid
  <2> QED
    BY <1>3, <1>4, <2>1, <2>2, <2>3, <2>4 DEF StartContainer, KeysTypeOK
<1> QED
  BY <1>6, <1>7, <1>8 DEF StartContainer

(* A container that stops takes only its own keys along.                   *)
LEMMA StoppedKeys ==
  ASSUME KeysTypeOK, NEW c \in Containers, StopContainer(c)
  PROVE  /\ KeysTypeOK'
         /\ key'[c] = None /\ \A d \in Containers : d # c => key'[d] = key[d]
         /\ settings' = settings
BY DEF StopContainer, KeysTypeOK

-----------------------------------------------------------------------------
(* Whoever is busy runs in a container that serves.                        *)
Served == \A w \in Workers : worker[w] # Idle => key[ContainerOf[w]] # None

(* What a thread holds at each step.                                       *)
LEMMA WorkerHolds ==
  ASSUME TypeOK, NEW w \in Workers
  PROVE  /\ worker[w].pc \in {"idle", "login", "loaded", "hash"}
         /\ worker[w].pc = "idle" <=> worker[w] = Idle
         /\ worker[w].pc = "login" => worker[w].password \in 0 .. MaxChanges
         /\ worker[w].pc \in {"loaded", "hash"} =>
              /\ worker[w] = [pc |-> worker[w].pc, loaded |-> worker[w].loaded,
                              stamp |-> worker[w].stamp]
              /\ worker[w].loaded \in Seconds
              /\ worker[w].stamp \in Seconds
BY DEF TypeOK, Request, Idle

(* What taking a request changes.                                          *)
LEMMA BeginEffect ==
  ASSUME TypeOK, NEW w \in Workers, NEW request \in Request, Begin(w, request)
  PROVE  /\ worker'[w] = request /\ \A v \in Workers : v # w => worker'[v] = worker[v]
         /\ worker' \in [Workers -> Request \cup {Idle}]
         /\ worker[w] = Idle /\ key[ContainerOf[w]] # None
         /\ \/ (\A v \in Workers : worker[v] = Idle) /\ busy' = Second(now) /\ overlapped' = overlapped
            \/ overlapped' = TRUE /\ busy' = busy
BY DEF Begin, TypeOK, Serving

(* What the two ways to begin begin.                                       *)
LEMMA Requests ==
  ASSUME TypeOK
  PROVE  /\ [pc |-> "login", password |-> era] \in Request
         /\ [pc |-> "loaded", loaded |-> changedAt, stamp |-> 0] \in Request
BY SecondZero DEF TypeOK, Request

(* What taking the time puts into a session.                               *)
LEMMA StampEffect ==
  ASSUME TypeOK, NEW w \in Workers, Stamp(w)
  PROVE  /\ worker' = [worker EXCEPT ![w] = worker'[w]]
         /\ worker'[w] \in Request
         /\ worker'[w].pc = "hash" /\ worker[w].pc = "loaded"
         /\ worker'[w].loaded = worker[w].loaded
         /\ worker'[w].stamp = Second(now)
         /\ \A v \in Workers : v # w => worker'[v] = worker[v]
<1>1. worker[w] \in [pc : {"loaded", "hash"}, loaded : Seconds, stamp : Seconds]
  BY DEF TypeOK, Request, Idle, Stamp
<1>2. Second(now) \in Seconds
  BY SecondType DEF TypeOK
<1>3. worker' = [worker EXCEPT ![w] = [worker[w] EXCEPT !.pc = "hash", !.stamp = Second(now)]]
  BY DEF Stamp
<1>4. worker'[w] = [worker[w] EXCEPT !.pc = "hash", !.stamp = Second(now)]
  BY <1>3 DEF TypeOK
<1>5. worker' = [worker EXCEPT ![w] = worker'[w]]
  BY <1>3, <1>4
<1>6. \A v \in Workers : v # w => worker'[v] = worker[v]
  BY <1>3 DEF TypeOK
<1>7. worker'[w] = [pc |-> "hash", loaded |-> worker[w].loaded, stamp |-> Second(now)]
  BY <1>1, <1>4
<1>8. worker[w].pc = "loaded"
  BY DEF Stamp
<1>9. worker'[w] \in Request
  BY <1>1, <1>2, <1>7 DEF Request
<1> QED
  BY <1>5, <1>6, <1>7, <1>8, <1>9

(* What a sign-in hands out and what a commit leaves: both end the         *)
(* request.                                                                *)
LEMMA EndEffect ==
  ASSUME TypeOK, NEW w \in Workers, LoginIssue(w) \/ SetPasswordCommit(w)
  PROVE  /\ worker' \in [Workers -> Request \cup {Idle}]
         /\ worker'[w] = Idle /\ \A v \in Workers : v # w => worker'[v] = worker[v]
         /\ worker[w] # Idle
BY DEF LoginIssue, SetPasswordCommit, Committed, TypeOK, Idle

(* What the end of a container leaves.                                     *)
LEMMA StopEffect ==
  ASSUME TypeOK, NEW c \in Containers, Stop(c)
  PROVE  /\ worker' \in [Workers -> Request \cup {Idle}]
         /\ \A v \in Workers : worker'[v] = Idle \/ (worker'[v] = worker[v] /\ ContainerOf[v] # c)
BY DEF Stop, TypeOK

(* Every step keeps the ranges.                                            *)
LEMMA TypeStep ==
  ASSUME TypeOK, Served, [Next]_vars
  PROVE  TypeOK'
<1>1. CASE UNCHANGED vars
  BY <1>1 DEF TypeOK, KeysTypeOK, vars, keys, account
<1>2. CASE Tick
  BY <1>2, SessionAssumption DEF Tick, TypeOK, KeysTypeOK, keys, account
<1>3. Second(now) \in Seconds
  BY SecondType DEF TypeOK
<1>4. ASSUME NEW w \in Workers, NEW r \in Request, Begin(w, r) PROVE TypeOK'
  BY <1>3, <1>4, BeginEffect DEF Begin, TypeOK, KeysTypeOK, keys, account
<1>5. ASSUME NEW w \in Workers, LoginIssue(w) PROVE TypeOK'
  <2>1. worker[w].password \in 0 .. MaxChanges /\ worker[w] # Idle
    BY <1>5, WorkerHolds, EndEffect DEF LoginIssue
  <2>2. key[ContainerOf[w]].sign \in Keys
    <3>1. key[ContainerOf[w]] \in SigningKey
      BY <2>1, SessionAssumption DEF Served, TypeOK, KeysTypeOK
    <3> QED
      BY <3>1 DEF SigningKey
  <2>3. tokens' \subseteq Token
    BY <1>3, <1>5, <2>1, <2>2 DEF LoginIssue, TypeOK, Token
  <2> QED
    BY <1>5, <2>3, EndEffect DEF LoginIssue, TypeOK, KeysTypeOK, keys, account
<1>6. ASSUME NEW w \in Workers, Stamp(w) PROVE TypeOK'
  BY <1>6, StampEffect DEF Stamp, TypeOK, KeysTypeOK, keys, account
<1>7. ASSUME NEW w \in Workers, SetPasswordCommit(w) PROVE TypeOK'
  <2>1. worker[w].stamp \in Seconds
    BY <1>7, WorkerHolds DEF SetPasswordCommit, Committed
  <2>2. changedAt' \in Seconds /\ era' \in 0 .. MaxChanges
    BY <1>7, <2>1, SessionAssumption DEF SetPasswordCommit, Committed, TypeOK
  <2> QED
    BY <1>7, <2>2, EndEffect DEF SetPasswordCommit, Committed, TypeOK, KeysTypeOK, keys
<1>8. ASSUME NEW c \in Containers, Start(c) PROVE TypeOK'
  <2>1. KeysTypeOK'
    BY <1>8, StartedKeys DEF Start, TypeOK
  <2> QED
    BY <1>8, <2>1 DEF Start, TypeOK, account
<1>9. ASSUME NEW c \in Containers, Stop(c) PROVE TypeOK'
  <2>1. KeysTypeOK'
    BY <1>9, StoppedKeys DEF Stop, TypeOK
  <2> QED
    BY <1>9, <2>1, StopEffect DEF Stop, TypeOK, account
<1> QED
  BY <1>1, <1>2, <1>4, <1>5, <1>6, <1>7, <1>8, <1>9, Requests
  DEF Next, LoginRead, SetPasswordRead

(* Every step keeps busy threads in serving containers.                    *)
LEMMA ServedStep ==
  ASSUME TypeOK, Served, [Next]_vars
  PROVE  Served'
<1>1. CASE UNCHANGED <<key, worker>>
  BY <1>1 DEF Served
<1>2. ASSUME NEW w \in Workers, NEW r \in Request, Begin(w, r) PROVE Served'
  BY <1>2, BeginEffect DEF Begin, Served, keys
<1>3. ASSUME NEW w \in Workers, LoginIssue(w) \/ SetPasswordCommit(w) PROVE Served'
  <2>1. key' = key
    BY <1>3 DEF LoginIssue, SetPasswordCommit, Committed, keys
  <2> QED
    BY <1>3, <2>1, EndEffect DEF Served
<1>4. ASSUME NEW w \in Workers, Stamp(w) PROVE Served'
  <2>1. key' = key /\ worker[w] # Idle
    BY <1>4 DEF Stamp, keys, Idle
  <2> QED
    BY <1>4, <2>1, StampEffect DEF Served
<1>5. ASSUME NEW c \in Containers, Start(c) PROVE Served'
  <2>1. \A d \in Containers : key[d] # None => key'[d] # None
    BY <1>5, StartedKeys DEF Start, TypeOK, KeysTypeOK
  <2> QED
    BY <1>5, <2>1, SessionAssumption DEF Start, Served
<1>6. ASSUME NEW c \in Containers, Stop(c) PROVE Served'
  <2>1. \A d \in Containers : d # c => key'[d] = key[d]
    BY <1>6, StoppedKeys DEF Stop, TypeOK
  <2> QED
    BY <1>6, <2>1, StopEffect, SessionAssumption DEF Served
<1> QED
  BY <1>1, <1>2, <1>3, <1>4, <1>5, <1>6, Requests
  DEF Next, LoginRead, SetPasswordRead, vars, Tick, keys
-----------------------------------------------------------------------------
(* No time is in the future and no sign-in used a later password; tokens   *)
(* of the current password are from after its change.                      *)
Causal ==
  /\ changedAt <= Second(now) /\ busy <= Second(now)
  /\ \A w \in Workers :
       /\ worker[w].pc = "hash" => worker[w].stamp <= Second(now)
       /\ worker[w].pc = "login" => worker[w].password <= era
  /\ \A t \in tokens :
       /\ t.iat <= Second(now) /\ t.password <= era
       /\ t.password = era => changedAt <= t.iat

(* What a change has loaded was the time when the thread began; whatever   *)
(* was committed since is not before the threads became busy, and neither  *)
(* is a stamp.                                                             *)
Timed(w) ==
  /\ worker[w].pc = "hash" => busy <= worker[w].stamp
  /\ worker[w].pc \in {"loaded", "hash"} /\ worker[w].loaded # changedAt => busy <= changedAt

Ended == ended <= changedAt

Inv ==
  /\ TypeOK
  /\ Served
  /\ Causal
  /\ \A w \in Workers : Timed(w)
  /\ Ended

(* The times in the invariant are numbers.                                 *)
LEMMA Numbers ==
  ASSUME TypeOK
  PROVE  /\ Second(now) \in Nat /\ era \in Nat /\ changedAt \in Nat /\ busy \in Nat /\ ended \in Nat
         /\ \A w \in Workers :
              /\ worker[w].pc = "login" => worker[w].password \in Nat
              /\ worker[w].pc \in {"loaded", "hash"} =>
                   worker[w].loaded \in Nat /\ worker[w].stamp \in Nat
         /\ \A t \in tokens : t.iat \in Nat /\ t.password \in Nat /\ t.issued \in Nat
<1>1. Second(now) \in Seconds
  BY SecondType DEF TypeOK
<1>2. \A n \in 0 .. MaxChanges : n \in Nat
  BY SessionAssumption
<1>3. \A t \in tokens : t.iat \in Seconds /\ t.password \in 0 .. MaxChanges /\ t.issued \in 0 .. MaxChanges
  BY DEF TypeOK, Token
<1>4. \A w \in Workers :
        /\ worker[w].pc = "login" => worker[w].password \in 0 .. MaxChanges
        /\ worker[w].pc \in {"loaded", "hash"} =>
             worker[w].loaded \in Seconds /\ worker[w].stamp \in Seconds
  BY WorkerHolds
<1> QED
  BY <1>1, <1>2, <1>3, <1>4, SecondZero DEF TypeOK

(* A commit's time is not before the threads became busy.                  *)
LEMMA CommitTime ==
  ASSUME Inv, NEW w \in Workers, SetPasswordCommit(w)
  PROVE  /\ busy <= changedAt' /\ changedAt' <= Second(now)
         /\ changedAt' \in Nat
         /\ era' = era + 1 /\ ended' = busy /\ busy' = busy /\ now' = now /\ tokens' = tokens
<1>1. /\ worker[w].pc = "hash" /\ era' = era + 1 /\ ended' = busy /\ busy' = busy
      /\ now' = now /\ tokens' = tokens
      /\ changedAt' = IF worker[w].stamp = worker[w].loaded THEN changedAt ELSE worker[w].stamp
  BY DEF SetPasswordCommit, Committed
<1>2. /\ worker[w].stamp <= Second(now) /\ changedAt <= Second(now) /\ busy <= worker[w].stamp
      /\ worker[w].loaded # changedAt => busy <= changedAt
  BY <1>1 DEF Inv, Causal, Timed
<1>3. worker[w].stamp \in Nat /\ changedAt \in Nat
  BY <1>1, Numbers DEF Inv
<1> QED
  BY <1>1, <1>2, <1>3

(* Every step keeps times and passwords out of the future.                 *)
LEMMA CausalStep ==
  ASSUME Inv, [Next]_vars
  PROVE  Causal'
<1>1. /\ Second(now) \in Nat /\ era \in Nat /\ changedAt \in Nat /\ busy \in Nat
      /\ \A t \in tokens : t.iat \in Nat /\ t.password \in Nat
      /\ \A w \in Workers :
           /\ worker[w].pc = "login" => worker[w].password \in Nat
           /\ worker[w].pc = "hash" => worker[w].stamp \in Nat
  BY Numbers DEF Inv
<1>2. now' = now => Second(now)' = Second(now)
  BY DEF Second
<1>3. CASE UNCHANGED vars
  BY <1>2, <1>3 DEF Inv, Causal, vars, account
<1>4. CASE Tick
  <2>1. Second(now) <= Second(now') /\ Second(now') \in Nat
    BY <1>4, SecondGrows DEF Tick, Inv, TypeOK
  <2>2. Second(now)' = Second(now')
    BY DEF Second
  <2> QED
    BY <1>1, <1>4, <2>1, <2>2 DEF Tick, Inv, Causal, account
<1>5. ASSUME NEW w \in Workers, LoginRead(w) PROVE Causal'
  <2> DEFINE r == [pc |-> "login", password |-> era]
  <2>1. Begin(w, r) /\ r \in Request
    BY <1>5, Requests DEF LoginRead, Inv
  <2>2. /\ worker'[w] = r /\ \A v \in Workers : v # w => worker'[v] = worker[v]
        /\ busy' = Second(now) \/ busy' = busy
    BY <2>1, BeginEffect DEF Inv
  <2>3. UNCHANGED <<now, tokens, changedAt, era>>
    BY <2>1 DEF Begin, account
  <2>4. \A v \in Workers :
          /\ worker'[v].pc = "hash" => worker'[v].stamp <= Second(now)
          /\ worker'[v].pc = "login" => worker'[v].password <= era
    BY <1>1, <2>2 DEF Inv, Causal
  <2> QED
    BY <1>1, <1>2, <2>2, <2>3, <2>4 DEF Inv, Causal
<1>6. ASSUME NEW w \in Workers, SetPasswordRead(w) PROVE Causal'
  <2> DEFINE r == [pc |-> "loaded", loaded |-> changedAt, stamp |-> 0]
  <2>1. Begin(w, r) /\ r \in Request
    BY <1>6, Requests DEF SetPasswordRead, Inv
  <2>2. /\ worker'[w] = r /\ \A v \in Workers : v # w => worker'[v] = worker[v]
        /\ busy' = Second(now) \/ busy' = busy
    BY <2>1, BeginEffect DEF Inv
  <2>3. UNCHANGED <<now, tokens, changedAt, era>>
    BY <2>1 DEF Begin, account
  <2>4. \A v \in Workers :
          /\ worker'[v].pc = "hash" => worker'[v].stamp <= Second(now)
          /\ worker'[v].pc = "login" => worker'[v].password <= era
    BY <1>1, <2>2 DEF Inv, Causal
  <2> QED
    BY <1>1, <1>2, <2>2, <2>3, <2>4 DEF Inv, Causal
<1>7. ASSUME NEW w \in Workers, LoginIssue(w) PROVE Causal'
  <2>1. /\ worker'[w] = Idle /\ \A v \in Workers : v # w => worker'[v] = worker[v]
    BY <1>7, EndEffect DEF Inv
  <2>2. UNCHANGED <<now, changedAt, era, busy>> /\ worker[w].pc = "login"
    BY <1>7 DEF LoginIssue, account
  <2>3. worker[w].password <= era /\ changedAt <= Second(now)
    BY <2>2 DEF Inv, Causal
  <2>4. \A t \in tokens' :
          \/ t \in tokens
          \/ t.iat = Second(now) /\ t.password = worker[w].password
    BY <1>7 DEF LoginIssue
  <2>5. \A t \in tokens' :
          /\ t.iat <= Second(now) /\ t.password <= era
          /\ t.password = era => changedAt <= t.iat
    BY <1>1, <2>3, <2>4 DEF Inv, Causal
  <2>6. \A v \in Workers :
          /\ worker'[v].pc = "hash" => worker'[v].stamp <= Second(now)
          /\ worker'[v].pc = "login" => worker'[v].password <= era
    BY <2>1 DEF Inv, Causal, Idle
  <2> QED
    BY <1>2, <2>2, <2>5, <2>6 DEF Inv, Causal
<1>8. ASSUME NEW w \in Workers, Stamp(w) PROVE Causal'
  <2>1. /\ worker'[w].pc = "hash" /\ worker'[w].stamp = Second(now)
        /\ \A v \in Workers : v # w => worker'[v] = worker[v]
    BY <1>8, StampEffect DEF Inv
  <2>2. UNCHANGED <<now, tokens, changedAt, era, busy>>
    BY <1>8 DEF Stamp, account
  <2>3. \A v \in Workers :
          /\ worker'[v].pc = "hash" => worker'[v].stamp <= Second(now)
          /\ worker'[v].pc = "login" => worker'[v].password <= era
    BY <1>1, <2>1 DEF Inv, Causal
  <2> QED
    BY <1>2, <2>2, <2>3 DEF Inv, Causal
<1>9. ASSUME NEW w \in Workers, SetPasswordCommit(w) PROVE Causal'
  <2>1. /\ changedAt' <= Second(now) /\ era' = era + 1
        /\ busy' = busy /\ now' = now /\ tokens' = tokens
    BY <1>9, CommitTime
  <2>2. worker'[w] = Idle /\ \A v \in Workers : v # w => worker'[v] = worker[v]
    BY <1>9, EndEffect DEF Inv
  <2>3. \A v \in Workers :
          /\ worker'[v].pc = "hash" => worker'[v].stamp <= Second(now)
          /\ worker'[v].pc = "login" => worker'[v].password <= era'
    BY <1>1, <2>1, <2>2 DEF Inv, Causal, Idle
  <2>4. \A t \in tokens : t.iat <= Second(now) /\ t.password <= era' /\ t.password # era'
    BY <1>1, <2>1 DEF Inv, Causal
  <2> QED
    BY <1>2, <2>1, <2>3, <2>4 DEF Inv, Causal
<1>10. ASSUME NEW c \in Containers, Start(c) PROVE Causal'
  BY <1>2, <1>10 DEF Start, account, Inv, Causal
<1>11. ASSUME NEW c \in Containers, Stop(c) PROVE Causal'
  <2>1. \A v \in Workers : worker'[v] = Idle \/ worker'[v] = worker[v]
    BY <1>11, StopEffect DEF Inv
  <2>2. \A v \in Workers :
          /\ worker'[v].pc = "hash" => worker'[v].stamp <= Second(now)
          /\ worker'[v].pc = "login" => worker'[v].password <= era
    BY <2>1 DEF Inv, Causal, Idle
  <2> QED
    BY <1>2, <1>11, <2>2 DEF Stop, account, Inv, Causal
<1> QED
  BY <1>3, <1>4, <1>5, <1>6, <1>7, <1>8, <1>9, <1>10, <1>11 DEF Next

(* Every step keeps what is loaded and stamped within the busy time.       *)
LEMMA TimedStep ==
  ASSUME Inv, [Next]_vars, NEW v \in Workers
  PROVE  Timed(v)'
<1>1. /\ Second(now) \in Nat /\ busy \in Nat /\ busy <= Second(now) /\ Timed(v)
      /\ worker[v] = Idle <=> worker[v].pc = "idle"
  BY Numbers, WorkerHolds DEF Inv, Causal
<1>2. CASE UNCHANGED <<worker, changedAt, busy>>
  BY <1>1, <1>2 DEF Timed
<1>3. ASSUME NEW w \in Workers, NEW r \in Request, Begin(w, r),
             r.pc = "login" \/ (r.pc = "loaded" /\ r.loaded = changedAt)
      PROVE  Timed(v)'
  <2>1. /\ worker'[w] = r /\ \A u \in Workers : u # w => worker'[u] = worker[u]
        /\ (\A u \in Workers : worker[u] = Idle) \/ busy' = busy
    BY <1>3, BeginEffect DEF Inv
  <2>2. changedAt' = changedAt
    BY <1>3 DEF Begin, account
  <2>3. CASE v = w
    BY <1>3, <2>1, <2>2, <2>3 DEF Timed
  <2>4. CASE v # w
    BY <1>1, <2>1, <2>2, <2>4 DEF Timed
  <2> QED
    BY <2>3, <2>4
<1>4. ASSUME NEW w \in Workers, LoginIssue(w) PROVE Timed(v)'
  <2>1. worker'[v] = Idle \/ worker'[v] = worker[v]
    BY <1>4, EndEffect DEF Inv
  <2>2. UNCHANGED <<changedAt, busy>>
    BY <1>4 DEF LoginIssue, account
  <2> QED
    BY <1>1, <2>1, <2>2 DEF Timed, Idle
<1>5. ASSUME NEW w \in Workers, Stamp(w) PROVE Timed(v)'
  <2>1. /\ worker'[w].pc = "hash" /\ worker'[w].stamp = Second(now) /\ worker[w].pc = "loaded"
        /\ worker'[w].loaded = worker[w].loaded
        /\ \A u \in Workers : u # w => worker'[u] = worker[u]
    BY <1>5, StampEffect DEF Inv
  <2>2. UNCHANGED <<changedAt, busy>>
    BY <1>5 DEF Stamp, account
  <2> QED
    BY <1>1, <2>1, <2>2 DEF Timed
<1>6. ASSUME NEW w \in Workers, SetPasswordCommit(w) PROVE Timed(v)'
  <2>1. worker'[v] = Idle \/ worker'[v] = worker[v]
    BY <1>6, EndEffect DEF Inv
  <2>2. busy <= changedAt' /\ busy' = busy
    BY <1>6, CommitTime
  <2> QED
    BY <1>1, <2>1, <2>2 DEF Timed, Idle
<1>7. ASSUME NEW c \in Containers, Stop(c) PROVE Timed(v)'
  <2>1. worker'[v] = Idle \/ worker'[v] = worker[v]
    BY <1>7, StopEffect DEF Inv
  <2>2. UNCHANGED <<changedAt, busy>>
    BY <1>7 DEF Stop, account
  <2> QED
    BY <1>1, <2>1, <2>2 DEF Timed, Idle
<1>8. ASSUME NEW w \in Workers, LoginRead(w) \/ SetPasswordRead(w) PROVE Timed(v)'
  BY <1>3, <1>8, Requests DEF LoginRead, SetPasswordRead, Inv
<1> QED
  BY <1>2, <1>4, <1>5, <1>6, <1>7, <1>8 DEF Next, vars, account, Tick, Start

(* Every step keeps the time of the last change within its busy time.      *)
LEMMA EndedStep ==
  ASSUME Inv, [Next]_vars
  PROVE  Ended'
<1>1. CASE UNCHANGED account
  BY <1>1 DEF Inv, Ended, account
<1>2. ASSUME NEW w \in Workers, SetPasswordCommit(w) PROVE Ended'
  BY <1>2, CommitTime DEF Ended
<1> QED
  BY <1>1, <1>2
  DEF Next, vars, Tick, LoginRead, LoginIssue, SetPasswordRead, Begin, Stamp, Start, Stop

(* Nothing is in the future at the start.                                  *)
LEMMA InvInit == Init => Inv
<1> SUFFICES ASSUME Init PROVE Inv
  OBVIOUS
<1>1. Second(now) \in Nat /\ 0 \in Seconds
  BY SecondGrows, SecondZero, SessionAssumption DEF Init
<1>2. TypeOK
  <2>1. KeysTypeOK
    BY KeyAssumption DEF Init, KeysInit, KeysTypeOK
  <2>2. now \in 0 .. MaxTime /\ era \in 0 .. MaxChanges
    BY SessionAssumption DEF Init
  <2>3. tokens \subseteq Token /\ worker \in [Workers -> Request \cup {Idle}]
    BY DEF Init
  <2> QED
    BY <1>1, <2>1, <2>2, <2>3 DEF Init, TypeOK
<1>3. \A w \in Workers : worker[w] = Idle /\ worker[w].pc = "idle"
  BY DEF Init, Idle
<1> QED
  BY <1>1, <1>2, <1>3 DEF Init, Inv, Served, Causal, Timed, Ended

(* What is kept for any number of threads holds at every moment.           *)
LEMMA Invariant == Spec => []Inv
<1>1. ASSUME Inv, [Next]_vars PROVE Inv'
  <2>1. \A w \in Workers : Timed(w)'
    BY <1>1, TimedStep
  <2>2. TypeOK' /\ Served'
    BY <1>1, TypeStep, ServedStep DEF Inv
  <2>3. Causal' /\ Ended'
    BY <1>1, CausalStep, EndedStep
  <2> QED
    BY <2>1, <2>2, <2>3 DEF Inv
<1>2. Inv /\ [Next]_vars => Inv'
  BY <1>1
<1> QED
  BY InvInit, <1>2, PTL DEF Spec

(* Times stay within the clock, every token and session is complete, and   *)
(* every serving container has keys.                                       *)
THEOREM TypeCorrect == Spec => []TypeOK
<1>1. Inv => TypeOK
  BY DEF Inv
<1> QED
  BY Invariant, <1>1, PTL

(* credentials.py: "a token issued later in this same second must stay     *)
(* valid", for any number of threads and changes committed in any order: a *)
(* sign-in with the current password is let in until it expires, wherever  *)
(* its key is known.                                                       *)
THEOREM CurrentPasswordWorks == Spec => []NewSessionsWork
<1>1. Inv => NewSessionsWork
  <2> SUFFICES ASSUME Inv, NEW t \in tokens, t.password = era, ~Expired(t)
               PROVE  ~Void(t)
    BY DEF NewSessionsWork, Accepted
  <2>1. changedAt <= t.iat
    BY DEF Inv, Causal
  <2>2. changedAt \in Nat /\ t.iat \in Nat
    BY Numbers DEF Inv
  <2> QED
    BY <2>1, <2>2 DEF Void
<1> QED
  BY Invariant, <1>1, PTL

(* README, "Password changes end sessions", however requests overlap: no   *)
(* token outlives a change that was signed in a second before the requests *)
(* it overlapped with began.                                               *)
THEOREM ChangesEndSessions == Spec => []EarlierSessionsEnd
<1>1. Inv => EarlierSessionsEnd
  <2> SUFFICES ASSUME Inv, NEW t \in tokens, t.iat < ended
               PROVE  t.iat < changedAt
    BY DEF EarlierSessionsEnd, Void
  <2>1. ended <= changedAt
    BY DEF Inv, Ended
  <2>2. ended \in Nat /\ changedAt \in Nat /\ t.iat \in Nat
    BY Numbers DEF Inv
  <2> QED
    BY <2>1, <2>2
<1> QED
  BY Invariant, <1>1, PTL

-----------------------------------------------------------------------------
(* In production every serving container has the configured keys, and      *)
(* every token is signed with them.                                        *)
KeysFixed ==
  settings.production =>
    /\ \A c \in Serving : Valid(settings) /\ key[c] = Configured
    /\ \A t \in tokens : Valid(settings) /\ t.key = Configured.sign

(* Every step keeps production to its configured keys.                     *)
LEMMA KeysStep ==
  ASSUME Inv, KeysFixed, [Next]_vars
  PROVE  KeysFixed'
<1>1. settings' = settings => Configured' = Configured
  BY DEF Configured
<1>2. CASE UNCHANGED <<settings, key, tokens>>
  BY <1>1, <1>2 DEF KeysFixed, Serving
<1>3. ASSUME NEW w \in Workers, LoginIssue(w) PROVE KeysFixed'
  <2>1. settings' = settings /\ key' = key
    BY <1>3 DEF LoginIssue, keys
  <2>2. worker[w] # Idle
    BY <1>3, EndEffect DEF Inv
  <2>3. ContainerOf[w] \in Serving
    BY <2>2, SessionAssumption DEF Inv, Served, Serving
  <2>4. \A t \in tokens' : t \in tokens \/ t.key = key[ContainerOf[w]].sign
    BY <1>3 DEF LoginIssue
  <2> QED
    BY <1>1, <2>1, <2>3, <2>4 DEF KeysFixed, Serving
<1>4. ASSUME NEW c \in Containers, Start(c) PROVE KeysFixed'
  <2>1. /\ key' = [key EXCEPT ![c] = key'[c]]
        /\ settings' = settings /\ Valid(settings)
        /\ settings.production => key'[c] = Configured
    BY <1>4, StartedKeys DEF Start, Inv, TypeOK
  <2>2. \A d \in Containers : d # c => key'[d] = key[d]
    BY <2>1 DEF Inv, TypeOK, KeysTypeOK
  <2>3. tokens' = tokens
    BY <1>4 DEF Start
  <2> QED
    BY <1>1, <2>1, <2>2, <2>3 DEF KeysFixed, Serving
<1>5. ASSUME NEW c \in Containers, Stop(c) PROVE KeysFixed'
  <2>1. /\ key'[c] = None /\ \A d \in Containers : d # c => key'[d] = key[d]
        /\ settings' = settings
    BY <1>5, StoppedKeys DEF Stop, Inv, TypeOK
  <2>2. tokens' = tokens
    BY <1>5 DEF Stop
  <2> QED
    BY <1>1, <2>1, <2>2 DEF KeysFixed, Serving
<1> QED
  BY <1>2, <1>3, <1>4, <1>5
  DEF Next, vars, keys, Tick, LoginRead, SetPasswordRead, Begin, Stamp, SetPasswordCommit, Committed

(* API_CONTRACT: "fixed signing keys, so tokens ... survive restarts": in  *)
(* production, whatever starts and stops, every container and every other  *)
(* service verifies every token, and none is signed with the development   *)
(* secret.                                                                 *)
THEOREM TokensSurviveRestarts == Spec => []KeysOutliveRestarts
<1>1. Init => KeysFixed
  BY DEF Init, KeysInit, KeysFixed, Serving
<1>2. Inv /\ KeysFixed /\ [Next]_vars => KeysFixed'
  BY KeysStep
<1>3. ASSUME Inv, KeysFixed PROVE KeysOutliveRestarts
  <2> SUFFICES ASSUME settings.production, settings.private = settings.public,
                      NEW t \in tokens, NEW c \in Serving
               PROVE  /\ t.key = key[c].verify
                      /\ t.key[1] # "secret" => t.key \in Published(c)
                      /\ t.key # <<"secret", "development">>
    BY DEF KeysOutliveRestarts
  <2>1. Valid(settings) /\ key[c] = Configured /\ t.key = Configured.sign
    BY <1>3 DEF KeysFixed
  <2>2. CASE settings.algorithm = "HS256"
    <3>1. t.key = <<"secret", settings.secret>> /\ key[c].verify = <<"secret", settings.secret>>
      BY <2>1, <2>2 DEF Configured, Secret
    <3>2. settings.secret # "development"
      BY <2>1, <2>2 DEF Valid
    <3> QED
      BY <3>1, <3>2
  <2>3. CASE settings.algorithm # "HS256"
    <3>1. t.key = <<"file", settings.private>> /\ key[c].verify = <<"file", settings.public>>
      BY <2>1, <2>3 DEF Configured, Files
    <3> QED
      BY <2>3, <3>1 DEF Published
  <2> QED
    BY <2>2, <2>3
<1>4. Inv /\ KeysFixed => KeysOutliveRestarts
  BY <1>3
<1> QED
  BY Invariant, <1>1, <1>2, <1>4, PTL DEF Spec

-----------------------------------------------------------------------------
(* Until two requests overlap: one thread is busy, what a change has       *)
(* loaded is still there, every token is from before its stamp, and the    *)
(* stamp is not before the last change.                                    *)
OneBusy == \A v, w \in Workers : v # w => worker[v] = Idle \/ worker[w] = Idle

Orderly(w) ==
  /\ worker[w].pc \in {"loaded", "hash"} => worker[w].loaded = changedAt
  /\ worker[w].pc = "hash" =>
       /\ changedAt <= worker[w].stamp
       /\ \A t \in tokens : t.iat <= worker[w].stamp

LastSecond == \A t \in tokens : t.issued < era => Void(t) \/ t.iat = changedAt

Alone == ~overlapped => OneBusy /\ (\A w \in Workers : Orderly(w)) /\ LastSecond

(* Once two requests have overlapped, they have.                           *)
LEMMA OverlapStays ==
  ASSUME TypeOK, [Next]_vars, ~overlapped'
  PROVE  /\ ~overlapped
         /\ \A w \in Workers : LoginRead(w) \/ SetPasswordRead(w) => \A v \in Workers : worker[v] = Idle
<1>1. CASE overlapped' = overlapped
  BY <1>1 DEF LoginRead, SetPasswordRead, Begin
<1>2. ASSUME NEW w \in Workers, LoginRead(w) \/ SetPasswordRead(w) PROVE overlapped' = overlapped
  BY <1>2, Requests, BeginEffect DEF LoginRead, SetPasswordRead
<1> QED
  BY <1>1, <1>2
  DEF Next, vars, Tick, LoginIssue, Stamp, SetPasswordCommit, Committed, Start, Stop

(* Time only makes a token expire.                                         *)
LEMMA VoidStays ==
  ASSUME TypeOK, TypeOK', [Next]_vars, changedAt <= changedAt',
         NEW t \in tokens, Void(t)
  PROVE  Void(t)'
<1>1. /\ Second(now) \in Nat /\ changedAt \in Nat /\ t.iat \in Nat /\ changedAt' \in Nat
  BY Numbers, SecondZero DEF TypeOK
<1>2. Second(now) <= Second(now')
  <2>1. now' = now \/ now' = now + 1
    BY DEF Next, vars, Tick, LoginRead, LoginIssue, SetPasswordRead, Begin, Stamp,
           SetPasswordCommit, Committed, Start, Stop
  <2>2. now \in Nat /\ now' \in Nat
    BY SessionAssumption DEF TypeOK
  <2> QED
    BY <2>1, <2>2, SecondGrows
<1>3. Second(now') \in Nat
  BY SecondType, SecondZero DEF TypeOK
<1>4. Second(now)' = Second(now')
  BY DEF Second
<1> QED
  BY <1>1, <1>2, <1>3, <1>4, SessionAssumption DEF Void, Expired

(* Without overlap a commit sets the time the change began, and no token   *)
(* is from a later second.                                                 *)
LEMMA CommitInOrder ==
  ASSUME Inv, Alone, ~overlapped, NEW w \in Workers, SetPasswordCommit(w)
  PROVE  /\ changedAt <= changedAt'
         /\ \A t \in tokens : t.iat <= changedAt'
<1>1. worker[w].pc = "hash"
  BY DEF SetPasswordCommit, Committed
<1>2. /\ worker[w].loaded = changedAt /\ changedAt <= worker[w].stamp
      /\ \A t \in tokens : t.iat <= worker[w].stamp
  BY <1>1 DEF Alone, Orderly
<1>3. changedAt' = worker[w].stamp
  BY <1>2 DEF SetPasswordCommit, Committed
<1> QED
  BY <1>2, <1>3

(* Without overlap no step takes a change back.                            *)
LEMMA ChangesInOrder ==
  ASSUME Inv, Alone, [Next]_vars, ~overlapped'
  PROVE  changedAt <= changedAt'
<1>1. changedAt \in Nat
  BY Numbers DEF Inv
<1>2. CASE changedAt' = changedAt
  BY <1>1, <1>2
<1>3. ASSUME NEW w \in Workers, SetPasswordCommit(w) PROVE changedAt <= changedAt'
  BY <1>3, CommitInOrder, OverlapStays DEF Inv
<1> QED
  BY <1>2, <1>3
  DEF Next, vars, account, Tick, LoginRead, LoginIssue, SetPasswordRead, Begin, Stamp, Start, Stop

(* Without overlap every step leaves at most one thread busy.              *)
LEMMA OneBusyStep ==
  ASSUME Inv, Alone, [Next]_vars, ~overlapped'
  PROVE  OneBusy'
<1>1. OneBusy
  BY OverlapStays DEF Alone, Inv
<1>2. CASE UNCHANGED worker
  BY <1>1, <1>2 DEF OneBusy
<1>3. ASSUME NEW w \in Workers, NEW r \in Request, Begin(w, r), \A v \in Workers : worker[v] = Idle
      PROVE  OneBusy'
  BY <1>3, BeginEffect DEF OneBusy, Inv
<1>4. ASSUME NEW w \in Workers, LoginIssue(w) \/ SetPasswordCommit(w) PROVE OneBusy'
  BY <1>1, <1>4, EndEffect DEF OneBusy, Inv
<1>5. ASSUME NEW w \in Workers, Stamp(w) PROVE OneBusy'
  <2>1. /\ worker[w] # Idle /\ \A v \in Workers : v # w => worker'[v] = worker[v]
    BY <1>5, StampEffect DEF Inv, Idle
  <2> QED
    BY <1>1, <2>1 DEF OneBusy
<1>6. ASSUME NEW c \in Containers, Stop(c) PROVE OneBusy'
  BY <1>1, <1>6, StopEffect DEF OneBusy, Inv
<1>7. ASSUME NEW w \in Workers, LoginRead(w) \/ SetPasswordRead(w) PROVE OneBusy'
  BY <1>3, <1>7, Requests, OverlapStays DEF LoginRead, SetPasswordRead, Inv
<1> QED
  BY <1>2, <1>4, <1>5, <1>6, <1>7 DEF Next, vars, Tick, Start

(* Without overlap every step keeps stamps in order.                       *)
LEMMA OrderlyStep ==
  ASSUME Inv, Alone, [Next]_vars, ~overlapped', NEW v \in Workers
  PROVE  Orderly(v)'
<1>1. Orderly(v) /\ OneBusy
  BY OverlapStays DEF Alone, Inv
<1>2. CASE UNCHANGED <<worker, changedAt, tokens>>
  BY <1>1, <1>2 DEF Orderly
<1>3. CASE worker'[v] = Idle
  BY <1>3 DEF Orderly, Idle
<1>4. ASSUME NEW w \in Workers, NEW r \in Request, Begin(w, r),
             r.pc = "login" \/ (r.pc = "loaded" /\ r.loaded = changedAt)
      PROVE  Orderly(v)'
  <2>1. worker'[v] = r \/ worker'[v] = worker[v]
    BY <1>4, BeginEffect DEF Inv
  <2>2. changedAt' = changedAt /\ tokens' = tokens
    BY <1>4 DEF Begin, account
  <2> QED
    BY <1>1, <1>4, <2>1, <2>2 DEF Orderly
<1>5. ASSUME NEW w \in Workers, LoginIssue(w) \/ SetPasswordCommit(w) PROVE Orderly(v)'
  <2>1. worker'[w] = Idle /\ worker[w] # Idle /\ (v # w => worker'[v] = worker[v])
    BY <1>5, EndEffect DEF Inv
  <2>2. v # w => worker[v] = Idle
    BY <1>1, <2>1 DEF OneBusy
  <2> QED
    BY <1>3, <2>1, <2>2
<1>6. ASSUME NEW w \in Workers, Stamp(w) PROVE Orderly(v)'
  <2>1. /\ worker'[w].pc = "hash" /\ worker'[w].stamp = Second(now) /\ worker[w].pc = "loaded"
        /\ worker'[w].loaded = worker[w].loaded
        /\ (v # w => worker'[v] = worker[v])
    BY <1>6, StampEffect DEF Inv
  <2>2. UNCHANGED <<changedAt, tokens>>
    BY <1>6 DEF Stamp, account
  <2>3. changedAt <= Second(now) /\ \A t \in tokens : t.iat <= Second(now)
    BY DEF Inv, Causal
  <2> QED
    BY <1>1, <2>1, <2>2, <2>3 DEF Orderly
<1>7. ASSUME NEW c \in Containers, Stop(c) PROVE Orderly(v)'
  <2>1. worker'[v] = Idle \/ worker'[v] = worker[v]
    BY <1>7, StopEffect DEF Inv
  <2>2. UNCHANGED <<changedAt, tokens>>
    BY <1>7 DEF Stop, account
  <2> QED
    BY <1>1, <1>3, <2>1, <2>2 DEF Orderly
<1>8. ASSUME NEW w \in Workers, LoginRead(w) \/ SetPasswordRead(w) PROVE Orderly(v)'
  BY <1>4, <1>8, Requests DEF LoginRead, SetPasswordRead, Inv
<1> QED
  BY <1>2, <1>5, <1>6, <1>7, <1>8 DEF Next, vars, account, Tick, Start

(* Without overlap every step keeps the exception to a second.             *)
LEMMA LastSecondStep ==
  ASSUME Inv, TypeOK', Alone, [Next]_vars, ~overlapped'
  PROVE  LastSecond'
<1>1. ~overlapped /\ LastSecond
  BY OverlapStays DEF Alone, Inv
<1>2. \A t \in tokens : Void(t) => Void(t)'
  BY VoidStays, ChangesInOrder DEF Inv
<1>3. CASE UNCHANGED <<changedAt, tokens, era>>
  BY <1>1, <1>2, <1>3 DEF LastSecond
<1>4. ASSUME NEW w \in Workers, LoginIssue(w) PROVE LastSecond'
  <2>1. UNCHANGED <<changedAt, era>> /\ era \in Nat
    BY <1>4, Numbers DEF LoginIssue, account, Inv
  <2>2. \A t \in tokens' : t \in tokens \/ t.issued = era
    BY <1>4 DEF LoginIssue
  <2> QED
    BY <1>1, <1>2, <2>1, <2>2 DEF LastSecond
<1>5. ASSUME NEW w \in Workers, SetPasswordCommit(w) PROVE LastSecond'
  <2>1. /\ tokens' = tokens /\ changedAt' \in Nat
        /\ \A t \in tokens : t.iat <= changedAt' /\ t.iat \in Nat
    BY <1>1, <1>5, CommitInOrder, CommitTime, Numbers DEF Inv
  <2>2. \A t \in tokens : t.iat < changedAt' => Void(t)'
    BY DEF Void
  <2> QED
    BY <2>1, <2>2 DEF LastSecond
<1> QED
  BY <1>3, <1>4, <1>5
  DEF Next, vars, account, Tick, LoginRead, SetPasswordRead, Begin, Stamp, Start, Stop

(* What is kept until two requests overlap holds at every moment.          *)
LEMMA AloneInvariant == Spec => [](Inv /\ Alone)
<1>1. Init => Alone
  BY DEF Init, Alone, OneBusy, Orderly, LastSecond, Idle
<1>2. ASSUME Inv, Inv', Alone, [Next]_vars PROVE Alone'
  <2> SUFFICES ASSUME ~overlapped' PROVE Alone'
    BY DEF Alone
  <2>1. OneBusy' /\ LastSecond'
    BY <1>2, OneBusyStep, LastSecondStep DEF Inv
  <2>2. \A v \in Workers : Orderly(v)'
    BY <1>2, OrderlyStep
  <2> QED
    BY <2>1, <2>2 DEF Alone
<1>3. Inv /\ Inv' /\ Alone /\ [Next]_vars => Alone'
  BY <1>2
<1> QED
  BY Invariant, <1>1, <1>3, PTL DEF Spec

(* README, "Password changes end sessions", as long as no two requests     *)
(* overlap: a token issued before the last change is refused unless it is  *)
(* from the change's own second.                                           *)
THEOREM EarlierTokensRefused == Spec => []SameSecondOnly
<1>1. Alone => SameSecondOnly
  BY DEF Alone, LastSecond, SameSecondOnly
<1> QED
  BY AloneInvariant, <1>1, PTL

(* auth.py, change_password: "must sign in again", as long as no two       *)
(* requests overlap: no later change brings a refused token back.          *)
THEOREM RefusedStayRefused == Spec => RefusedForGood
<1>1. ASSUME Inv, Inv', Alone, [Next]_vars PROVE [~overlapped' => ~Revives]_vars
  <2> SUFFICES ASSUME ~overlapped' PROVE ~Revives
    OBVIOUS
  <2> QED
    BY <1>1, VoidStays, ChangesInOrder DEF Revives, Inv
<1>2. Inv /\ Inv' /\ Alone /\ [Next]_vars => [~overlapped' => ~Revives]_vars
  BY <1>1
<1> QED
  BY AloneInvariant, Invariant, <1>2, PTL DEF Spec, RefusedForGood
=============================================================================
