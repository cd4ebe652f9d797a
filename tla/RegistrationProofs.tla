------------------------- MODULE RegistrationProofs -------------------------
(***************************************************************************)
(* Proofs about Registration for any number of threads, any accounts and   *)
(* any strip() and lower() that are idempotent.                            *)
(***************************************************************************)
EXTENDS Registration, TLAPS

(* What a session has loaded by the step it is at.                         *)
Shape(q) ==
  /\ q.cmd.op = "update" => q.target # NoAccount /\ q.pc # "uid"
  /\ q.cmd.op = "update" /\ q.pc = "email" => q.cmd.email # NotSent

Typed == TypeOK /\ \A r \in Requests : ~Waiting(r) => Shape(req[r])

-----------------------------------------------------------------------------
(* A request under way is a session of the right shape.                    *)
LEMMA Busy ==
  ASSUME Typed, NEW r \in Requests, ~Waiting(r)
  PROVE  req[r] \in Session /\ Shape(req[r])
BY DEF Typed, TypeOK, Waiting

(* A thread that waits has given its last answer.                          *)
LEMMA Rested ==
  ASSUME Typed, NEW r \in Requests, Waiting(r)
  PROVE  req[r] \in [pc : {"idle"}, answer : Answers]
BY DEF Typed, TypeOK, Waiting, Session

(* A request that another's commit disturbs only stops being alone.        *)
LEMMA DisturbedSession ==
  ASSUME Typed, NEW s \in Requests, ~Waiting(s)
  PROVE  /\ Disturbed(s) \in Session /\ Shape(Disturbed(s))
         /\ Disturbed(s).pc = req[s].pc /\ Disturbed(s).cmd = req[s].cmd
         /\ Disturbed(s).target = req[s].target /\ ~Disturbed(s).alone
BY Busy DEF Disturbed, Session, Shape

(* A session or an answer in the place of a request keeps the types.       *)
LEMMA GotoTyped ==
  ASSUME Typed, NEW r \in Requests, NEW q \in Session, Shape(q), Goto(r, q) \/ Commits(r, q)
  PROVE  /\ req' \in [Requests -> Session \cup [pc : {"idle"}, answer : Answers]]
         /\ \A s \in Requests : ~Waiting(s)' => Shape(req[s])'
<1>1. ASSUME NEW s \in Requests
      PROVE  /\ req'[s] \in Session \cup [pc : {"idle"}, answer : Answers]
             /\ req'[s].pc # "idle" => Shape(req'[s])
  <2>1. CASE s = r
    BY <2>1 DEF Goto, Commits, Typed, TypeOK
  <2>2. CASE s # r /\ Goto(r, q)
    BY <2>2 DEF Goto, Typed, TypeOK, Waiting
  <2>3. CASE s # r /\ Commits(r, q)
    <3>1. req'[s] = Disturbed(s)
      BY <2>3 DEF Commits
    <3>2. CASE Waiting(s)
      BY <3>1, <3>2, Rested DEF Disturbed, Waiting
    <3> QED
      BY <3>1, <3>2, DisturbedSession
  <2> QED
    BY <2>1, <2>2, <2>3
<1>2. req' = [s \in Requests |-> req'[s]]
  BY DEF Goto, Commits, Typed, TypeOK
<1>3. req' \in [Requests -> Session \cup [pc : {"idle"}, answer : Answers]]
  BY <1>1, <1>2
<1>4. \A s \in Requests : ~Waiting(s)' => Shape(req[s])'
  BY <1>1 DEF Waiting, Shape
<1> QED
  BY <1>3, <1>4

(* A request that is answered leaves its thread idle.                      *)
LEMMA AnswerTyped ==
  ASSUME Typed, NEW r \in Requests, NEW a \in Answers, Answer(r, a)
  PROVE  /\ req' \in [Requests -> Session \cup [pc : {"idle"}, answer : Answers]]
         /\ \A s \in Requests : ~Waiting(s)' => Shape(req[s])'
<1>1. req' = [req EXCEPT ![r] = Idle(a)]
  BY DEF Answer, Goto
<1>2. Idle(a) \in [pc : {"idle"}, answer : Answers]
  BY DEF Idle
<1>3. \A s \in Requests : req'[s].pc # "idle" => Shape(req'[s])
  BY <1>1, <1>2 DEF Typed, TypeOK, Waiting, Idle
<1> QED
  BY <1>1, <1>2, <1>3 DEF Typed, TypeOK, Waiting, Shape

(* Requests that carry sessions of the right shape carry typed ones.       *)
LEMMA TypedFromParts ==
  ASSUME users' \subseteq Account, usedIds' \subseteq AccountIds, accepted' \in 0 .. MaxAccepted,
         req' \in [Requests -> Session \cup [pc : {"idle"}, answer : Answers]],
         \A s \in Requests : ~Waiting(s)' => Shape(req[s])'
  PROVE  Typed'
BY DEF Typed, TypeOK, Waiting, Shape

(* What a stored or edited row looks like.                                 *)
LEMMA RowType ==
  /\ \A i \in AccountIds, c \in Commands :
       c.op = "create" => NewAccount(i, c) \in Account /\ Stored(NewAccount(i, c))
  /\ \A q \in Session, u \in Account :
       q.cmd.op = "update" =>
         /\ Edited(q, u) \in Account
         /\ Stored(u) => Stored(Edited(q, u))
         /\ Edited(q, u).id = u.id /\ Edited(q, u).uid = u.uid
<1>1. ASSUME NEW i \in AccountIds, NEW c \in Commands, c.op = "create"
      PROVE  NewAccount(i, c) \in Account /\ Stored(NewAccount(i, c))
  <2>1. c.uid \in UniversityIds /\ c.email \in Emails /\ c.kind \in Kinds
    BY <1>1 DEF Commands
  <2> QED
    BY <2>1, FormAssumption DEF NewAccount, Account, Stored
<1>2. ASSUME NEW q \in Session, NEW u \in Account, q.cmd.op = "update"
      PROVE  /\ Edited(q, u) \in Account
             /\ Stored(u) => Stored(Edited(q, u))
             /\ Edited(q, u).id = u.id /\ Edited(q, u).uid = u.uid
  <2>1. q.cmd.email \in Emails \cup {NotSent} /\ q.cmd.kind \in Kinds \cup {NotSent}
    BY <1>2 DEF Session, Commands
  <2>2. q.cmd.email # NotSent => Lower(q.cmd.email) \in Emails
                                   /\ Lower(Lower(q.cmd.email)) = Lower(q.cmd.email)
    BY <2>1, FormAssumption
  <2> QED
    BY <2>1, <2>2 DEF Edited, Account, Stored
<1> QED
  BY <1>1, <1>2

-----------------------------------------------------------------------------
(* One step of a request keeps the types.                                  *)
LEMMA TypedBegin ==
  ASSUME Typed, NEW r \in Requests, NEW c \in Commands, BeginCreate(r, c) \/ BeginUpdate(r, c)
  PROVE  Typed'
<1>1. accepted' \in 0 .. MaxAccepted
  <2>1. accepted < MaxAccepted /\ accepted' = accepted + 1
    BY DEF BeginCreate, BeginUpdate, Begin
  <2>2. accepted \in 0 .. MaxAccepted
    BY DEF Typed, TypeOK
  <2> QED
    BY <2>1, <2>2, FormAssumption
<1>2. users' \subseteq Account /\ usedIds' \subseteq AccountIds
  BY DEF BeginCreate, BeginUpdate, Typed, TypeOK
<1>3. CASE BeginCreate(r, c)
  <2> DEFINE q == [pc |-> "uid", cmd |-> c, target |-> NoAccount, alone |-> TRUE]
  <2>1. q \in Session /\ Shape(q) /\ Goto(r, q)
    BY <1>3 DEF BeginCreate, Session, Shape
  <2> QED
    BY <1>1, <1>2, <2>1, GotoTyped, TypedFromParts
<1>4. CASE BeginUpdate(r, c) /\ Answer(r, "not found")
  BY <1>1, <1>2, <1>4, AnswerTyped, TypedFromParts DEF Answers
<1>5. CASE BeginUpdate(r, c) /\ ~Answer(r, "not found")
  <2>1. PICK u \in users :
          Goto(r, [pc |-> IF c.email = NotSent THEN "write" ELSE "email",
                   cmd |-> c, target |-> u, alone |-> TRUE])
    BY <1>5 DEF BeginUpdate
  <2> DEFINE q == [pc |-> IF c.email = NotSent THEN "write" ELSE "email",
                   cmd |-> c, target |-> u, alone |-> TRUE]
  <2>2. u \in Account /\ u # NoAccount
    BY FormAssumption DEF Typed, TypeOK
  <2>3. q \in Session /\ Shape(q)
    BY <2>2, <1>5 DEF BeginUpdate, Session, Shape
  <2> QED
    BY <1>1, <1>2, <2>1, <2>3, GotoTyped, TypedFromParts
<1> QED
  BY <1>3, <1>4, <1>5

(* Every step of a request keeps the ranges.                               *)
LEMMA TypedStep ==
  ASSUME Typed, NEW r \in Requests, Step(r)
  PROVE  Typed'
<1>1. req[r] \in Session /\ Shape(req[r])
  BY Busy DEF Step, CheckUniversityId, CheckEmail, Insert, OutOfIds, Update, Reread, Waiting
<1>2. accepted' \in 0 .. MaxAccepted
  BY DEF Step, CheckUniversityId, CheckEmail, Insert, OutOfIds, Update, Reread, Typed, TypeOK
<1>3. \A p \in {"email", "write", "reread"} :
        (p = "email" => req[r].cmd.op = "create") =>
          [req[r] EXCEPT !.pc = p] \in Session /\ Shape([req[r] EXCEPT !.pc = p])
  BY <1>1 DEF Session, Shape
<1>4. users \subseteq Account /\ usedIds \subseteq AccountIds
  BY DEF Typed, TypeOK
<1>5. CASE CheckUniversityId(r)
  <2>1. req[r].cmd.op = "create"
    BY <1>1, <1>5 DEF CheckUniversityId, Shape, Session, Commands
  <2> QED
    BY <1>2, <1>3, <1>4, <1>5, <2>1, GotoTyped, AnswerTyped, TypedFromParts
       DEF CheckUniversityId, Answers
<1>6. CASE CheckEmail(r)
  BY <1>2, <1>3, <1>4, <1>6, GotoTyped, AnswerTyped, TypedFromParts DEF CheckEmail, Answers
<1>7. CASE Insert(r)
  <2>1. PICK i \in AccountIds \ usedIds :
          LET u == NewAccount(i, req[r].cmd)
          IN /\ usedIds' = usedIds \cup {i}
             /\ IF Distinct(users \cup {u})
                THEN /\ users' = users \cup {u}
                     /\ Commits(r, [req[r] EXCEPT !.pc = "reread", !.target = u])
                ELSE users' = users /\ Answer(r, "server error")
    BY <1>7 DEF Insert
  <2> DEFINE u == NewAccount(i, req[r].cmd)
             q == [req[r] EXCEPT !.pc = "reread", !.target = u]
  <2>2. u \in Account
    BY <1>1, <1>7, RowType DEF Insert, Session
  <2>3. q \in Session /\ Shape(q)
    BY <1>1, <1>7, <2>2 DEF Insert, Session, Shape
  <2>4. users' \subseteq Account /\ usedIds' \subseteq AccountIds
    BY <1>4, <2>1, <2>2
  <2> HIDE DEF u, q
  <2>5. CASE Commits(r, q)
    BY <1>2, <2>3, <2>4, <2>5, GotoTyped, TypedFromParts
  <2>6. CASE Answer(r, "server error")
    BY <1>2, <2>4, <2>6, AnswerTyped, TypedFromParts DEF Answers
  <2> QED
    BY <2>1, <2>5, <2>6 DEF q, u
<1>8. CASE OutOfIds(r)
  BY <1>2, <1>4, <1>8, AnswerTyped, TypedFromParts DEF OutOfIds, Answers
<1>9. CASE Update(r)
  <2>1. \A u \in users : Edited(req[r], u) \in Account
    BY <1>1, <1>4, <1>9, RowType DEF Update
  <2>2. users' \subseteq Account /\ usedIds' \subseteq AccountIds
    <3> DEFINE old == {u \in users : u.id = req[r].target.id}
    <3>1. users' = users \/ users' = (users \ old) \cup {Edited(req[r], u) : u \in old}
      BY <1>9 DEF Update
    <3>2. usedIds' = usedIds
      BY <1>9 DEF Update
    <3> QED
      BY <1>4, <2>1, <3>1, <3>2
  <2>3. Commits(r, [req[r] EXCEPT !.pc = "reread"]) \/ Answer(r, "server error")
    BY <1>9 DEF Update
  <2> QED
    BY <1>2, <1>3, <2>2, <2>3, GotoTyped, AnswerTyped, TypedFromParts DEF Answers
<1>10. CASE Reread(r)
  BY <1>2, <1>4, <1>10, AnswerTyped, TypedFromParts DEF Reread, Answers
<1> QED
  BY <1>5, <1>6, <1>7, <1>8, <1>9, <1>10 DEF Step

(* A deletion keeps the ranges.                                            *)
LEMMA TypedDelete ==
  ASSUME Typed, NEW u \in users, Delete(u)
  PROVE  Typed'
<1>1. users' \subseteq Account /\ usedIds' \subseteq AccountIds /\ accepted' \in 0 .. MaxAccepted
  BY FormAssumption DEF Delete, Typed, TypeOK
<1>2. ASSUME NEW s \in Requests
      PROVE  /\ req'[s] = Disturbed(s)
             /\ Disturbed(s) \in Session \cup [pc : {"idle"}, answer : Answers]
             /\ Disturbed(s).pc # "idle" => Shape(Disturbed(s))
  <2>1. req'[s] = Disturbed(s)
    BY DEF Delete
  <2>2. CASE Waiting(s)
    BY <2>1, <2>2, Rested DEF Disturbed, Waiting
  <2> QED
    BY <2>1, <2>2, DisturbedSession
<1>3. req' \in [Requests -> Session \cup [pc : {"idle"}, answer : Answers]]
  BY <1>2 DEF Delete
<1>4. \A s \in Requests : ~Waiting(s)' => Shape(req[s])'
  BY <1>2 DEF Waiting, Shape
<1> QED
  BY <1>1, <1>3, <1>4, TypedFromParts

(* The ranges hold at every moment.                                        *)
LEMMA AlwaysTyped == Spec => []Typed
<1>1. Init => Typed
  BY FormAssumption, StartAssumption DEF Init, Typed, TypeOK, Idle, Answers, Account, Waiting
<1>2. Typed /\ [Next]_vars => Typed'
  <2> SUFFICES ASSUME Typed, [Next]_vars PROVE Typed'
    OBVIOUS
  <2>1. CASE UNCHANGED vars
    BY <2>1 DEF vars, Typed, TypeOK, Waiting, Shape
  <2> QED
    BY <2>1, TypedBegin, TypedStep, TypedDelete DEF Next
<1> QED
  BY <1>1, <1>2, PTL DEF Spec

(* Every variable stays in its range, for any number of threads: a session *)
(* that writes has loaded what it writes (user_management_service.py).     *)
THEOREM TypeCorrect == Spec => []TypeOK
<1>1. Typed => TypeOK
  BY DEF Typed
<1> QED
  BY <1>1, AlwaysTyped, PTL

-----------------------------------------------------------------------------
(* The table: the constraints hold, every value is in its stored form and  *)
(* every id has been given.                                                *)
SoundTable == Distinct(users) /\ \A u \in users : Stored(u) /\ u.id \in usedIds

(* Every step of a request keeps the rows distinct and in stored form.     *)
LEMMA StepSound ==
  ASSUME Typed, SoundTable, NEW r \in Requests, Step(r)
  PROVE  SoundTable'
<1>1. CASE UNCHANGED <<users, usedIds>>
  BY <1>1 DEF SoundTable, Distinct, Stored
<1>2. CASE Insert(r)
  <2>1. PICK i \in AccountIds \ usedIds :
          LET u == NewAccount(i, req[r].cmd)
          IN /\ usedIds' = usedIds \cup {i}
             /\ users' = users \/ (users' = users \cup {u} /\ Distinct(users \cup {u}))
    BY <1>2 DEF Insert
  <2>2. Stored(NewAccount(i, req[r].cmd)) /\ NewAccount(i, req[r].cmd).id = i
    BY <1>2, Busy, RowType DEF Insert, Waiting, Session, NewAccount
  <2>3. Distinct(users')
    BY <2>1 DEF SoundTable
  <2> QED
    BY <2>1, <2>2, <2>3 DEF SoundTable, Distinct, Stored
<1>3. CASE Update(r)
  <2> DEFINE old == {u \in users : u.id = req[r].target.id}
             new == (users \ old) \cup {Edited(req[r], u) : u \in old}
  <2>1. users' = users \/ (users' = new /\ Distinct(new))
    BY <1>3 DEF Update
  <2>2. usedIds' = usedIds
    BY <1>3 DEF Update
  <2>3. \A u \in users : Stored(Edited(req[r], u)) /\ Edited(req[r], u).id = u.id
    BY <1>3, Busy, RowType DEF Update, Waiting, Typed, TypeOK, SoundTable
  <2>4. \A v \in users' : Stored(v) /\ v.id \in usedIds
    BY <2>1, <2>3 DEF SoundTable
  <2>5. Distinct(users')
    BY <2>1 DEF SoundTable
  <2> QED
    BY <2>2, <2>4, <2>5 DEF SoundTable, Distinct, Stored
<1> QED
  BY <1>1, <1>2, <1>3 DEF Step, CheckUniversityId, CheckEmail, OutOfIds, Reread

(* The rows are distinct and in stored form at every moment.               *)
LEMMA AlwaysSound == Spec => []SoundTable
<1>1. Init => SoundTable
  BY StartAssumption DEF Init, SoundTable
<1>2. Typed /\ SoundTable /\ [Next]_vars => SoundTable'
  <2> SUFFICES ASSUME Typed, SoundTable, [Next]_vars PROVE SoundTable'
    OBVIOUS
  <2>1. CASE UNCHANGED <<users, usedIds>>
    BY <2>1 DEF SoundTable, Distinct, Stored
  <2>2. CASE \E u \in users : Delete(u)
    <3>1. users' \subseteq users /\ usedIds' = usedIds
      BY <2>2 DEF Delete
    <3> QED
      BY <3>1 DEF SoundTable, Distinct, Stored
  <2> QED
    BY <2>1, <2>2, StepSound DEF Next, BeginCreate, BeginUpdate, vars
<1> QED
  BY <1>1, <1>2, AlwaysTyped, PTL DEF Spec

(* Whatever overlaps, an account can sign in by every spelling of its      *)
(* university id and email, and no other account answers to them           *)
(* (auth_service.py, _find_by_username).                                   *)
THEOREM EverySpellingSignsIn == Spec => []SignInFindsAccount
<1>1. Typed /\ SoundTable => SignInFindsAccount
  <2> SUFFICES ASSUME Typed, SoundTable, NEW u \in users
               PROVE  /\ \A n \in UniversityIds : Strip(n) = Strip(u.uid) => SignsIn(n) = {u}
                      /\ \A e \in Emails : Lower(e) = Lower(u.email) => SignsIn(e) = {u}
    BY DEF SignInFindsAccount
  <2>1. Strip(u.uid) = u.uid /\ Lower(u.email) = u.email
    BY DEF SoundTable, Stored
  <2>2. \A v \in users : v.uid = u.uid \/ v.email = u.email => v = u
    BY DEF SoundTable, Distinct
  <2>3. ASSUME NEW n \in UniversityIds, Strip(n) = Strip(u.uid) PROVE SignsIn(n) = {u}
    BY <2>1, <2>2, <2>3, FormAssumption DEF SignsIn
  <2>4. ASSUME NEW e \in Emails, Lower(e) = Lower(u.email) PROVE SignsIn(e) = {u}
    BY <2>1, <2>2, <2>4 DEF SignsIn
  <2> QED
    BY <2>3, <2>4
<1> QED
  BY <1>1, AlwaysTyped, AlwaysSound, PTL

-----------------------------------------------------------------------------
(* Only a step of its own takes a request to another pc.                   *)
LEMMA OwnStep ==
  ASSUME Typed, [Next]_vars, NEW r \in Requests, ~Waiting(r), req'[r].pc # req[r].pc
  PROVE  Step(r)
<1>1. ASSUME NEW s \in Requests, Step(s), s # r PROVE FALSE
  <2>1. req'[r] = req[r] \/ req'[r] = Disturbed(r)
    BY <1>1 DEF Step, CheckUniversityId, CheckEmail, Insert, OutOfIds, Update, Reread,
       Answer, Goto, Commits, Typed, TypeOK
  <2> QED
    BY <2>1, DisturbedSession
<1>2. ASSUME NEW s \in Requests, NEW c \in Commands, BeginCreate(s, c) \/ BeginUpdate(s, c)
      PROVE  FALSE
  <2>1. Waiting(s) /\ req'[r] = req[r]
    BY <1>2 DEF BeginCreate, BeginUpdate, Begin, Answer, Goto, Typed, TypeOK
  <2> QED
    BY <2>1
<1>3. ASSUME NEW u \in users, Delete(u) PROVE FALSE
  <2>1. req'[r] = Disturbed(r)
    BY <1>3 DEF Delete
  <2> QED
    BY <2>1, DisturbedSession
<1>4. ~UNCHANGED vars
  BY DEF vars
<1> QED
  BY <1>1, <1>2, <1>3, <1>4 DEF Next

(* Whatever overlaps, an update keeps what it was not sent and every other *)
(* account (user_management_service.py, update_user).                      *)
THEOREM UpdatesKeepTheRest == Spec => OnlySentFields
<1>1. Typed /\ [Next]_vars =>
        [\A r \in Requests :
           req[r].pc = "write" /\ req'[r].pc # "write" /\ req[r].cmd.op = "update" =>
             \A u \in users : \E v \in users' :
               IF u.id = req[r].target.id THEN Keeps(req[r], u, v) ELSE u = v]_vars
  <2> SUFFICES ASSUME Typed, [Next]_vars, NEW r \in Requests,
                      req[r].pc = "write", req'[r].pc # "write", req[r].cmd.op = "update",
                      NEW u \in users
               PROVE  \E v \in users' :
                        IF u.id = req[r].target.id THEN Keeps(req[r], u, v) ELSE u = v
    OBVIOUS
  <2>1. Update(r)
    BY OwnStep DEF Waiting, Step, CheckUniversityId, CheckEmail, Insert, OutOfIds, Reread
  <2>2. u \in Account /\ req[r] \in Session
    BY Busy DEF Waiting, Typed, TypeOK
  <2>3. Keeps(req[r], u, u)
    BY DEF Keeps
  <2>4. Keeps(req[r], u, Edited(req[r], u))
    BY <2>2 DEF Keeps, Edited, Account
  <2> DEFINE old == {v \in users : v.id = req[r].target.id}
  <2>5. users' = users \/ users' = (users \ old) \cup {Edited(req[r], v) : v \in old}
    BY <2>1 DEF Update
  <2>6. CASE u.id = req[r].target.id
    BY <2>3, <2>4, <2>5, <2>6
  <2>7. CASE u.id # req[r].target.id
    BY <2>5, <2>7
  <2> QED
    BY <2>6, <2>7
<1> QED
  BY <1>1, AlwaysTyped, PTL DEF Spec, OnlySentFields

-----------------------------------------------------------------------------
(* What a request that has been alone has seen is still so.                *)
Current(q) ==
  /\ q.cmd.op = "create" /\ q.pc \in {"email", "write"} => \A u \in users : u.uid # q.cmd.uid
  /\ q.cmd.op = "create" /\ q.pc = "write" => \A u \in users : u.email # q.cmd.email
  /\ q.cmd.op = "update" /\ q.pc \in {"email", "write"} => q.target \in users
  /\ q.cmd.op = "update" /\ q.pc = "write" /\ q.cmd.email # NotSent =>
       \A u \in users : u.email = Lower(q.cmd.email) => u.id = q.target.id
  /\ q.pc = "reread" => \E u \in users : u.id = q.target.id
  /\ q.pc = "reread" /\ q.cmd.op = "update" => \E u \in users : Shows(q, u)

AllCurrent == \A r \in Requests : ~Waiting(r) /\ req[r].alone => Current(req[r])

(* Where a request is after an answer or a move.                           *)
LEMMA AnswerEnds ==
  ASSUME Typed, NEW r \in Requests, NEW a, Answer(r, a)
  PROVE  req'[r].pc = "idle" /\ req'[r].answer = a /\ Waiting(r)'
BY DEF Answer, Goto, Idle, Waiting, Typed, TypeOK

(* A request that moves on does so in its own entry.                       *)
LEMMA GotoMoves ==
  ASSUME Typed, NEW r \in Requests, NEW q, Goto(r, q) \/ Commits(r, q)
  PROVE  req'[r] = q
BY DEF Goto, Commits, Typed, TypeOK

(* The other requests: not disturbed, or no longer alone.                  *)
LEMMA OthersCurrent ==
  ASSUME Typed, AllCurrent, NEW s \in Requests, ~Waiting(s),
         (req'[s] = req[s] /\ users' = users) \/ req'[s] = Disturbed(s)
  PROVE  req'[s].alone => Current(req[s])'
<1>1. CASE req'[s] = Disturbed(s)
  BY <1>1, DisturbedSession
<1>2. CASE req'[s] = req[s] /\ users' = users
  BY <1>2 DEF AllCurrent, Current, Shows
<1> QED
  BY <1>1, <1>2

(* An update of a row that nobody has touched since it was loaded stores   *)
(* what was sent, and clashes with no row.                                 *)
LEMMA UpdateAlone ==
  ASSUME Typed, SoundTable, NEW r \in Requests, Update(r), Current(req[r])
  PROVE  LET old == {u \in users : u.id = req[r].target.id}
             new == (users \ old) \cup {Edited(req[r], u) : u \in old}
         IN /\ old # {} /\ Distinct(new)
            /\ \E u \in new : Shows(req[r], u)
<1> DEFINE q == req[r]
           t == req[r].target
           old == {u \in users : u.id = t.id}
           new == (users \ old) \cup {Edited(q, u) : u \in old}
<1>1. q \in Session /\ q.pc = "write" /\ q.cmd.op = "update" /\ t \in users
  BY Busy DEF Update, Waiting, Current
<1>2. old = {t}
  BY <1>1 DEF SoundTable, Distinct
<1>3. t \in Account /\ q.cmd.email \in Emails \cup {NotSent} /\ q.cmd.kind \in Kinds \cup {NotSent}
  BY <1>1 DEF Typed, TypeOK, Session, Commands
<1>4. /\ Edited(q, t).id = t.id /\ Edited(q, t).uid = t.uid
      /\ Edited(q, t).email = IF q.cmd.email = NotSent THEN t.email ELSE Lower(q.cmd.email)
      /\ Edited(q, t).kind = IF q.cmd.kind = NotSent THEN t.kind ELSE q.cmd.kind
  BY <1>3 DEF Edited, Account
<1>5. Shows(q, Edited(q, t))
  BY <1>4 DEF Shows
<1>6. new = (users \ {t}) \cup {Edited(q, t)}
  BY <1>2
<1>7. \A u \in users \ {t} :
        /\ u.id # t.id /\ u.uid # t.uid /\ u.email # t.email
        /\ q.cmd.email # NotSent => u.email # Lower(q.cmd.email)
  BY <1>1 DEF SoundTable, Distinct, Current
<1>8. \A u \in users \ {t} :
        /\ u.id # Edited(q, t).id /\ u.uid # Edited(q, t).uid /\ u.email # Edited(q, t).email
  BY <1>4, <1>7
<1>9. Distinct((users \ {t}) \cup {Edited(q, t)})
  <2> HIDE DEF q, t
  <2> DEFINE e == Edited(q, t)
  <2>1. Distinct(users)
    BY DEF SoundTable
  <2>2. \A u \in users \ {t} : u.id # e.id /\ u.uid # e.uid /\ u.email # e.email
    BY <1>8
  <2> HIDE DEF e
  <2> QED
    BY <2>1, <2>2 DEF Distinct, e
<1> QED
  BY <1>2, <1>5, <1>6, <1>9

(* A create whose values were sent in their stored form clashes with no    *)
(* row when nothing was committed since they were checked.                 *)
LEMMA InsertAlone ==
  ASSUME Typed, SoundTable, NEW r \in Requests, Insert(r), Current(req[r]), AsStored(req[r].cmd),
         NEW i \in AccountIds \ usedIds
  PROVE  Distinct(users \cup {NewAccount(i, req[r].cmd)})
<1> DEFINE c == req[r].cmd
           n == NewAccount(i, c)
<1>1. n.id = i /\ n.uid = c.uid /\ n.email = c.email
  BY DEF NewAccount, AsStored, Insert
<1>2. \A u \in users : u.id # n.id /\ u.uid # n.uid /\ u.email # n.email
  BY <1>1 DEF SoundTable, Current, Insert
<1>3. Distinct(users)
  BY DEF SoundTable
<1> HIDE DEF n
<1> QED
  BY <1>2, <1>3 DEF Distinct, n

(* Every step of a request keeps what a request alone may rely on.         *)
LEMMA StepCurrent ==
  ASSUME Typed, SoundTable, AllCurrent, NEW r \in Requests, Step(r)
  PROVE  AllCurrent'
<1>1. req[r] \in Session /\ Shape(req[r]) /\ ~Waiting(r)
  BY Busy DEF Step, CheckUniversityId, CheckEmail, Insert, OutOfIds, Update, Reread, Waiting
<1>2. ASSUME NEW s \in Requests, s # r, ~Waiting(s)'
      PROVE  ~Waiting(s) /\ ((req'[s] = req[s] /\ users' = users) \/ req'[s] = Disturbed(s))
  <2>1. (req'[s] = req[s] /\ users' = users) \/ req'[s] = Disturbed(s)
    BY <1>2 DEF Step, CheckUniversityId, CheckEmail, Insert, OutOfIds, Update, Reread,
       Answer, Goto, Commits, Typed, TypeOK
  <2> QED
    BY <1>2, <2>1 DEF Waiting, Disturbed
<1>3. ASSUME ~Waiting(r)', req'[r].alone PROVE Current(req[r])'
  <2>1. CASE CheckUniversityId(r)
    <3>1. req'[r] = [req[r] EXCEPT !.pc = "email"] /\ users' = users
      BY <1>3, <2>1 DEF CheckUniversityId, Answer, Goto, Idle, Waiting, Typed, TypeOK
    <3>2. \A u \in users : u.uid # req[r].cmd.uid
      BY <1>3, <2>1 DEF CheckUniversityId, Answer, Goto, Idle, Waiting, Typed, TypeOK
    <3>3. req[r].cmd.op = "create"
      BY <1>1, <2>1 DEF CheckUniversityId, Shape, Session, Commands
    <3> QED
      BY <1>1, <3>1, <3>2, <3>3 DEF Current, Session
  <2>2. CASE CheckEmail(r)
    <3>1. /\ req'[r] = [req[r] EXCEPT !.pc = "write"] /\ users' = users
          /\ ~Taken(req[r]) /\ req[r].pc = "email"
      BY <1>3, <2>2 DEF CheckEmail, Answer, Goto, Idle, Waiting, Typed, TypeOK
    <3>2. Current(req[r])
      BY <1>1, <1>3, <3>1 DEF AllCurrent, Session
    <3> QED
      BY <1>1, <3>1, <3>2 DEF Current, Taken, Session, Commands
  <2>3. CASE Insert(r)
    <3>1. PICK i \in AccountIds \ usedIds :
            LET u == NewAccount(i, req[r].cmd)
            IN /\ users' = users \cup {u}
               /\ req'[r] = [req[r] EXCEPT !.pc = "reread", !.target = u]
      BY <1>3, <2>3, AnswerEnds, GotoMoves DEF Insert
    <3>2. req[r].cmd.op = "create"
      BY <2>3 DEF Insert
    <3> QED
      BY <1>1, <3>1, <3>2 DEF Current, Session
  <2>4. CASE Update(r)
    <3> DEFINE old == {u \in users : u.id = req[r].target.id}
               new == (users \ old) \cup {Edited(req[r], u) : u \in old}
    <3>1. users' = new /\ req'[r] = [req[r] EXCEPT !.pc = "reread"]
      BY <1>3, <2>4, AnswerEnds, GotoMoves DEF Update
    <3>2. Current(req[r])
      BY <1>1, <1>3, <3>1 DEF AllCurrent, Session
    <3>3. \E u \in new : Shows(req[r], u)
      BY <2>4, <3>2, UpdateAlone
    <3>4. PICK u \in users' : Shows(req[r], u)
      BY <3>1, <3>3
    <3>5. u.id = req'[r].target.id /\ Shows(req'[r], u) /\ req'[r].pc = "reread"
      BY <1>1, <3>1, <3>4 DEF Shows, Session
    <3> QED
      BY <3>5 DEF Current, Shows
  <2>5. CASE OutOfIds(r) \/ Reread(r)
    BY <1>3, <2>5, AnswerEnds DEF OutOfIds, Reread
  <2> QED
    BY <2>1, <2>2, <2>3, <2>4, <2>5 DEF Step
<1>4. ASSUME NEW s \in Requests, ~Waiting(s)', req'[s].alone
      PROVE  Current(req[s])'
  BY <1>2, <1>3, <1>4, OthersCurrent
<1> QED
  BY <1>4 DEF AllCurrent, Current, Shows

(* So does a request that begins.                                          *)
LEMMA BeginCurrent ==
  ASSUME Typed, AllCurrent, NEW r \in Requests, NEW c \in Commands,
         BeginCreate(r, c) \/ BeginUpdate(r, c)
  PROVE  AllCurrent'
<1>1. ASSUME NEW s \in Requests, s # r, ~Waiting(s)'
      PROVE  ~Waiting(s) /\ req'[s] = req[s] /\ users' = users
  BY <1>1 DEF BeginCreate, BeginUpdate, Answer, Goto, Typed, TypeOK, Waiting
<1>2. ASSUME ~Waiting(r)' PROVE Current(req[r])'
  <2>1. CASE BeginCreate(r, c)
    BY <2>1 DEF BeginCreate, Goto, Current, Typed, TypeOK
  <2>2. CASE BeginUpdate(r, c)
    <3>1. PICK u \in users :
            req'[r] = [pc |-> IF c.email = NotSent THEN "write" ELSE "email",
                       cmd |-> c, target |-> u, alone |-> TRUE]
      BY <1>2, <2>2, AnswerEnds, GotoMoves DEF BeginUpdate
    <3>2. users' = users /\ c.op = "update"
      BY <2>2 DEF BeginUpdate
    <3> QED
      BY <3>1, <3>2 DEF Current
  <2> QED
    BY <2>1, <2>2
<1>3. ASSUME NEW s \in Requests, ~Waiting(s)', req'[s].alone
      PROVE  Current(req[s])'
  BY <1>1, <1>2, <1>3, OthersCurrent
<1> QED
  BY <1>3 DEF AllCurrent, Current, Shows

(* What a request alone relies on is true at every moment.                 *)
LEMMA AlwaysCurrent == Spec => []AllCurrent
<1>1. Init => AllCurrent
  BY DEF Init, AllCurrent, Waiting, Idle
<1>2. Typed /\ SoundTable /\ AllCurrent /\ [Next]_vars => AllCurrent'
  <2> SUFFICES ASSUME Typed, SoundTable, AllCurrent, [Next]_vars PROVE AllCurrent'
    OBVIOUS
  <2>1. CASE UNCHANGED vars
    BY <2>1 DEF vars, AllCurrent, Current, Waiting, Shows
  <2>2. ASSUME NEW u \in users, Delete(u) PROVE AllCurrent'
    <3>1. ASSUME NEW s \in Requests, ~Waiting(s)' PROVE ~req'[s].alone
      BY <2>2, <3>1, DisturbedSession DEF Delete, Waiting, Disturbed
    <3> QED
      BY <3>1 DEF AllCurrent
  <2> QED
    BY <2>1, <2>2, StepCurrent, BeginCurrent DEF Next
<1> QED
  BY <1>1, <1>2, AlwaysTyped, AlwaysSound, PTL DEF Spec

(* A request whose pc becomes "idle" has taken a step of its own.          *)
LEMMA EndsByStep ==
  ASSUME Typed, [Next]_vars, NEW r \in Requests, NEW a \in Answers, Ends(r, a)
  PROVE  Step(r) /\ req[r] \in Session /\ req'[r].pc = "idle" /\ req'[r].answer = a
BY OwnStep, Busy DEF Ends, Idle, Waiting

(* Whatever overlaps: a request nothing was committed during gets a 500    *)
(* only for a duplicate that was not sent as it is stored                  *)
(* (user_management_service.py, create_user and update_user).              *)
THEOREM DuplicatesFound == Spec => ConflictsNamed
<1>1. Typed /\ SoundTable /\ AllCurrent /\ [Next]_vars =>
        [\A r \in Requests :
           Ends(r, "server error") /\ req[r].alone /\ AsStored(req[r].cmd) => OutOfBound(r)]_vars
  <2> SUFFICES ASSUME Typed, SoundTable, AllCurrent, [Next]_vars, NEW r \in Requests,
                      Ends(r, "server error"), req[r].alone, AsStored(req[r].cmd)
               PROVE  OutOfBound(r)
    OBVIOUS
  <2>1. Step(r) /\ req[r] \in Session
    BY EndsByStep DEF Answers
  <2>2. Current(req[r])
    BY DEF AllCurrent, Ends
  <2>3. req'[r].pc = "idle" /\ req'[r].answer = "server error"
    BY EndsByStep DEF Answers
  <2>4. ~CheckUniversityId(r) /\ ~CheckEmail(r)
    <3>1. ASSUME Answer(r, "conflict") PROVE FALSE
      <4>1. req'[r].answer = "conflict"
        BY <3>1, AnswerEnds
      <4> QED
        BY <2>3, <4>1
    <3>2. ASSUME NEW p \in {"email", "write"}, Goto(r, [req[r] EXCEPT !.pc = p]) PROVE FALSE
      <4>1. req'[r] = [req[r] EXCEPT !.pc = p]
        BY <3>2, GotoMoves
      <4> QED
        BY <2>1, <2>3, <4>1 DEF Session
    <3> QED
      BY <3>1, <3>2 DEF CheckUniversityId, CheckEmail
  <2>5. CASE Insert(r)
    <3>1. PICK i \in AccountIds \ usedIds :
            IF Distinct(users \cup {NewAccount(i, req[r].cmd)})
            THEN Commits(r, [req[r] EXCEPT !.pc = "reread", !.target = NewAccount(i, req[r].cmd)])
            ELSE Answer(r, "server error")
      BY <2>5 DEF Insert
    <3>2. Commits(r, [req[r] EXCEPT !.pc = "reread", !.target = NewAccount(i, req[r].cmd)])
      BY <2>2, <2>5, <3>1, InsertAlone
    <3> QED
      BY <2>1, <2>3, <3>2 DEF Commits, Session
  <2>6. CASE Update(r)
    <3>1. Commits(r, [req[r] EXCEPT !.pc = "reread"])
      BY <2>2, <2>6, UpdateAlone DEF Update
    <3> QED
      BY <2>1, <2>3, <3>1 DEF Commits, Session
  <2>7. CASE Reread(r)
    <3>1. \E u \in users : u.id = req[r].target.id
      BY <2>2, <2>7 DEF Reread, Current
    <3> QED
      BY <2>3, <2>7, <3>1 DEF Reread, Answer, Goto, Idle, Typed, TypeOK
  <2>8. CASE OutOfIds(r)
    BY <2>8 DEF OutOfIds, OutOfBound
  <2> QED
    BY <2>1, <2>4, <2>5, <2>6, <2>7, <2>8 DEF Step
<1> QED
  BY <1>1, AlwaysTyped, AlwaysSound, AlwaysCurrent, PTL DEF Spec, ConflictsNamed

(* Whatever overlaps: an update nothing was committed during and that is   *)
(* answered with 200 has stored what it was sent.                          *)
THEOREM UpdatesTakeEffect == Spec => UpdateTakesEffect
<1>1. Typed /\ AllCurrent /\ [Next]_vars =>
        [\A r \in Requests :
           Ends(r, "ok") /\ req[r].cmd.op = "update" /\ req[r].alone =>
             \E u \in users : Shows(req[r], u)]_vars
  <2> SUFFICES ASSUME Typed, AllCurrent, [Next]_vars, NEW r \in Requests,
                      Ends(r, "ok"), req[r].cmd.op = "update", req[r].alone
               PROVE  \E u \in users : Shows(req[r], u)
    OBVIOUS
  <2>1. Step(r) /\ req[r] \in Session
    BY EndsByStep DEF Answers
  <2>2. req'[r].pc = "idle" /\ req'[r].answer = "ok"
    BY DEF Ends, Idle
  <2>3. req[r].pc = "reread"
    <3>1. ASSUME NEW a \in {"conflict", "server error"}, Answer(r, a) PROVE FALSE
      <4>1. req'[r].answer = a
        BY <3>1, AnswerEnds
      <4> QED
        BY <2>2, <4>1
    <3>2. ASSUME NEW p \in {"email", "write", "reread"},
                 \/ Goto(r, [req[r] EXCEPT !.pc = p])
                 \/ Commits(r, [req[r] EXCEPT !.pc = p])
          PROVE  FALSE
      <4>1. req'[r] = [req[r] EXCEPT !.pc = p]
        BY <3>2, GotoMoves
      <4> QED
        BY <2>1, <2>2, <4>1 DEF Session
    <3>3. ~CheckUniversityId(r) /\ ~CheckEmail(r) /\ ~OutOfIds(r)
      BY <3>1, <3>2 DEF CheckUniversityId, CheckEmail, OutOfIds
    <3>4. ASSUME Update(r) PROVE FALSE
      BY <3>1, <3>2, <3>4 DEF Update
    <3>5. ASSUME Insert(r) PROVE FALSE
      <4>1. PICK i \in AccountIds :
              \/ Commits(r, [req[r] EXCEPT !.pc = "reread", !.target = NewAccount(i, req[r].cmd)])
              \/ Answer(r, "server error")
        BY <3>5 DEF Insert
      <4>2. req'[r] = [req[r] EXCEPT !.pc = "reread", !.target = NewAccount(i, req[r].cmd)]
        BY <3>1, <4>1, GotoMoves
      <4> QED
        BY <2>1, <2>2, <4>2 DEF Session
    <3> QED
      BY <2>1, <3>3, <3>4, <3>5 DEF Step, Reread
  <2> QED
    BY <2>3 DEF AllCurrent, Current, Ends
<1> QED
  BY <1>1, AlwaysTyped, AlwaysCurrent, PTL DEF Spec, UpdateTakesEffect
=============================================================================
