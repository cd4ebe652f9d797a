--------------------- MODULE AccountAdministrationProofs ---------------------
(***************************************************************************)
(* Theorems about AccountAdministration for every set of accounts, roles,  *)
(* threads, path parameters and every starting directory.                  *)
(***************************************************************************)
EXTENDS AccountAdministration, TLAPS

(* A thread that is past "idle" holds a complete request.                  *)
LEMMA Busy ==
  ASSUME TypeOK, NEW r \in Requests, req[r].pc # "idle"
  PROVE  req[r] \in InFlight
BY DEF TypeOK, Idle

(* Sending a request one step on keeps its record complete.                *)
LEMMA GotoType ==
  ASSUME TypeOK, NEW r \in Requests, req[r].pc # "idle",
         NEW p \in BeforeLoad \cup AfterLoad, Goto(r, p),
         p \in BeforeLoad <=> req[r].pc \in BeforeLoad
  PROVE  req' \in [Requests -> InFlight \cup {Idle}]
<1>1. req[r] \in InFlight
  BY Busy
<1>2. [req[r] EXCEPT !.pc = p] \in InFlight
  BY <1>1 DEF InFlight, Session
<1> QED
  BY <1>2 DEF Goto, TypeOK

(* What Load and FindLink put into the record.                             *)
LEMMA LoadSession ==
  ASSUME NEW q \in Session, NEW u \in Users, NEW p \in AfterLoad, NEW w \in Status,
         NEW S \in SUBSET UserRole
  PROVE  [q EXCEPT !.target = u, !.pc = p, !.was = w, !.seen = S] \in InFlight
BY AccountAssumption DEF InFlight, Session, BeforeLoad, AfterLoad

(* A session that has noted the id of a link row is one in flight.         *)
LEMMA RowSession ==
  ASSUME NEW q \in Session, q.target # NoUser, NEW i \in RowIds, NEW p \in AfterLoad
  PROVE  [q EXCEPT !.row = i, !.pc = p] \in InFlight
BY DEF InFlight, Session, BeforeLoad, AfterLoad

(* A request that ends leaves its thread idle.                             *)
LEMMA FinishType ==
  ASSUME TypeOK, NEW r \in Requests, Finish(r)
  PROVE  req' \in [Requests -> InFlight \cup {Idle}]
BY DEF Finish, TypeOK

(* A request that passes the checks of its route is a session.             *)
LEMMA BeginType ==
  ASSUME TypeOK, NEW r \in Requests, NEW a \in Users, NEW n \in Names, NEW c \in Commands,
         Begin(r, a, n, c)
  PROVE  TypeOK'
<1> DEFINE q == [pc |-> IF Guarded(c) THEN "guard" ELSE "load", actor |-> a, name |-> n,
                 cmd |-> c, target |-> NoUser, was |-> "ACTIVE", seen |-> LinksOf(a), row |-> 0]
<1>1. q \in InFlight
  <2>1. LinksOf(a) \in SUBSET UserRole
    BY DEF LinksOf, TypeOK
  <2> QED
    BY <2>1 DEF InFlight, Session, BeforeLoad, AfterLoad, Status
<1>2. req' = [req EXCEPT ![r] = q]
  BY DEF Begin
<1>3. req' \in [Requests -> InFlight \cup {Idle}]
  BY <1>1, <1>2 DEF TypeOK
<1>4. accepted' \in 0 .. MaxAccepted
  BY AccountAssumption DEF Begin, TypeOK
<1> QED
  BY <1>3, <1>4 DEF Begin, directory, TypeOK

(* The steps that only read.                                               *)
LEMMA ReadType ==
  ASSUME TypeOK, NEW r \in Requests,
         NotFound(r) \/ GuardLoad(r) \/ GuardCount(r) \/ Load(r) \/ FindLink(r) \/ FindNewLink(r)
  PROVE  TypeOK'
<1>1. UNCHANGED <<directory, accepted, lostAudit>>
  BY DEF NotFound, GuardLoad, GuardCount, Load, FindLink, FindNewLink
<1>2. SUFFICES req' \in [Requests -> InFlight \cup {Idle}]
  BY <1>1 DEF directory, TypeOK
<1>3. CASE NotFound(r)
  BY <1>3, FinishType DEF NotFound
<1>4. CASE GuardLoad(r)
  BY <1>4, GotoType DEF GuardLoad, BeforeLoad, AfterLoad
<1>5. CASE GuardCount(r)
  BY <1>5, GotoType, FinishType DEF GuardCount, BeforeLoad, AfterLoad
<1>6. CASE Load(r)
  <2>1. req[r] \in Session
    BY <1>6, Busy DEF Load, InFlight
  <2>2. PICK u \in Users :
          req' = [req EXCEPT ![r] =
            [req[r] EXCEPT !.target = u,
               !.pc = IF req[r].cmd.op \in RoleOps THEN "link" ELSE "write",
               !.was = IF u = req[r].actor THEN req[r].was ELSE status[u],
               !.seen = IF u = req[r].actor THEN req[r].seen ELSE LinksOf(u)]]
    BY <1>6 DEF Load
  <2>3. LinksOf(u) \in SUBSET UserRole /\ status[u] \in Status
    BY DEF LinksOf, TypeOK
  <2>4. [req[r] EXCEPT !.target = u,
               !.pc = IF req[r].cmd.op \in RoleOps THEN "link" ELSE "write",
               !.was = IF u = req[r].actor THEN req[r].was ELSE status[u],
               !.seen = IF u = req[r].actor THEN req[r].seen ELSE LinksOf(u)] \in InFlight
    <3>1. (IF req[r].cmd.op \in RoleOps THEN "link" ELSE "write") \in AfterLoad
      BY DEF AfterLoad
    <3>2. (IF u = req[r].actor THEN req[r].was ELSE status[u]) \in Status
      BY <2>1, <2>3 DEF Session
    <3>3. (IF u = req[r].actor THEN req[r].seen ELSE LinksOf(u)) \in SUBSET UserRole
      BY <2>1, <2>3 DEF Session
    <3> QED
      BY <2>1, <3>1, <3>2, <3>3, LoadSession
  <2> QED
    BY <2>2, <2>4 DEF TypeOK
<1>7. CASE FindLink(r)
  <2>1. req[r] \in Session /\ req[r].target # NoUser
    BY <1>7, Busy DEF FindLink, InFlight, BeforeLoad
  <2>2. CASE Finish(r)
    BY <2>2, FinishType
  <2>3. CASE Goto(r, "write")
    BY <1>7, <2>3, GotoType DEF FindLink, BeforeLoad, AfterLoad
  <2>4. CASE \E l \in userRoles :
               req' = [req EXCEPT ![r] =
                 [req[r] EXCEPT !.row = l.id,
                    !.pc = IF req[r].cmd.op = "replace" THEN "newlink" ELSE "write"]]
    <3>1. PICK l \in userRoles :
               req' = [req EXCEPT ![r] =
                 [req[r] EXCEPT !.row = l.id,
                    !.pc = IF req[r].cmd.op = "replace" THEN "newlink" ELSE "write"]]
      BY <2>4
    <3>2. l.id \in RowIds
      BY DEF TypeOK, UserRole
    <3>3. [req[r] EXCEPT !.row = l.id,
             !.pc = IF req[r].cmd.op = "replace" THEN "newlink" ELSE "write"] \in InFlight
      <4>1. (IF req[r].cmd.op = "replace" THEN "newlink" ELSE "write") \in AfterLoad
        BY DEF AfterLoad
      <4> QED
        BY <2>1, <3>2, <4>1, RowSession
    <3> QED
      BY <3>1, <3>3 DEF TypeOK
  <2> QED
    BY <1>7, <2>2, <2>3, <2>4 DEF FindLink
<1>8. CASE FindNewLink(r)
  BY <1>8, GotoType, FinishType DEF FindNewLink, BeforeLoad, AfterLoad
<1> QED
  BY <1>3, <1>4, <1>5, <1>6, <1>7, <1>8

(* The writes and what follows them.                                       *)
LEMMA AssignType ==
  ASSUME TypeOK, NEW r \in Requests, Assign(r)
  PROVE  TypeOK'
<1> DEFINE q == req[r]
           new(i) == [id |-> i, user |-> q.target, role |-> q.cmd.role]
<1>1. q \in InFlight /\ q.cmd.op = "assign" /\ q.pc = "write"
  BY Busy DEF Assign, Writing
<1>2. q.cmd.role \in Roles /\ q.target \in Users
  BY <1>1 DEF InFlight, Session, Commands, BeforeLoad
<1>3. PICK i \in RowIds :
        /\ lastRowId' = IF ReuseRowIds THEN lastRowId ELSE i
        /\ \/ /\ userRoles' = userRoles \cup {new(i)}
              /\ req' = [req EXCEPT ![r] = [q EXCEPT !.row = i, !.pc = "refresh"]]
           \/ userRoles' = userRoles /\ Finish(r)
  BY DEF Assign
<1>4. lastRowId' \in RowIds \cup {0}
  BY <1>3 DEF TypeOK
<1>5. new(i) \in UserRole
  BY <1>2 DEF UserRole
<1>6. userRoles' \subseteq UserRole
  BY <1>3, <1>5 DEF TypeOK
<1>7. [q EXCEPT !.row = i, !.pc = "refresh"] \in InFlight
  BY <1>1 DEF InFlight, Session, BeforeLoad, AfterLoad
<1>8. req' \in [Requests -> InFlight \cup {Idle}]
  BY <1>3, <1>7, FinishType DEF TypeOK
<1> QED
  BY <1>4, <1>6, <1>8 DEF Assign, TypeOK

(* Replacing keeps the ranges; the row it writes keeps its id and account. *)
LEMMA ReplaceType ==
  ASSUME TypeOK, NEW r \in Requests, Replace(r)
  PROVE  TypeOK'
<1> DEFINE q == req[r]
           old == {l \in userRoles : l.id = q.row}
           rows == (userRoles \ old) \cup {[l EXCEPT !.role = q.cmd.newRole] : l \in old}
<1>1. q \in InFlight /\ q.cmd.op = "replace" /\ q.pc = "write"
  BY Busy DEF Replace, Writing
<1>2. q.cmd.newRole \in Roles
  BY <1>1 DEF InFlight, Session, Commands
<1>3. ASSUME NEW l \in userRoles PROVE [l EXCEPT !.role = q.cmd.newRole] \in UserRole
  BY <1>2 DEF TypeOK, UserRole
<1>4. rows \subseteq UserRole
  BY <1>3 DEF TypeOK
<1>5. (userRoles' = userRoles \/ userRoles' = rows) /\ (Goto(r, "refresh") \/ Finish(r))
  BY DEF Replace
<1>6. req' \in [Requests -> InFlight \cup {Idle}]
  BY <1>1, <1>5, GotoType, FinishType DEF BeforeLoad, AfterLoad
<1> QED
  BY <1>4, <1>5, <1>6 DEF Replace, TypeOK

(* The other writes, and the steps after them, keep the ranges.            *)
LEMMA WriteType ==
  ASSUME TypeOK, NEW r \in Requests,
         \/ OutOfRowIds(r) \/ Revoke(r) \/ SetStatus(r) \/ Delete(r) \/ Refresh(r) \/ Audit(r)
  PROVE  TypeOK'
<1>1. CASE OutOfRowIds(r)
  BY <1>1, FinishType DEF OutOfRowIds, directory, TypeOK
<1>2. CASE Revoke(r)
  <2>1. req' \in [Requests -> InFlight \cup {Idle}]
    BY <1>2, GotoType DEF Revoke, Writing, BeforeLoad, AfterLoad
  <2> QED
    BY <1>2, <2>1 DEF Revoke, TypeOK
<1>3. CASE SetStatus(r)
  <2>1. req[r].pc = "write" /\ (Goto(r, "refresh") \/ Finish(r))
    BY <1>3 DEF SetStatus, Writing
  <2>2. req' \in [Requests -> InFlight \cup {Idle}]
    BY <2>1, GotoType, FinishType DEF BeforeLoad, AfterLoad
  <2>3. NewStatus(req[r]) \in Status
    BY DEF NewStatus, Status
  <2>4. status' \in [Users -> Status]
    BY <1>3, <2>3 DEF SetStatus, TypeOK
  <2> QED
    BY <1>3, <2>2, <2>4 DEF SetStatus, TypeOK
<1>4. CASE Delete(r)
  <2>1. req' \in [Requests -> InFlight \cup {Idle}]
    BY <1>4, GotoType DEF Delete, Writing, BeforeLoad, AfterLoad
  <2>2. status' \in [Users -> Status]
    BY <1>4 DEF Delete, TypeOK, Status
  <2> QED
    BY <1>4, <2>1, <2>2 DEF Delete, TypeOK
<1>5. CASE Refresh(r)
  <2>1. req' \in [Requests -> InFlight \cup {Idle}]
    BY <1>5, GotoType, FinishType DEF Refresh, BeforeLoad, AfterLoad
  <2> QED
    BY <1>5, <2>1 DEF Refresh, directory, TypeOK
<1>6. CASE Audit(r)
  <2>1. req' \in [Requests -> InFlight \cup {Idle}]
    BY <1>6, FinishType DEF Audit
  <2>2. lostAudit' \in BOOLEAN
    BY <1>6 DEF Audit, TypeOK
  <2> QED
    BY <1>6, <2>1, <2>2 DEF Audit, directory, TypeOK
<1> QED
  BY <1>1, <1>2, <1>3, <1>4, <1>5, <1>6

(* After a crash every thread is idle.                                     *)
LEMMA CrashType ==
  ASSUME TypeOK, Crash
  PROVE  TypeOK'
<1>1. req' \in [Requests -> InFlight \cup {Idle}]
  BY DEF Crash
<1>2. lostAudit' \in BOOLEAN
  BY DEF Crash, TypeOK
<1> QED
  BY <1>1, <1>2 DEF Crash, TypeOK, directory

(* The ranges hold at the start.                                           *)
LEMMA InitType == Init => TypeOK
<1> SUFFICES ASSUME Init PROVE TypeOK
  OBVIOUS
<1>1. status \in [Users -> Status]
  BY StartAssumption DEF Init, Status
<1>2. accepted \in 0 .. MaxAccepted
  BY AccountAssumption DEF Init
<1> QED
  BY <1>1, <1>2, StartAssumption DEF Init, TypeOK

(* Every step keeps the ranges.                                            *)
LEMMA NextType == TypeOK /\ [Next]_vars => TypeOK'
<1> SUFFICES ASSUME TypeOK, [Next]_vars PROVE TypeOK'
  OBVIOUS
<1>1. ASSUME NEW r \in Requests, NEW a \in Users, NEW n \in Names, NEW c \in Commands,
             Begin(r, a, n, c)
      PROVE  TypeOK'
  BY <1>1, BeginType
<1>2. ASSUME NEW r \in Requests, Step(r) PROVE TypeOK'
  BY <1>2, ReadType, AssignType, ReplaceType, WriteType DEF Step
<1>3. CASE UNCHANGED vars
  BY <1>3 DEF vars, TypeOK
<1> QED
  BY <1>1, <1>2, <1>3, CrashType DEF Next

(* Every state of every run is well typed.                                 *)
THEOREM TypeCorrect == Spec => []TypeOK
BY InitType, NextType, PTL DEF Spec

-----------------------------------------------------------------------------
(* The constraints of user_roles.                                          *)

(* Taking rows away breaks no constraint.                                  *)
LEMMA FewerLinks ==
  ASSUME NEW st, NEW L, NEW M \in SUBSET L, Integrity(st, L)
  PROVE  Integrity(st, M)
BY DEF Integrity

(* Every step keeps the constraints of user_roles.                         *)
LEMMA NextLinkIntegrity == TypeOK /\ LinkIntegrity /\ [Next]_vars => LinkIntegrity'
<1> SUFFICES ASSUME TypeOK, LinkIntegrity, [Next]_vars PROVE Integrity(status', userRoles')
  BY DEF LinkIntegrity
<1>1. CASE status' = status /\ (userRoles' \subseteq userRoles \/ Integrity(status, userRoles'))
  BY <1>1, FewerLinks DEF LinkIntegrity
<1>2. ASSUME NEW r \in Requests, SetStatus(r)
      PROVE  Integrity(status', userRoles')
  <2>1. userRoles' = userRoles
    BY <1>2 DEF SetStatus
  <2>2. ASSUME NEW u \in Users, status[u] # "DELETED" PROVE status'[u] # "DELETED"
    BY <1>2, <2>2 DEF SetStatus, NewStatus, TypeOK
  <2>3. \A l \in userRoles : l.user \in Users
    BY DEF TypeOK, UserRole
  <2> QED
    BY <2>1, <2>2, <2>3 DEF LinkIntegrity, Integrity
<1>3. ASSUME NEW r \in Requests, Delete(r)
      PROVE  Integrity(status', userRoles')
  <2>1. userRoles' \subseteq {l \in userRoles : l.user # req[r].target}
    BY <1>3 DEF Delete
  <2>2. \A u \in Users : u # req[r].target => status'[u] = status[u]
    BY <1>3 DEF Delete, TypeOK
  <2>3. \A l \in userRoles : l.user \in Users
    BY DEF TypeOK, UserRole
  <2> QED
    BY <2>1, <2>2, <2>3 DEF LinkIntegrity, Integrity
<1>4. ASSUME NEW r \in Requests, Step(r), ~SetStatus(r), ~Delete(r)
      PROVE  Integrity(status', userRoles')
  <2>1. CASE Assign(r)
    BY <1>1, <2>1 DEF Assign
  <2>2. CASE Replace(r)
    BY <1>1, <2>2 DEF Replace
  <2>3. CASE Revoke(r)
    BY <1>1, <2>3 DEF Revoke
  <2>4. CASE ~Assign(r) /\ ~Replace(r) /\ ~Revoke(r)
    BY <1>1, <1>4, <2>4 DEF Step, NotFound, GuardLoad, GuardCount, Load, FindLink, FindNewLink,
       OutOfRowIds, Refresh, Audit, directory
  <2> QED
    BY <2>1, <2>2, <2>3, <2>4
<1>5. CASE \E r \in Requests, a \in Users, n \in Names, c \in Commands : Begin(r, a, n, c)
  BY <1>1, <1>5 DEF Begin, directory
<1>6. CASE Crash
  BY <1>1, <1>6 DEF Crash, directory
<1>7. CASE UNCHANGED vars
  BY <1>1, <1>7 DEF vars
<1> QED
  BY <1>2, <1>3, <1>4, <1>5, <1>6, <1>7 DEF Next

(* One row per id and per (user, role), none of a deleted account, however *)
(* many requests overlap.                                                  *)
THEOREM LinksStaySound == Spec => []LinkIntegrity
<1>1. Init => LinkIntegrity
  BY StartAssumption DEF Init, LinkIntegrity
<1> QED
  BY <1>1, NextLinkIntegrity, TypeCorrect, PTL DEF Spec

-----------------------------------------------------------------------------
(* How one step can move one thread that is not idle after it.             *)

SameCommand(r) ==
  /\ req[r].pc # "idle"
  /\ req'[r].actor = req[r].actor
  /\ req'[r].name = req[r].name
  /\ req'[r].cmd = req[r].cmd

Kept(r) ==
  /\ SameCommand(r)
  /\ req'[r].target = req[r].target
  /\ req'[r].seen = req[r].seen
  /\ req'[r].row = req[r].row

Began(r) ==
  /\ \E a \in Users, n \in Names, c \in Commands :
       /\ ~Protected(n)
       /\ c.op \in {"deactivate", "delete"} => ~NamesSelf(n, a)
       /\ req'[r].actor = a /\ req'[r].name = n /\ req'[r].cmd = c
       /\ req'[r].target = NoUser /\ req'[r].seen = LinksOf(a) /\ req'[r].row = 0
  /\ UNCHANGED directory

Loaded(r) ==
  /\ SameCommand(r)
  /\ req[r].pc = "load"
  /\ \E u \in Users :
       /\ Finds(req[r].name, u)
       /\ req'[r].target = u
       /\ req'[r].seen = IF u = req[r].actor THEN req[r].seen ELSE LinksOf(u)
  /\ req'[r].row = req[r].row
  /\ UNCHANGED directory

Linked(r) ==
  /\ SameCommand(r)
  /\ req'[r].target = req[r].target
  /\ req'[r].seen = req[r].seen
  /\ \E l \in userRoles : l.user = req[r].target /\ req'[r].row = l.id
  /\ UNCHANGED directory

Inserted(r) ==
  /\ SameCommand(r)
  /\ req'[r].target = req[r].target
  /\ req'[r].seen = req[r].seen
  /\ \E l \in userRoles' : l.user = req[r].target /\ req'[r].row = l.id

(* What a step does to the session of the request that takes it.           *)
LEMMA StepMoves ==
  ASSUME TypeOK, NEW r \in Requests, Step(r)
  PROVE  req'[r] = Idle \/ Kept(r) \/ Loaded(r) \/ Linked(r) \/ Inserted(r)
<1> DEFINE q == req[r]
<1>1. q.pc # "idle"
  BY DEF Step, NotFound, GuardLoad, GuardCount, Load, FindLink, FindNewLink, Assign, OutOfRowIds,
     Revoke, Replace, SetStatus, Delete, Refresh, Audit, Writing
<1>2. q \in Session
  BY <1>1, Busy DEF InFlight
<1>3. ASSUME Finish(r) PROVE req'[r] = Idle
  BY <1>3 DEF Finish, TypeOK
<1>4. ASSUME NEW p, Goto(r, p) PROVE Kept(r)
  <2>1. req'[r] = [q EXCEPT !.pc = p]
    BY <1>4 DEF Goto, TypeOK
  <2> QED
    BY <1>1, <1>2, <2>1 DEF Kept, SameCommand, Session
<1>5. CASE Load(r)
  <2>1. PICK u \in Users :
          /\ Finds(q.name, u)
          /\ req' = [req EXCEPT ![r] =
               [q EXCEPT !.target = u,
                         !.pc = IF q.cmd.op \in RoleOps THEN "link" ELSE "write",
                         !.was = IF u = q.actor THEN q.was ELSE status[u],
                         !.seen = IF u = q.actor THEN q.seen ELSE LinksOf(u)]]
    BY <1>5 DEF Load
  <2>2. req'[r] = [q EXCEPT !.target = u,
                         !.pc = IF q.cmd.op \in RoleOps THEN "link" ELSE "write",
                         !.was = IF u = q.actor THEN q.was ELSE status[u],
                         !.seen = IF u = q.actor THEN q.seen ELSE LinksOf(u)]
    BY <2>1 DEF TypeOK
  <2>3. /\ req'[r].actor = q.actor /\ req'[r].name = q.name /\ req'[r].cmd = q.cmd
        /\ req'[r].target = u /\ req'[r].row = q.row
        /\ req'[r].seen = IF u = q.actor THEN q.seen ELSE LinksOf(u)
    BY <1>2, <2>2 DEF Session
  <2>4. UNCHANGED directory /\ q.pc = "load"
    BY <1>5 DEF Load
  <2> QED
    BY <1>1, <2>1, <2>3, <2>4 DEF Loaded, SameCommand
<1>6. CASE FindLink(r)
  <2>1. CASE Finish(r) \/ Goto(r, "write")
    BY <1>3, <1>4, <2>1
  <2>2. ASSUME NEW l \in userRoles, l.user = q.target,
               req' = [req EXCEPT ![r] =
                 [q EXCEPT !.row = l.id, !.pc = IF q.cmd.op = "replace" THEN "newlink" ELSE "write"]]
        PROVE  Linked(r)
    <3>1. req'[r] = [q EXCEPT !.row = l.id, !.pc = IF q.cmd.op = "replace" THEN "newlink" ELSE "write"]
      BY <2>2 DEF TypeOK
    <3>2. /\ req'[r].actor = q.actor /\ req'[r].name = q.name /\ req'[r].cmd = q.cmd
          /\ req'[r].target = q.target /\ req'[r].seen = q.seen /\ req'[r].row = l.id
      BY <1>2, <3>1 DEF Session
    <3>3. UNCHANGED directory
      BY <1>6 DEF FindLink
    <3> QED
      BY <1>1, <2>2, <3>2, <3>3 DEF Linked, SameCommand
  <2> QED
    BY <1>6, <2>1, <2>2 DEF FindLink
<1>7. CASE Assign(r)
  <2>1. CASE Finish(r)
    BY <1>3, <2>1
  <2>2. ASSUME NEW i \in RowIds,
               userRoles' = userRoles \cup {[id |-> i, user |-> q.target, role |-> q.cmd.role]},
               req' = [req EXCEPT ![r] = [q EXCEPT !.row = i, !.pc = "refresh"]]
        PROVE  Inserted(r)
    <3> DEFINE l == [id |-> i, user |-> q.target, role |-> q.cmd.role]
    <3>1. req'[r] = [q EXCEPT !.row = i, !.pc = "refresh"]
      BY <2>2 DEF TypeOK
    <3>2. /\ req'[r].actor = q.actor /\ req'[r].name = q.name /\ req'[r].cmd = q.cmd
          /\ req'[r].target = q.target /\ req'[r].seen = q.seen /\ req'[r].row = i
      BY <1>2, <3>1 DEF Session
    <3>3. l \in userRoles' /\ l.user = q.target /\ l.id = i
      BY <2>2
    <3> QED
      BY <1>1, <3>2, <3>3 DEF Inserted, SameCommand
  <2> QED
    BY <1>7, <2>1, <2>2 DEF Assign
<1>8. CASE ~Load(r) /\ ~FindLink(r) /\ ~Assign(r)
  BY <1>3, <1>4, <1>8 DEF Step, NotFound, GuardLoad, GuardCount, FindNewLink, OutOfRowIds,
     Revoke, Replace, SetStatus, Delete, Refresh, Audit
<1> QED
  BY <1>5, <1>6, <1>7, <1>8

(* A step leaves the sessions of other requests alone.                     *)
LEMMA StepElsewhere ==
  ASSUME TypeOK, NEW x \in Requests, Step(x), NEW r \in Requests, x # r
  PROVE  req'[r] = req[r]
BY DEF Step, NotFound, GuardLoad, GuardCount, Load, FindLink, FindNewLink, Assign, OutOfRowIds,
   Revoke, Replace, SetStatus, Delete, Refresh, Audit, Goto, Finish, TypeOK

(* What any step of the system does to one session.                        *)
LEMMA NextMoves ==
  ASSUME TypeOK, [Next]_vars, NEW r \in Requests
  PROVE  req'[r] = Idle \/ Kept(r) \/ Began(r) \/ Loaded(r) \/ Linked(r) \/ Inserted(r)
<1>1. ASSUME req'[r] = req[r] PROVE req'[r] = Idle \/ Kept(r)
  <2>1. req[r].pc = "idle" => req[r] = Idle
    BY DEF TypeOK, InFlight, Session, BeforeLoad, AfterLoad
  <2> QED
    BY <1>1, <2>1 DEF Kept, SameCommand
<1>2. ASSUME NEW x \in Requests, NEW a \in Users, NEW n \in Names, NEW c \in Commands,
             Begin(x, a, n, c)
      PROVE  req'[r] = req[r] \/ Began(r)
  <2>1. CASE x = r
    <3> DEFINE q == [pc |-> IF Guarded(c) THEN "guard" ELSE "load", actor |-> a, name |-> n,
                     cmd |-> c, target |-> NoUser, was |-> "ACTIVE", seen |-> LinksOf(a), row |-> 0]
    <3>1. req'[r] = q
      BY <1>2, <2>1 DEF Begin, TypeOK
    <3>2. /\ req'[r].actor = a /\ req'[r].name = n /\ req'[r].cmd = c
          /\ req'[r].target = NoUser /\ req'[r].seen = LinksOf(a) /\ req'[r].row = 0
      BY <3>1
    <3> QED
      BY <1>2, <2>1, <3>2 DEF Begin, Began
  <2>2. CASE x # r
    BY <1>2, <2>2 DEF Begin, TypeOK
  <2> QED
    BY <2>1, <2>2
<1>3. ASSUME NEW x \in Requests, Step(x), x # r
      PROVE  req'[r] = req[r]
  BY <1>3, StepElsewhere
<1>4. CASE Crash
  BY <1>4 DEF Crash
<1>5. CASE UNCHANGED vars
  BY <1>1, <1>5 DEF vars
<1> QED
  BY <1>1, <1>2, <1>3, <1>4, <1>5, StepMoves DEF Next

-----------------------------------------------------------------------------
(* What the checks of Begin still say when the request writes: the account *)
(* it found is one its path parameter names.                               *)

Entitled(q) ==
  /\ ~Protected(q.name)
  /\ q.cmd.op \in {"deactivate", "delete"} => ~NamesSelf(q.name, q.actor)
  /\ q.target # NoUser => q.name \in {IdOf[q.target], UidOf[q.target]}

AllEntitled == \A r \in Requests : req[r] # Idle => Entitled(req[r])

(* Every step keeps what the route has checked.                            *)
LEMMA NextEntitled == TypeOK /\ AllEntitled /\ [Next]_vars => AllEntitled'
<1> SUFFICES ASSUME TypeOK, AllEntitled, [Next]_vars, NEW r \in Requests, req'[r] # Idle
             PROVE  Entitled(req'[r])
  BY DEF AllEntitled
<1>1. ASSUME SameCommand(r) PROVE Entitled(req[r])
  BY <1>1 DEF SameCommand, Idle, AllEntitled
<1>2. CASE Kept(r) \/ Linked(r) \/ Inserted(r)
  BY <1>1, <1>2 DEF Kept, Linked, Inserted, SameCommand, Entitled
<1>3. CASE Began(r)
  BY <1>3 DEF Began, Entitled
<1>4. CASE Loaded(r)
  BY <1>1, <1>4 DEF Loaded, SameCommand, Finds, Entitled
<1> QED
  BY <1>2, <1>3, <1>4, NextMoves

(* At every moment requests are entitled.                                  *)
LEMMA AlwaysEntitled == Spec => []AllEntitled
<1>1. Init => AllEntitled
  BY DEF Init, AllEntitled
<1> QED
  BY <1>1, NextEntitled, TypeCorrect, PTL DEF Spec

(* Who can be writing when the directory changes.                          *)
LEMMA OneWriter ==
  ASSUME TypeOK, [Next]_vars, NEW r \in Requests, Writes(r), UNCHANGED directory => FALSE
  PROVE  Assign(r) \/ Revoke(r) \/ Replace(r) \/ SetStatus(r) \/ Delete(r)
<1>1. ASSUME NEW x \in Requests, Step(x) PROVE x = r
  BY <1>1, StepElsewhere DEF Writes
<1>2. ~Crash
  BY DEF Crash
<1>3. ~(UNCHANGED vars)
  BY DEF vars, directory
<1>4. ASSUME NEW x \in Requests, NEW a \in Users, NEW n \in Names, NEW c \in Commands,
             Begin(x, a, n, c)
      PROVE  FALSE
  BY <1>4 DEF Begin
<1>5. Step(r)
  BY <1>1, <1>2, <1>3, <1>4 DEF Next
<1> QED
  BY <1>5 DEF Step, NotFound, GuardLoad, GuardCount, Load, FindLink, FindNewLink, OutOfRowIds,
     Refresh, Audit

(* No administrator removes itself, whatever other requests do.            *)
LEMMA NoSelfStep ==
  TypeOK /\ AllEntitled /\ [Next]_vars => \A r \in Requests : ~RemovesSelf(r)
<1> SUFFICES ASSUME TypeOK, AllEntitled, [Next]_vars, NEW r \in Requests, RemovesSelf(r)
             PROVE  FALSE
  OBVIOUS
<1> DEFINE q == req[r]
<1>1. Writes(r) /\ status[q.actor] = "ACTIVE" /\ status'[q.actor] # "ACTIVE"
  BY DEF RemovesSelf
<1>2. q.pc = "write" /\ q \in Session /\ q.target # NoUser
  BY <1>1, Busy DEF Writes, InFlight, BeforeLoad
<1>3. Entitled(q) /\ q.actor \in Users
  BY <1>2 DEF AllEntitled, Idle, Session
<1>4. SetStatus(r) \/ Delete(r)
  BY <1>1, OneWriter DEF Assign, Revoke, Replace, directory
<1>5. q.cmd.op \in {"activate", "deactivate", "delete"}
  BY <1>4 DEF SetStatus, Delete, Writing
<1>6. q.target = q.actor
  BY <1>1, <1>3, <1>4 DEF SetStatus, Delete, TypeOK
<1>7. q.cmd.op # "activate"
  BY <1>1, <1>3, <1>4, <1>6 DEF SetStatus, Delete, NewStatus, Writing, TypeOK
<1> QED
  BY <1>2, <1>3, <1>5, <1>6, <1>7 DEF Entitled, NamesSelf

(* No request deactivates or deletes the account of the administrator who  *)
(* sent it (ensure_not_self), whatever else runs.                          *)
THEOREM NobodyRemovesThemselves == Spec => NoSelfRemoval
BY NoSelfStep, TypeCorrect, AlwaysEntitled, PTL DEF Spec, NoSelfRemoval

-----------------------------------------------------------------------------
(* Whose rows a session holds: those of the account it has looked up, and  *)
(* before that those of the administrator itself.                          *)

Owner(q) == IF q.target = NoUser THEN q.actor ELSE q.target

SeenOwned == \A r \in Requests : req[r] # Idle => \A s \in req[r].seen : s.user = Owner(req[r])

(* Every step leaves sessions with rows of the account they are about.     *)
LEMMA NextSeenOwned == TypeOK /\ SeenOwned /\ [Next]_vars => SeenOwned'
<1> SUFFICES ASSUME TypeOK, SeenOwned, [Next]_vars, NEW r \in Requests, req'[r] # Idle,
                    NEW s \in req'[r].seen
             PROVE  s.user = Owner(req'[r])
  BY DEF SeenOwned
<1>1. ASSUME SameCommand(r) PROVE req[r] \in InFlight /\ \A t \in req[r].seen : t.user = Owner(req[r])
  BY <1>1, Busy DEF SameCommand, Idle, SeenOwned
<1>2. CASE Kept(r) \/ Linked(r) \/ Inserted(r)
  BY <1>1, <1>2 DEF Kept, Linked, Inserted, SameCommand, Owner
<1>3. CASE Began(r)
  BY <1>3 DEF Began, Owner, LinksOf
<1>4. CASE Loaded(r)
  <2>1. req[r].target = NoUser
    BY <1>1, <1>4 DEF Loaded, InFlight, BeforeLoad
  <2>2. PICK u \in Users :
          /\ req'[r].target = u
          /\ req'[r].seen = IF u = req[r].actor THEN req[r].seen ELSE LinksOf(u)
    BY <1>4 DEF Loaded
  <2>3. Owner(req'[r]) = u
    BY <2>2, AccountAssumption DEF Owner
  <2>4. CASE u = req[r].actor
    BY <1>1, <1>4, <2>1, <2>2, <2>3, <2>4 DEF Loaded, Owner
  <2>5. CASE u # req[r].actor
    BY <2>2, <2>3, <2>5 DEF LinksOf
  <2> QED
    BY <2>4, <2>5
<1> QED
  BY <1>2, <1>3, <1>4, NextMoves

(* At every moment the rows a session has seen are of its account.         *)
LEMMA AlwaysSeenOwned == Spec => []SeenOwned
<1>1. Init => SeenOwned
  BY DEF Init, SeenOwned
<1> QED
  BY <1>1, NextSeenOwned, TypeCorrect, PTL DEF Spec

-----------------------------------------------------------------------------
(* Demo accounts: no session holds the id of one of their rows, except as  *)
(* a copy of that very row.                                                *)

DemoApart(q) ==
  \A l \in userRoles : l.user \in Demo =>
    l.id # q.row /\ \A s \in q.seen : s.id = l.id => s = l

AllDemoApart == \A r \in Requests : req[r] # Idle => DemoApart(req[r])

(* An entitled request has not loaded a demo account.                      *)
LEMMA TargetNotDemo ==
  ASSUME NEW q \in InFlight, Entitled(q), q.target # NoUser
  PROVE  q.target \notin Demo
BY DEF Entitled, Protected

DemoRowsKept ==
  /\ \A d \in Demo : status'[d] = status[d]
  /\ \A l \in userRoles : l.user \in Demo => l \in userRoles'
  /\ \A l \in userRoles' : l.user \in Demo => l \in userRoles

(* No step touches the status or the roles of a demo account.              *)
LEMMA DemoStep ==
  TypeOK /\ AllEntitled /\ SeenOwned /\ AllDemoApart /\ [Next]_vars => DemoRowsKept
<1> SUFFICES ASSUME TypeOK, AllEntitled, SeenOwned, AllDemoApart, [Next]_vars
             PROVE  DemoRowsKept
  OBVIOUS
<1>1. CASE UNCHANGED directory
  BY <1>1 DEF DemoRowsKept, directory
<1>2. ASSUME NEW r \in Requests, Assign(r) \/ Revoke(r) \/ Replace(r) \/ SetStatus(r) \/ Delete(r)
      PROVE  DemoRowsKept
  <2> DEFINE q == req[r]
  <2>1. q.pc = "write"
    BY <1>2 DEF Assign, Revoke, Replace, SetStatus, Delete, Writing
  <2>2. q \in InFlight /\ q # Idle /\ q.target # NoUser
    BY <2>1, Busy DEF Idle, InFlight, BeforeLoad
  <2>3. q.target \in Users /\ q.target \notin Demo
    BY <2>2, TargetNotDemo DEF AllEntitled, InFlight, Session
  <2>4. DemoApart(q) /\ \A s \in q.seen : s.user = q.target
    BY <2>2 DEF AllDemoApart, SeenOwned, Owner
  <2>5. CASE Assign(r)
    BY <2>3, <2>5 DEF Assign, DemoRowsKept
  <2>6. CASE Revoke(r)
    BY <2>4, <2>6 DEF Revoke, DemoApart, DemoRowsKept
  <2>7. CASE Replace(r)
    <3> DEFINE old == {l \in userRoles : l.id = q.row}
               rows == (userRoles \ old) \cup {[l EXCEPT !.role = q.cmd.newRole] : l \in old}
    <3>1. userRoles' = userRoles \/ userRoles' = rows
      BY <2>7 DEF Replace
    <3>2. \A l \in old : l.user \notin Demo
      BY <2>4 DEF DemoApart
    <3>3. \A l \in old : [l EXCEPT !.role = q.cmd.newRole].user = l.user
      BY DEF TypeOK, UserRole
    <3> QED
      BY <2>7, <3>1, <3>2, <3>3 DEF Replace, DemoRowsKept
  <2>8. CASE SetStatus(r)
    BY <2>3, <2>8, AccountAssumption DEF SetStatus, DemoRowsKept, TypeOK
  <2>9. CASE Delete(r)
    <3>1. \A d \in Demo : status'[d] = status[d]
      BY <2>3, <2>9, AccountAssumption DEF Delete, TypeOK
    <3>2. ASSUME NEW l \in userRoles, l.user \in Demo PROVE l \in userRoles'
      BY <2>3, <2>4, <2>9, <3>2 DEF Delete, DemoApart
    <3> QED
      BY <2>9, <3>1, <3>2 DEF Delete, DemoRowsKept
  <2> QED
    BY <1>2, <2>5, <2>6, <2>7, <2>8, <2>9
<1>3. CASE ~UNCHANGED directory
  <2>1. PICK r \in Requests : Step(r)
    BY <1>3 DEF Next, Begin, Crash, vars, directory
  <2> QED
    BY <1>2, <1>3, <2>1 DEF Step, NotFound, GuardLoad, GuardCount, Load, FindLink, FindNewLink,
       OutOfRowIds, Refresh, Audit
<1> QED
  BY <1>1, <1>3

(* Every step keeps sessions apart from the rows of demo accounts.         *)
LEMMA NextDemoApart ==
  /\ TypeOK /\ LinkIntegrity /\ LinkIntegrity' /\ AllEntitled /\ SeenOwned
  /\ AllDemoApart /\ [Next]_vars
  => AllDemoApart'
<1> SUFFICES ASSUME TypeOK, LinkIntegrity, LinkIntegrity', AllEntitled, SeenOwned, AllDemoApart,
                    [Next]_vars, NEW r \in Requests, req'[r] # Idle,
                    NEW l \in userRoles', l.user \in Demo
             PROVE  l.id # req'[r].row /\ \A s \in req'[r].seen : s.id = l.id => s = l
  BY DEF AllDemoApart, DemoApart
<1>1. l \in userRoles
  BY DemoStep DEF DemoRowsKept
<1>2. ASSUME SameCommand(r)
      PROVE  /\ l.id # req[r].row /\ \A s \in req[r].seen : s.id = l.id => s = l
             /\ req[r].target # NoUser => req[r].target \notin Demo
  <2>1. req[r] \in InFlight /\ req[r] # Idle
    BY <1>2, Busy DEF SameCommand, Idle
  <2> QED
    BY <1>1, <2>1, TargetNotDemo DEF AllDemoApart, DemoApart, AllEntitled
<1>3. \A m \in userRoles : m.id = l.id => m = l
  BY <1>1 DEF LinkIntegrity, Integrity
<1>4. CASE Kept(r)
  BY <1>2, <1>4 DEF Kept
<1>5. CASE Began(r)
  <2>1. l.id # 0
    BY <1>1 DEF TypeOK, UserRole, RowIds
  <2> QED
    BY <1>3, <1>5, <2>1 DEF Began, LinksOf
<1>6. CASE Loaded(r)
  BY <1>2, <1>3, <1>6 DEF Loaded, LinksOf
<1>7. CASE Linked(r)
  <2>1. PICK m \in userRoles : m.user = req[r].target /\ req'[r].row = m.id
    BY <1>7 DEF Linked
  <2>2. m.user \in Users
    BY DEF TypeOK, UserRole
  <2> QED
    BY <1>2, <1>3, <1>7, <2>1, <2>2, AccountAssumption DEF Linked
<1>8. CASE Inserted(r)
  <2>1. PICK m \in userRoles' : m.user = req[r].target /\ req'[r].row = m.id
    BY <1>8 DEF Inserted
  <2>2. m.user \in Users
    BY NextType DEF TypeOK, UserRole
  <2>3. m.id = l.id => m = l
    BY DEF LinkIntegrity, Integrity
  <2> QED
    BY <1>2, <1>8, <2>1, <2>2, <2>3, AccountAssumption DEF Inserted
<1> QED
  BY <1>4, <1>5, <1>6, <1>7, <1>8, NextMoves

(* At every moment sessions are apart from them.                           *)
LEMMA AlwaysDemoApart == Spec => []AllDemoApart
<1>1. Init => AllDemoApart
  BY DEF Init, AllDemoApart
<1> QED
  BY <1>1, NextDemoApart, TypeCorrect, LinksStaySound, AlwaysEntitled, AlwaysSeenOwned, PTL DEF Spec

(* Rows that stay as they were are rows untouched.                         *)
LEMMA NoDemoTouched == DemoRowsKept => \A d \in Demo : ~Touches(d)
BY DEF DemoRowsKept, Touches, LinksOf

(* The demo protection holds whatever the requests and the database do     *)
(* about row ids.                                                          *)
THEOREM DemoAccountsKept == Spec => DemoUntouched
BY DemoStep, NoDemoTouched, TypeCorrect, AlwaysEntitled, AlwaysSeenOwned, AlwaysDemoApart, PTL
   DEF Spec, DemoUntouched

-----------------------------------------------------------------------------
(* With a sequence behind user_roles.id, an id once given to a row of an   *)
(* account never names a row of another.                                   *)

IdsIssued ==
  /\ \A l \in userRoles : l.id <= lastRowId
  /\ \A r \in Requests : req[r] # Idle =>
       req[r].row <= lastRowId /\ \A s \in req[r].seen : s.id <= lastRowId

RowsKeepOwner ==
  /\ lastRowId <= lastRowId'
  /\ \A l \in userRoles' :
       \/ \E m \in userRoles : m.id = l.id /\ m.user = l.user
       \/ lastRowId < l.id /\ l.id <= lastRowId'

(* With a sequence no step gives an old id to a row of another account.    *)
LEMMA OwnerStep ==
  ASSUME ~ReuseRowIds, TypeOK, [Next]_vars
  PROVE  RowsKeepOwner
<1>1. lastRowId <= lastRowId
  BY DEF TypeOK, RowIds
<1>2. CASE UNCHANGED lastRowId /\ userRoles' \subseteq userRoles
  BY <1>1, <1>2 DEF RowsKeepOwner
<1>3. ASSUME NEW r \in Requests, Assign(r)
      PROVE  RowsKeepOwner
  <2>1. PICK i \in RowIds :
          /\ i = lastRowId + 1 /\ lastRowId' = i
          /\ \A l \in userRoles' : l \in userRoles \/ l.id = i
    BY <1>3 DEF Assign, NextRowId
  <2>2. lastRowId < i /\ i <= i
    BY <2>1 DEF TypeOK, RowIds
  <2> QED
    BY <2>1, <2>2 DEF RowsKeepOwner, TypeOK, RowIds
<1>4. ASSUME NEW r \in Requests, Replace(r)
      PROVE  RowsKeepOwner
  <2> DEFINE old == {l \in userRoles : l.id = req[r].row}
             new(l) == [l EXCEPT !.role = req[r].cmd.newRole]
             rows == (userRoles \ old) \cup {new(l) : l \in old}
  <2>1. UNCHANGED lastRowId /\ (userRoles' = userRoles \/ userRoles' = rows)
    BY <1>4 DEF Replace
  <2>2. \A l \in old : new(l).id = l.id /\ new(l).user = l.user
    BY DEF TypeOK, UserRole
  <2>3. \A l \in rows : \E m \in userRoles : m.id = l.id /\ m.user = l.user
    BY <2>2
  <2> QED
    BY <1>1, <2>1, <2>3 DEF RowsKeepOwner
<1>5. ASSUME NEW r \in Requests, Step(r), ~Assign(r), ~Replace(r)
      PROVE  UNCHANGED lastRowId /\ userRoles' \subseteq userRoles
  BY <1>5 DEF Step, NotFound, GuardLoad, GuardCount, Load, FindLink, FindNewLink, OutOfRowIds,
     Revoke, SetStatus, Delete, Refresh, Audit, directory
<1> QED
  BY <1>2, <1>3, <1>4, <1>5 DEF Next, Begin, Crash, vars, directory

(* Every id a session holds has been given out.                            *)
LEMMA NextIdsIssued ==
  ASSUME ~ReuseRowIds
  PROVE  TypeOK /\ IdsIssued /\ [Next]_vars => IdsIssued'
<1> SUFFICES ASSUME TypeOK, IdsIssued, [Next]_vars PROVE IdsIssued'
  OBVIOUS
<1>1. RowsKeepOwner /\ TypeOK'
  BY OwnerStep, NextType
<1>2. lastRowId \in Nat /\ lastRowId' \in Nat
  BY <1>1 DEF TypeOK, RowIds
<1>3. \A l \in userRoles : l.id \in Nat
  BY DEF TypeOK, UserRole, RowIds
<1>4. \A l \in userRoles' : l.id <= lastRowId'
  BY <1>1, <1>2, <1>3 DEF RowsKeepOwner, IdsIssued
<1>5. ASSUME NEW r \in Requests, req'[r] # Idle
      PROVE  req'[r].row <= lastRowId' /\ \A s \in req'[r].seen : s.id <= lastRowId'
  <2>1. ASSUME SameCommand(r)
        PROVE  req[r].row <= lastRowId' /\ \A s \in req[r].seen : s.id <= lastRowId'
    <3>1. req[r] \in Session /\ req[r] # Idle
      BY <2>1, Busy DEF SameCommand, InFlight, Idle
    <3>2. req[r].row \in Nat /\ \A s \in req[r].seen : s.id \in Nat
      BY <3>1 DEF Session, UserRole, RowIds
    <3> QED
      BY <1>1, <1>2, <3>1, <3>2 DEF RowsKeepOwner, IdsIssued
  <2>2. \A u \in Users : \A s \in LinksOf(u) : s.id <= lastRowId'
    BY <1>1, <1>2, <1>3 DEF RowsKeepOwner, IdsIssued, LinksOf
  <2>3. CASE Kept(r)
    BY <2>1, <2>3 DEF Kept
  <2>4. CASE Began(r)
    BY <1>2, <2>2, <2>4 DEF Began
  <2>5. CASE Loaded(r)
    BY <2>1, <2>2, <2>5 DEF Loaded
  <2>6. CASE Linked(r)
    BY <1>4, <2>1, <2>6 DEF Linked, directory
  <2>7. CASE Inserted(r)
    BY <1>4, <2>1, <2>7 DEF Inserted
  <2> QED
    BY <1>5, <2>3, <2>4, <2>5, <2>6, <2>7, NextMoves
<1> QED
  BY <1>4, <1>5 DEF IdsIssued

OwnRows(q) ==
  \A l \in userRoles :
    /\ l.id = q.row => l.user = q.target
    /\ \A s \in q.seen : s.id = l.id => s.user = l.user

AllOwnRows == \A r \in Requests : req[r] # Idle => OwnRows(req[r])

(* A row whose id a session holds is a row of its account or gone.         *)
LEMMA NextOwnRows ==
  ASSUME ~ReuseRowIds
  PROVE  /\ TypeOK /\ LinkIntegrity /\ LinkIntegrity' /\ IdsIssued /\ AllOwnRows /\ [Next]_vars
         => AllOwnRows'
<1> SUFFICES ASSUME TypeOK, LinkIntegrity, LinkIntegrity', IdsIssued, AllOwnRows, [Next]_vars,
                    NEW r \in Requests, req'[r] # Idle, NEW l \in userRoles'
             PROVE  /\ l.id = req'[r].row => l.user = req'[r].target
                    /\ \A s \in req'[r].seen : s.id = l.id => s.user = l.user
  BY DEF AllOwnRows, OwnRows
<1>1. RowsKeepOwner /\ TypeOK'
  BY OwnerStep, NextType
<1>2. lastRowId \in Nat /\ l.id \in Nat /\ l.id # 0 /\ l.user \in Users
  BY <1>1 DEF TypeOK, UserRole, RowIds
<1>3. ASSUME SameCommand(r)
      PROVE  /\ l.id = req[r].row => l.user = req[r].target
             /\ \A s \in req[r].seen : s.id = l.id => s.user = l.user
  <2>1. req[r] \in Session /\ req[r] # Idle
    BY <1>3, Busy DEF SameCommand, InFlight, Idle
  <2>2. req[r].row \in Nat /\ \A s \in req[r].seen : s.id \in Nat
    BY <2>1 DEF Session, UserRole, RowIds
  <2>3. CASE \E m \in userRoles : m.id = l.id /\ m.user = l.user
    BY <2>1, <2>3 DEF AllOwnRows, OwnRows
  <2>4. CASE lastRowId < l.id
    BY <1>2, <2>1, <2>2, <2>4 DEF IdsIssued
  <2> QED
    BY <1>1, <2>3, <2>4 DEF RowsKeepOwner
<1>4. \A m \in userRoles' : m.id = l.id => m = l
  BY DEF LinkIntegrity, Integrity
<1>5. CASE Kept(r)
  BY <1>3, <1>5 DEF Kept
<1>6. CASE Began(r)
  BY <1>2, <1>4, <1>6 DEF Began, LinksOf, directory
<1>7. CASE Loaded(r)
  <2>1. req[r].target = NoUser
    BY <1>7, Busy DEF Loaded, SameCommand, InFlight, BeforeLoad
  <2>2. l.id # req[r].row
    BY <1>2, <1>3, <1>7, <2>1, AccountAssumption DEF Loaded
  <2> QED
    BY <1>3, <1>4, <1>7, <2>2 DEF Loaded, LinksOf, directory
<1>8. CASE Linked(r)
  BY <1>3, <1>4, <1>8 DEF Linked, directory
<1>9. CASE Inserted(r)
  BY <1>3, <1>4, <1>9 DEF Inserted
<1> QED
  BY <1>5, <1>6, <1>7, <1>8, <1>9, NextMoves

(* A write touches no account but the one the session has loaded.          *)
LEMMA NoOtherTouched ==
  /\ TypeOK /\ AllEntitled /\ SeenOwned /\ AllOwnRows /\ [Next]_vars
  => \A r \in Requests : ~TouchesAnother(r)
<1> SUFFICES ASSUME TypeOK, AllEntitled, SeenOwned, AllOwnRows, [Next]_vars,
                    NEW r \in Requests, Writes(r), NEW u \in Users, Touches(u)
             PROVE  req[r].name \in {IdOf[u], UidOf[u]}
  BY DEF TouchesAnother
<1> DEFINE q == req[r]
<1>1. Assign(r) \/ Revoke(r) \/ Replace(r) \/ SetStatus(r) \/ Delete(r)
  BY OneWriter DEF Touches, LinksOf, directory
<1>2. q \in InFlight /\ q # Idle /\ q.target # NoUser
  BY Busy DEF Writes, InFlight, BeforeLoad, Idle
<1>3. Entitled(q) /\ OwnRows(q) /\ \A s \in q.seen : s.user = q.target
  BY <1>2 DEF AllEntitled, AllOwnRows, SeenOwned, Owner
<1> SUFFICES u = q.target
  BY <1>2, <1>3 DEF Entitled
<1>4. CASE Assign(r)
  BY <1>4 DEF Assign, Touches, LinksOf
<1>5. CASE Revoke(r)
  BY <1>3, <1>5 DEF Revoke, Touches, LinksOf, OwnRows
<1>6. CASE Replace(r)
  <2> DEFINE old == {l \in userRoles : l.id = q.row}
             rows == (userRoles \ old) \cup {[l EXCEPT !.role = q.cmd.newRole] : l \in old}
  <2>1. userRoles' = userRoles \/ userRoles' = rows
    BY <1>6 DEF Replace
  <2>2. \A l \in old : l.user = q.target /\ [l EXCEPT !.role = q.cmd.newRole].user = q.target
    BY <1>3 DEF OwnRows, TypeOK, UserRole
  <2> QED
    BY <1>6, <2>1, <2>2 DEF Replace, Touches, LinksOf
<1>7. CASE SetStatus(r)
  BY <1>7 DEF SetStatus, Touches, LinksOf, TypeOK
<1>8. CASE Delete(r)
  <2>1. u # q.target => status'[u] = status[u]
    BY <1>8 DEF Delete, TypeOK
  <2>2. \A l \in userRoles : l.user # q.target => l \in userRoles'
    BY <1>3, <1>8 DEF Delete, OwnRows
  <2>3. userRoles' \subseteq userRoles
    BY <1>8 DEF Delete
  <2> QED
    BY <2>1, <2>2, <2>3 DEF Touches, LinksOf
<1> QED
  BY <1>1, <1>4, <1>5, <1>6, <1>7, <1>8

(* On PostgreSQL every write stays on the account the request names.       *)
THEOREM WritesStayOnAccount ==
  ASSUME ~ReuseRowIds
  PROVE  Spec => OnlyNamedAccount
<1>1. Init => IdsIssued /\ AllOwnRows
  BY DEF Init, IdsIssued, AllOwnRows
<1>2. TypeOK /\ IdsIssued /\ [Next]_vars => IdsIssued'
  BY NextIdsIssued
<1>3. TypeOK /\ LinkIntegrity /\ LinkIntegrity' /\ IdsIssued /\ AllOwnRows /\ [Next]_vars => AllOwnRows'
  BY NextOwnRows
<1> QED
  BY <1>1, <1>2, <1>3, NoOtherTouched, TypeCorrect, LinksStaySound, AlwaysEntitled,
     AlwaysSeenOwned, PTL DEF Spec, OnlyNamedAccount

-----------------------------------------------------------------------------
(* The guard, while the check and the write of a removal are not mixed     *)
(* with another's: what it saw is still so at the write.                   *)

Checked == {"load", "link", "newlink", "write"}

Spared(u) == \E v \in Users : v # u /\ IsActiveAdmin(v)

(* Between a check and the write that rests on it.                         *)
Deciding(q) ==
  \/ q.pc \in Checked /\ Guarded(q.cmd)
  \/ q.pc \in {"newlink", "write"} /\ q.cmd.op \in {"revoke", "replace"}

(* What a lock from the check to the commit would bring about: requests    *)
(* that take something away are not there together.  Everything else may   *)
(* overlap, their lookups and what follows the commit included.            *)
ChecksApart == \A r, s \in Requests : Deciding(req[r]) /\ Deciding(req[s]) => r = s

Held(q) ==
  /\ q.pc \in Checked /\ Guarded(q.cmd) =>
       /\ \A u \in Users : Finds(q.name, u) => Spared(u)
       /\ q.target # NoUser => Finds(q.name, q.target)
       /\ q.target # NoUser /\ q.cmd.op = "delete" => q.seen \subseteq userRoles
  /\ q.pc \in {"newlink", "write"} /\ q.cmd.op \in {"revoke", "replace"} =>
       \E l \in userRoles : l.id = q.row /\ l.user = q.target /\ l.role = q.cmd.role

AllHeld == \A r \in Requests : Held(req[r])

(* What assigning and activating do to the directory.                      *)
Growing ==
  /\ userRoles \subseteq userRoles'
  /\ \A u \in Users : /\ Exists(u)' <=> Exists(u)
                      /\ status[u] = "ACTIVE" => status'[u] = "ACTIVE"

(* A path parameter finds one account at most.                             *)
LEMMA FindsOne ==
  ASSUME NEW n, NEW u \in Users, NEW v \in Users, Finds(n, u), Finds(n, v)
  PROVE  u = v
BY AccountAssumption DEF Finds

(* A directory that grows keeps its administrators and what names find.    *)
LEMMA GrowingKeeps ==
  ASSUME Growing
  PROVE  /\ \A n : \A u \in Users : Finds(n, u)' <=> Finds(n, u)
         /\ \A u \in Users : IsActiveAdmin(u) => IsActiveAdmin(u)'
         /\ \A u \in Users : Spared(u) => Spared(u)'
<1>1. \A u \in Users : IsActiveAdmin(u) => IsActiveAdmin(u)'
  BY DEF Growing, IsActiveAdmin, HoldsAdmin, LinksOf
<1>2. \A n : \A u \in Users : Finds(n, u)' <=> Finds(n, u)
  BY DEF Growing, Finds
<1> QED
  BY <1>1, <1>2 DEF Spared

(* A step that writes nothing is a special case.                           *)
LEMMA SameGrows ==
  ASSUME UNCHANGED directory
  PROVE  Growing
BY DEF directory, Growing, Exists

(* A step of a request that is not about to take anything away.            *)
LEMMA StepGrows ==
  ASSUME TypeOK, NEW r \in Requests, Step(r), ~Deciding(req[r])
  PROVE  Growing
<1> DEFINE q == req[r]
<1>1. CASE Assign(r)
  BY <1>1 DEF Assign, Growing, Exists
<1>2. CASE SetStatus(r)
  <2>1. q.pc = "write" /\ q.cmd.op \in {"activate", "deactivate"} /\ userRoles' = userRoles
    BY <1>2 DEF SetStatus, Writing
  <2>2. q.cmd.op = "activate"
    BY <2>1 DEF Deciding, Checked, Guarded
  <2>3. CASE Exists(q.target)
    <3>1. status' = [status EXCEPT ![q.target] = IF q.was = NewStatus(q) THEN @ ELSE NewStatus(q)]
      BY <1>2, <2>3 DEF SetStatus
    <3>2. NewStatus(q) = "ACTIVE"
      BY <2>2 DEF NewStatus
    <3>3. \A u \in Users : status'[u] = status[u] \/ (u = q.target /\ status'[u] = "ACTIVE")
      BY <3>1, <3>2 DEF TypeOK
    <3> QED
      BY <2>1, <2>3, <3>3 DEF Growing, Exists
  <2>4. CASE ~Exists(q.target)
    BY <1>2, <2>1, <2>4 DEF SetStatus, Growing, Exists
  <2> QED
    BY <2>3, <2>4
<1>3. CASE Revoke(r) \/ Replace(r) \/ Delete(r)
  BY <1>3 DEF Revoke, Replace, Delete, Writing, Deciding, Checked, Guarded
<1>4. CASE UNCHANGED directory
  BY <1>4, SameGrows
<1> QED
  BY <1>1, <1>2, <1>3, <1>4 DEF Step, NotFound, GuardLoad, GuardCount, Load, FindLink, FindNewLink,
     OutOfRowIds, Refresh, Audit

(* What a busy request relies on as it moves on.                           *)
LEMMA StepHeld ==
  ASSUME TypeOK, LinkIntegrity, AllEntitled, AllHeld, AdminRemains, NEW r \in Requests, Step(r)
  PROVE  Held(req[r])'
<1> DEFINE q == req[r]
<1>1. q.pc # "idle"
  BY DEF Step, NotFound, GuardLoad, GuardCount, Load, FindLink, FindNewLink, Assign, OutOfRowIds,
     Revoke, Replace, SetStatus, Delete, Refresh, Audit, Writing
<1>2. q \in Session /\ (q.target = NoUser <=> q.pc \in BeforeLoad) /\ Held(q) /\ Entitled(q)
  BY <1>1, Busy DEF InFlight, AllHeld, AllEntitled, Idle
<1>3. ASSUME Finish(r) PROVE Held(req[r])'
  <2>1. req'[r] = Idle
    BY <1>3 DEF Finish, TypeOK
  <2> QED
    BY <2>1 DEF Held, Idle, Checked
<1>4. ASSUME NEW p, Goto(r, p)
      PROVE  /\ req'[r].pc = p /\ req'[r].name = q.name /\ req'[r].cmd = q.cmd
             /\ req'[r].target = q.target /\ req'[r].seen = q.seen /\ req'[r].row = q.row
  <2>1. req'[r] = [q EXCEPT !.pc = p]
    BY <1>4 DEF Goto, TypeOK
  <2> QED
    BY <1>2, <2>1 DEF Session
<1>5. ASSUME NEW p \in {"refresh", "audit"}, Goto(r, p) PROVE Held(req[r])'
  BY <1>4, <1>5 DEF Held, Checked
<1>6. ASSUME UNCHANGED directory
      PROVE  /\ userRoles' = userRoles
             /\ \A n : \A u \in Users : Finds(n, u)' <=> Finds(n, u)
             /\ \A u \in Users : Spared(u) => Spared(u)'
  BY <1>6, SameGrows, GrowingKeeps DEF directory
<1>7. CASE NotFound(r)
  BY <1>3, <1>7 DEF NotFound
<1>8. CASE GuardLoad(r)
  <2>1. PICK u \in Users :
          /\ Finds(q.name, u)
          /\ Goto(r, IF u = q.actor \/ IsActiveAdmin(u) THEN "count" ELSE "load")
    BY <1>8 DEF GuardLoad
  <2>2. UNCHANGED directory /\ q.target = NoUser
    BY <1>2, <1>8 DEF GuardLoad, BeforeLoad
  <2>3. CASE Goto(r, "count")
    BY <1>4, <2>3 DEF Held, Checked
  <2>4. CASE Goto(r, "load") /\ ~IsActiveAdmin(u)
    <3>1. Spared(u)
      BY <2>4 DEF AdminRemains, ActiveAdmins, Spared
    <3>2. \A v \in Users : Finds(q.name, v) => Spared(v)
      BY <2>1, <3>1, FindsOne
    <3> QED
      BY <1>4, <1>6, <2>2, <2>4, <3>2 DEF Held
  <2> QED
    BY <2>1, <2>3, <2>4
<1>9. CASE GuardCount(r)
  <2>1. UNCHANGED directory /\ q.target = NoUser
    BY <1>2, <1>9 DEF GuardCount, BeforeLoad
  <2>2. CASE Goto(r, "load") /\ ~AtMostOne(ActiveAdmins)
    <3>1. \A v \in Users : Spared(v)
      BY <2>2 DEF Spared, AtMostOne, ActiveAdmins
    <3> QED
      BY <1>4, <1>6, <2>1, <2>2, <3>1 DEF Held
  <2> QED
    BY <1>3, <1>9, <2>2 DEF GuardCount
<1>10. CASE Load(r)
  <2>1. PICK u \in Users :
          /\ Finds(q.name, u)
          /\ req' = [req EXCEPT ![r] =
               [q EXCEPT !.target = u,
                         !.pc = IF q.cmd.op \in RoleOps THEN "link" ELSE "write",
                         !.was = IF u = q.actor THEN q.was ELSE status[u],
                         !.seen = IF u = q.actor THEN q.seen ELSE LinksOf(u)]]
    BY <1>10 DEF Load
  <2>2. req'[r] = [q EXCEPT !.target = u,
                         !.pc = IF q.cmd.op \in RoleOps THEN "link" ELSE "write",
                         !.was = IF u = q.actor THEN q.was ELSE status[u],
                         !.seen = IF u = q.actor THEN q.seen ELSE LinksOf(u)]
    BY <2>1 DEF TypeOK
  <2>3. /\ req'[r].name = q.name /\ req'[r].cmd = q.cmd /\ req'[r].target = u
        /\ req'[r].seen = IF u = q.actor THEN q.seen ELSE LinksOf(u)
        /\ req'[r].pc = IF q.cmd.op \in RoleOps THEN "link" ELSE "write"
    BY <1>2, <2>2 DEF Session
  <2>4. UNCHANGED directory /\ q.pc = "load"
    BY <1>10 DEF Load
  <2>5. q.cmd.op = "delete" => req'[r].seen \subseteq userRoles
    BY <1>2, <2>1, <2>3 DEF Entitled, NamesSelf, Finds, LinksOf
  <2>6. Guarded(q.cmd) => \A v \in Users : Finds(q.name, v) => Spared(v)
    BY <1>2, <2>4 DEF Held, Checked
  <2>7. /\ req'[r].pc = "write" => req'[r].cmd.op \notin {"revoke", "replace"}
        /\ req'[r].pc # "newlink"
    BY <2>3 DEF RoleOps
  <2> QED
    BY <1>6, <2>1, <2>3, <2>4, <2>5, <2>6, <2>7 DEF Held
<1>11. CASE FindLink(r)
  <2>1. UNCHANGED directory /\ q.pc = "link" /\ q.pc \in Checked
    BY <1>11 DEF FindLink, Checked
  <2>2. CASE Goto(r, "write") /\ q.cmd.op = "assign"
    BY <1>4, <2>2 DEF Held, Guarded
  <2>3. ASSUME NEW l \in userRoles, l.user = q.target, l.role = q.cmd.role,
               req' = [req EXCEPT ![r] =
                 [q EXCEPT !.row = l.id, !.pc = IF q.cmd.op = "replace" THEN "newlink" ELSE "write"]]
        PROVE  Held(req[r])'
    <3>1. req'[r] = [q EXCEPT !.row = l.id, !.pc = IF q.cmd.op = "replace" THEN "newlink" ELSE "write"]
      BY <2>3 DEF TypeOK
    <3>2. /\ req'[r].name = q.name /\ req'[r].cmd = q.cmd
          /\ req'[r].target = q.target /\ req'[r].seen = q.seen /\ req'[r].row = l.id
      BY <1>2, <3>1 DEF Session
    <3> QED
      BY <1>2, <1>6, <2>1, <2>3, <3>2 DEF Held, Session
  <2> QED
    BY <1>3, <1>11, <2>2, <2>3 DEF FindLink
<1>12. CASE FindNewLink(r)
  <2>1. UNCHANGED directory /\ q.pc = "newlink" /\ q.pc \in Checked
    BY <1>12 DEF FindNewLink, Checked
  <2>2. CASE Goto(r, "write")
    BY <1>2, <1>4, <1>6, <2>1, <2>2 DEF Held, Session
  <2> QED
    BY <1>3, <1>12, <2>2 DEF FindNewLink
<1>13. CASE Assign(r)
  <2>1. CASE Finish(r)
    BY <1>3, <2>1
  <2>2. ASSUME NEW i \in RowIds, req' = [req EXCEPT ![r] = [q EXCEPT !.row = i, !.pc = "refresh"]]
        PROVE  Held(req[r])'
    <3>1. req'[r].pc = "refresh"
      BY <1>2, <2>2 DEF TypeOK, Session
    <3> QED
      BY <3>1 DEF Held, Checked
  <2> QED
    BY <1>13, <2>1, <2>2 DEF Assign
<1>14. CASE OutOfRowIds(r) \/ Revoke(r) \/ Replace(r) \/ SetStatus(r) \/ Delete(r) \/ Refresh(r) \/ Audit(r)
  BY <1>3, <1>5, <1>14 DEF OutOfRowIds, Revoke, Replace, SetStatus, Delete, Refresh, Audit
<1> QED
  BY <1>7, <1>8, <1>9, <1>10, <1>11, <1>12, <1>13, <1>14 DEF Step

(* What a request relies on is not disturbed while the directory grows.    *)
LEMMA GrowingHeld ==
  ASSUME TypeOK, Growing, NEW r \in Requests, req'[r] = req[r], Held(req[r])
  PROVE  Held(req[r])'
<1>1. req[r].target \in Users \/ req[r].target = NoUser \/ req[r].pc = "idle"
  BY Busy DEF InFlight, Session
<1> QED
  BY <1>1, GrowingKeeps DEF Held, Growing, Checked

(* No step disturbs what another request relies on.                        *)
LEMMA NextHeld ==
  /\ TypeOK /\ LinkIntegrity /\ AllEntitled /\ AllHeld /\ AdminRemains /\ ChecksApart /\ [Next]_vars
  => AllHeld'
<1> SUFFICES ASSUME TypeOK, LinkIntegrity, AllEntitled, AllHeld, AdminRemains, ChecksApart,
                    [Next]_vars, NEW r \in Requests
             PROVE  Held(req[r])'
  BY DEF AllHeld
<1>1. Held(req[r])
  BY DEF AllHeld
<1>2. ASSUME NEW x \in Requests, Step(x), x # r PROVE Held(req[r])'
  <2>1. req'[r] = req[r]
    BY <1>2, StepElsewhere
  <2>2. CASE Deciding(req[r])
    BY <1>1, <1>2, <2>1, <2>2, StepGrows, GrowingHeld DEF ChecksApart
  <2>3. CASE ~Deciding(req[r])
    BY <2>1, <2>3 DEF Deciding, Held
  <2> QED
    BY <2>2, <2>3
<1>3. ASSUME NEW x \in Requests, NEW a \in Users, NEW n \in Names, NEW c \in Commands,
             Begin(x, a, n, c)
      PROVE  Held(req[r])'
  <2>1. CASE x = r
    <3> DEFINE q == [pc |-> IF Guarded(c) THEN "guard" ELSE "load", actor |-> a, name |-> n,
                     cmd |-> c, target |-> NoUser, was |-> "ACTIVE", seen |-> LinksOf(a), row |-> 0]
    <3>1. req'[r] = q
      BY <1>3, <2>1 DEF Begin, TypeOK
    <3>2. req'[r].cmd = c /\ req'[r].pc = IF Guarded(c) THEN "guard" ELSE "load"
      BY <3>1
    <3> QED
      BY <3>2 DEF Held, Checked
  <2>2. CASE x # r
    <3>1. req'[r] = req[r] /\ UNCHANGED directory
      BY <1>3, <2>2 DEF Begin, TypeOK
    <3> QED
      BY <1>1, <3>1, SameGrows, GrowingHeld
  <2> QED
    BY <2>1, <2>2
<1>4. CASE Crash
  <2>1. req'[r] = Idle
    BY <1>4 DEF Crash
  <2> QED
    BY <2>1 DEF Held, Idle, Checked
<1>5. CASE UNCHANGED vars
  <2>1. UNCHANGED directory /\ req' = req
    BY <1>5 DEF vars, directory
  <2> QED
    BY <1>1, <2>1, SameGrows, GrowingHeld
<1> QED
  BY <1>2, <1>3, <1>4, <1>5, StepHeld DEF Next

(* Accounts whose status and ADMIN row a step leaves alone.                *)
LEMMA StillAdmin ==
  ASSUME NEW v \in Users, IsActiveAdmin(v), status'[v] = status[v],
         \A l \in userRoles : l.user = v /\ l.role = Admin =>
           \E m \in userRoles' : m.user = v /\ m.role = Admin
  PROVE  IsActiveAdmin(v)'
BY DEF IsActiveAdmin, HoldsAdmin, LinksOf

(* A step of a request that relies on true facts leaves an administrator.  *)
LEMMA StepAdminRemains ==
  ASSUME TypeOK, LinkIntegrity, AllHeld, SeenOwned, AdminRemains, NEW r \in Requests, Step(r)
  PROVE  AdminRemains'
<1> DEFINE q == req[r]
<1> SUFFICES \E v \in Users : IsActiveAdmin(v)'
  BY DEF AdminRemains, ActiveAdmins
<1>1. PICK b \in Users : IsActiveAdmin(b)
  BY DEF AdminRemains, ActiveAdmins
<1>2. CASE UNCHANGED directory
  BY <1>1, <1>2, StillAdmin DEF directory
<1>3. ASSUME q.pc = "write"
      PROVE  /\ q \in Session /\ q.target \in Users
             /\ Guarded(q.cmd) => \E v \in Users : v # q.target /\ IsActiveAdmin(v)
             /\ q.cmd.op = "delete" => \A s \in q.seen : s \in userRoles /\ s.user = q.target
             /\ q.cmd.op \in {"revoke", "replace"} =>
                  \A l \in userRoles : l.id = q.row => l.user = q.target /\ l.role = q.cmd.role
  <2>1. q \in InFlight /\ q # Idle /\ Held(q) /\ q.pc \in Checked
    BY <1>3, Busy DEF Idle, AllHeld, Checked
  <2>2. q \in Session /\ q.target \in Users /\ q.target # NoUser
    BY <1>3, <2>1 DEF InFlight, Session, BeforeLoad
  <2>3. Guarded(q.cmd) => \E v \in Users : v # q.target /\ IsActiveAdmin(v)
    BY <2>1, <2>2 DEF Held, Spared
  <2>4. q.cmd.op = "delete" => q.seen \subseteq userRoles
    BY <2>1, <2>2 DEF Held, Guarded
  <2>5. \A s \in q.seen : s.user = q.target
    BY <2>1, <2>2 DEF SeenOwned, Owner
  <2>6. ASSUME q.cmd.op \in {"revoke", "replace"}, NEW l \in userRoles, l.id = q.row
        PROVE  l.user = q.target /\ l.role = q.cmd.role
    BY <1>3, <2>1, <2>6 DEF Held, LinkIntegrity, Integrity
  <2> QED
    BY <2>2, <2>3, <2>4, <2>5, <2>6
<1>4. CASE Assign(r)
  <2>1. userRoles \subseteq userRoles' /\ status' = status
    BY <1>4 DEF Assign
  <2> QED
    BY <1>1, <2>1, StillAdmin
<1>5. CASE Revoke(r)
  <2>1. /\ q.pc = "write" /\ q.cmd.op = "revoke" /\ status' = status
        /\ \A l \in userRoles : l.id # q.row => l \in userRoles'
    BY <1>5 DEF Revoke, Writing
  <2>2. CASE q.cmd.role = Admin
    <3>1. PICK v \in Users : v # q.target /\ IsActiveAdmin(v)
      BY <1>3, <2>1, <2>2 DEF Guarded
    <3>2. \A l \in userRoles : l.user = v => l \in userRoles'
      BY <1>3, <2>1, <3>1
    <3> QED
      BY <2>1, <3>1, <3>2, StillAdmin
  <2>3. CASE q.cmd.role # Admin
    <3>1. \A l \in userRoles : l.role = Admin => l \in userRoles'
      BY <1>3, <2>1, <2>3
    <3> QED
      BY <1>1, <2>1, <3>1, StillAdmin
  <2> QED
    BY <2>2, <2>3
<1>6. CASE Replace(r)
  <2> DEFINE old == {l \in userRoles : l.id = q.row}
             new(l) == [l EXCEPT !.role = q.cmd.newRole]
             rows == (userRoles \ old) \cup {new(l) : l \in old}
  <2>1. /\ q.pc = "write" /\ q.cmd.op = "replace" /\ status' = status
        /\ userRoles' = userRoles \/ userRoles' = rows
    BY <1>6 DEF Replace, Writing
  <2>2. CASE userRoles' = userRoles
    BY <1>1, <2>1, <2>2, StillAdmin
  <2>3. CASE userRoles' = rows /\ Guarded(q.cmd)
    <3>1. PICK v \in Users : v # q.target /\ IsActiveAdmin(v)
      BY <1>3, <2>1, <2>3
    <3>2. \A l \in userRoles : l.user = v => l \in userRoles'
      BY <1>3, <2>1, <2>3, <3>1
    <3> QED
      BY <2>1, <3>1, <3>2, StillAdmin
  <2>4. CASE userRoles' = rows /\ q.cmd.role # Admin
    <3>1. \A l \in userRoles : l.role = Admin => l \in userRoles'
      BY <1>3, <2>1, <2>4
    <3> QED
      BY <1>1, <2>1, <3>1, StillAdmin
  <2>5. CASE userRoles' = rows /\ q.cmd.newRole = Admin
    <3>1. \A l \in old : new(l).user = l.user /\ new(l).role = Admin
      BY <2>5 DEF TypeOK, UserRole
    <3>2. ASSUME NEW l \in userRoles, l.role = Admin
          PROVE  \E m \in userRoles' : m.user = l.user /\ m.role = Admin
      <4>1. CASE l \in old
        BY <2>5, <3>1, <4>1
      <4>2. CASE l \notin old
        BY <2>5, <3>2, <4>2
      <4> QED
        BY <4>1, <4>2
    <3>3. \A l \in userRoles : l.user = b /\ l.role = Admin =>
            \E m \in userRoles' : m.user = b /\ m.role = Admin
      BY <3>2
    <3> QED
      BY <1>1, <2>1, <3>3, StillAdmin
  <2> QED
    BY <2>1, <2>2, <2>3, <2>4, <2>5 DEF Guarded
<1>7. CASE SetStatus(r)
  <2>1. /\ q.pc = "write" /\ q.cmd.op \in {"activate", "deactivate"} /\ userRoles' = userRoles
        /\ \A u \in Users : u # q.target => status'[u] = status[u]
    BY <1>7 DEF SetStatus, Writing, TypeOK
  <2>2. CASE q.cmd.op = "deactivate"
    <3>1. PICK v \in Users : v # q.target /\ IsActiveAdmin(v)
      BY <1>3, <2>1, <2>2 DEF Guarded
    <3> QED
      BY <2>1, <3>1, StillAdmin
  <2>3. CASE q.cmd.op = "activate"
    <3>1. status'[b] = status[b]
      BY <1>1, <1>3, <1>7, <2>1, <2>3 DEF SetStatus, NewStatus, IsActiveAdmin, TypeOK
    <3> QED
      BY <1>1, <2>1, <3>1, StillAdmin
  <2> QED
    BY <2>1, <2>2, <2>3
<1>8. CASE Delete(r)
  <2>1. /\ q.pc = "write" /\ q.cmd.op = "delete"
        /\ userRoles' = {l \in userRoles : l.user # q.target /\ \A s \in q.seen : s.id # l.id}
        /\ \A u \in Users : u # q.target => status'[u] = status[u]
    BY <1>8 DEF Delete, Writing, TypeOK
  <2>2. PICK v \in Users : v # q.target /\ IsActiveAdmin(v)
    BY <1>3, <2>1 DEF Guarded
  <2>3. \A l \in userRoles, s \in q.seen : s.id = l.id => l.user = q.target
    BY <1>3, <2>1 DEF LinkIntegrity, Integrity
  <2>4. \A l \in userRoles : l.user = v => l \in userRoles'
    BY <2>1, <2>2, <2>3
  <2> QED
    BY <2>1, <2>2, <2>4, StillAdmin
<1>9. CASE ~(Assign(r) \/ Revoke(r) \/ Replace(r) \/ SetStatus(r) \/ Delete(r))
  BY <1>2, <1>9 DEF Step, NotFound, GuardLoad, GuardCount, Load, FindLink, FindNewLink,
     OutOfRowIds, Refresh, Audit
<1> QED
  BY <1>4, <1>5, <1>6, <1>7, <1>8, <1>9

(* Every step leaves an administrator.                                     *)
LEMMA NextAdminRemains ==
  /\ TypeOK /\ LinkIntegrity /\ AllHeld /\ SeenOwned /\ AdminRemains /\ [Next]_vars
  => AdminRemains'
<1> SUFFICES ASSUME TypeOK, LinkIntegrity, AllHeld, SeenOwned, AdminRemains, [Next]_vars
             PROVE  AdminRemains'
  OBVIOUS
<1>1. CASE UNCHANGED directory
  BY <1>1 DEF AdminRemains, ActiveAdmins, IsActiveAdmin, HoldsAdmin, LinksOf, directory
<1>2. CASE ~UNCHANGED directory
  BY <1>2, StepAdminRemains DEF Next, Begin, Crash, vars, directory
<1> QED
  BY <1>1, <1>2

(* What holds of the first state.                                          *)
LEMMA InitAdmin == Init => AdminRemains /\ AllHeld
<1> SUFFICES ASSUME Init PROVE AdminRemains /\ AllHeld
  OBVIOUS
<1>1. PICK l \in StartLinks : l.role = Admin /\ StartStatus[l.user] = "ACTIVE"
  BY StartAssumption
<1>2. l.user \in Users
  BY StartAssumption DEF UserRole
<1>3. AdminRemains
  BY <1>1, <1>2 DEF Init, AdminRemains, ActiveAdmins, IsActiveAdmin, HoldsAdmin, LinksOf
<1>4. AllHeld
  BY DEF Init, AllHeld, Held, Idle, Checked
<1> QED
  BY <1>3, <1>4

(* As long as removals do not decide together, what they rely on is true.  *)
LEMMA AlwaysHeld == Spec /\ []ChecksApart => [](AllHeld /\ AdminRemains)
<1>1. /\ TypeOK /\ LinkIntegrity /\ AllEntitled /\ SeenOwned /\ ChecksApart
      /\ AllHeld /\ AdminRemains /\ [Next]_vars
      => (AllHeld /\ AdminRemains)'
  BY NextHeld, NextAdminRemains
<1> QED
  BY <1>1, InitAdmin, TypeCorrect, LinksStaySound, AlwaysEntitled, AlwaysSeenOwned, PTL DEF Spec

(* However many requests overlap, and across crashes, the platform keeps   *)
(* an active administrator as long as the check and the write of one       *)
(* removal are not mixed with those of another.                            *)
THEOREM AdminAlwaysRemains == Spec /\ []ChecksApart => []AdminRemains
BY AlwaysHeld, PTL


-----------------------------------------------------------------------------
(* A removal that nothing overlaps: the administrator stays in charge      *)
(* until the write, and the copies agree with the tables.                  *)

Working(q) == q.pc \in BeforeLoad \cup Checked

Removing(q) == Working(q) /\ q.cmd.op \notin {"assign", "activate"}

(* What one lock for all removals would bring about, held from the first   *)
(* statement to the commit, and shared by those who assign and activate.   *)
RemovalsAlone == \A r, s \in Requests : Removing(req[r]) /\ Working(req[s]) => r = s

Grounded(q) ==
  Working(q) =>
    /\ IsActiveAdmin(q.actor)
    /\ q.seen \subseteq userRoles
    /\ q.target = NoUser => q.was = "ACTIVE"
    /\ q.target # NoUser =>
         /\ Finds(q.name, q.target)
         /\ q.was = "ACTIVE" => status[q.target] = "ACTIVE"
         /\ Removing(q) => q.was = status[q.target]

AllGrounded == \A r \in Requests : Grounded(req[r])

(* To decide is to be removing.                                            *)
LEMMA AloneIsApart == TypeOK /\ RemovalsAlone => ChecksApart
<1>1. ASSUME NEW r \in Requests, Deciding(req[r]) PROVE Removing(req[r]) /\ Working(req[r])
  BY <1>1 DEF Deciding, Removing, Working, Checked, Guarded
<1> QED
  BY <1>1 DEF RemovalsAlone, ChecksApart

(* A step past the write, or to the end, promises nothing more.            *)
LEMMA EndGrounded ==
  ASSUME TypeOK, NEW r \in Requests, req[r].pc # "idle",
         Finish(r) \/ Goto(r, "refresh") \/ Goto(r, "audit")
  PROVE  Grounded(req[r])'
<1>1. req[r] \in Session
  BY Busy DEF InFlight
<1>2. req'[r].pc \in {"idle", "refresh", "audit"}
  BY <1>1 DEF Finish, Goto, Idle, TypeOK, Session
<1> QED
  BY <1>2 DEF Grounded, Working, BeforeLoad, Checked

(* A request that reads keeps its administrator, who is in charge.         *)
LEMMA StepGrounded ==
  ASSUME TypeOK, AllGrounded, NEW r \in Requests, Step(r)
  PROVE  Grounded(req[r])'
<1> DEFINE q == req[r]
<1>1. q.pc # "idle"
  BY DEF Step, NotFound, GuardLoad, GuardCount, Load, FindLink, FindNewLink, Assign, OutOfRowIds,
     Revoke, Replace, SetStatus, Delete, Refresh, Audit, Writing
<1>2. q \in Session /\ (q.target = NoUser <=> q.pc \in BeforeLoad) /\ Grounded(q)
  BY <1>1, Busy DEF InFlight, AllGrounded
<1>3. ASSUME NEW p, Goto(r, p)
      PROVE  /\ req'[r].pc = p /\ req'[r].actor = q.actor /\ req'[r].name = q.name
             /\ req'[r].cmd = q.cmd /\ req'[r].target = q.target /\ req'[r].was = q.was
             /\ req'[r].seen = q.seen
  <2>1. req'[r] = [q EXCEPT !.pc = p]
    BY <1>3 DEF Goto, TypeOK
  <2> QED
    BY <1>2, <2>1 DEF Session
<1>4. ASSUME Finish(r) PROVE Grounded(req[r])'
  BY <1>1, <1>4, EndGrounded
<1>5. ASSUME UNCHANGED directory
      PROVE  /\ status' = status /\ userRoles' = userRoles
             /\ \A u \in Users : IsActiveAdmin(u)' <=> IsActiveAdmin(u)
             /\ \A n : \A u \in Users : Finds(n, u)' <=> Finds(n, u)
  BY <1>5, SameGrows, GrowingKeeps DEF directory, IsActiveAdmin, HoldsAdmin, LinksOf
<1>6. ASSUME UNCHANGED directory, Working(q), Working(q)', q'.actor = q.actor, q'.name = q.name,
             q'.cmd = q.cmd, q'.target = q.target, q'.was = q.was, q'.seen = q.seen
      PROVE  Grounded(req[r])'
  BY <1>2, <1>5, <1>6 DEF Grounded, Removing, Session
<1>7. CASE NotFound(r)
  BY <1>4, <1>7 DEF NotFound
<1>8. CASE GuardLoad(r) \/ GuardCount(r)
  <2>1. /\ UNCHANGED directory /\ Working(q)
        /\ Finish(r) \/ Goto(r, "count") \/ Goto(r, "load")
    BY <1>8 DEF GuardLoad, GuardCount, Working, BeforeLoad
  <2> QED
    BY <1>3, <1>4, <1>6, <2>1 DEF Working, BeforeLoad
<1>9. CASE Load(r)
  <2>1. PICK u \in Users :
          /\ Finds(q.name, u)
          /\ req' = [req EXCEPT ![r] =
               [q EXCEPT !.target = u,
                         !.pc = IF q.cmd.op \in RoleOps THEN "link" ELSE "write",
                         !.was = IF u = q.actor THEN q.was ELSE status[u],
                         !.seen = IF u = q.actor THEN q.seen ELSE LinksOf(u)]]
    BY <1>9 DEF Load
  <2>2. req'[r] = [q EXCEPT !.target = u,
                         !.pc = IF q.cmd.op \in RoleOps THEN "link" ELSE "write",
                         !.was = IF u = q.actor THEN q.was ELSE status[u],
                         !.seen = IF u = q.actor THEN q.seen ELSE LinksOf(u)]
    BY <2>1 DEF TypeOK
  <2>3. /\ req'[r].actor = q.actor /\ req'[r].name = q.name /\ req'[r].cmd = q.cmd
        /\ req'[r].target = u
        /\ req'[r].was = IF u = q.actor THEN q.was ELSE status[u]
        /\ req'[r].seen = IF u = q.actor THEN q.seen ELSE LinksOf(u)
    BY <1>2, <2>2 DEF Session
  <2>4. UNCHANGED directory /\ q.pc \in BeforeLoad /\ Working(q) /\ u # NoUser
    BY <1>9, AccountAssumption DEF Load, BeforeLoad, Working
  <2>5. IsActiveAdmin(q.actor) /\ q.was = "ACTIVE" /\ q.actor \in Users /\ q.seen \subseteq userRoles
    BY <1>2, <2>4 DEF Grounded, Session
  <2>6. req'[r].was = status[u] /\ req'[r].seen \subseteq userRoles
    BY <2>3, <2>5 DEF IsActiveAdmin, LinksOf
  <2> QED
    BY <1>5, <2>1, <2>3, <2>4, <2>5, <2>6 DEF Grounded
<1>10. CASE FindLink(r)
  <2>1. UNCHANGED directory /\ Working(q)
    BY <1>10 DEF FindLink, Working, Checked
  <2>2. CASE Goto(r, "write")
    BY <1>3, <1>6, <2>1, <2>2 DEF Working, Checked
  <2>3. ASSUME NEW l \in userRoles,
               req' = [req EXCEPT ![r] =
                 [q EXCEPT !.row = l.id, !.pc = IF q.cmd.op = "replace" THEN "newlink" ELSE "write"]]
        PROVE  Grounded(req[r])'
    <3>1. req'[r] = [q EXCEPT !.row = l.id, !.pc = IF q.cmd.op = "replace" THEN "newlink" ELSE "write"]
      BY <2>3 DEF TypeOK
    <3>2. /\ req'[r].actor = q.actor /\ req'[r].name = q.name /\ req'[r].cmd = q.cmd
          /\ req'[r].target = q.target /\ req'[r].was = q.was /\ req'[r].seen = q.seen
          /\ req'[r].pc \in {"newlink", "write"}
      BY <1>2, <3>1 DEF Session
    <3> QED
      BY <1>6, <2>1, <3>2 DEF Working, Checked
  <2> QED
    BY <1>4, <1>10, <2>2, <2>3 DEF FindLink
<1>11. CASE FindNewLink(r)
  <2>1. UNCHANGED directory /\ Working(q) /\ (Finish(r) \/ Goto(r, "write"))
    BY <1>11 DEF FindNewLink, Working, Checked
  <2> QED
    BY <1>3, <1>4, <1>6, <2>1 DEF Working, Checked
<1>12. CASE Assign(r)
  <2>1. ASSUME NEW i \in RowIds, req' = [req EXCEPT ![r] = [q EXCEPT !.row = i, !.pc = "refresh"]]
        PROVE  Grounded(req[r])'
    <3>1. req'[r].pc = "refresh"
      BY <1>2, <2>1 DEF TypeOK, Session
    <3> QED
      BY <3>1 DEF Grounded, Working, BeforeLoad, Checked
  <2> QED
    BY <1>4, <1>12, <2>1 DEF Assign
<1>13. CASE OutOfRowIds(r) \/ Revoke(r) \/ Replace(r) \/ SetStatus(r) \/ Delete(r) \/ Refresh(r) \/ Audit(r)
  BY <1>1, <1>13, EndGrounded DEF OutOfRowIds, Revoke, Replace, SetStatus, Delete, Refresh, Audit
<1> QED
  BY <1>7, <1>8, <1>9, <1>10, <1>11, <1>12, <1>13 DEF Step

(* A request that is not at work writes nothing.                           *)
LEMMA OnlyWorkingWrite ==
  ASSUME NEW r \in Requests, Step(r), ~Working(req[r])
  PROVE  UNCHANGED directory
BY DEF Step, NotFound, GuardLoad, GuardCount, Load, FindLink, FindNewLink, Assign, OutOfRowIds,
   Revoke, Replace, SetStatus, Delete, Refresh, Audit, Writing, Working, Checked

(* What stays true of a request while the directory grows, or rests.       *)
LEMMA OthersGrounded ==
  ASSUME TypeOK, Growing, NEW r \in Requests, req'[r] = req[r], Grounded(req[r]),
         Removing(req[r]) => UNCHANGED directory
  PROVE  Grounded(req[r])'
<1> SUFFICES ASSUME Working(req[r]) PROVE Grounded(req[r])'
  BY DEF Grounded, Working
<1>1. req[r] \in Session
  BY Busy DEF Working, BeforeLoad, Checked, InFlight
<1>2. /\ req[r].actor \in Users /\ req[r].target \in Users \cup {NoUser}
      /\ Removing(req[r]) => status' = status
  BY <1>1 DEF Session, directory
<1> QED
  BY <1>2, GrowingKeeps DEF Grounded, Growing, Working, Removing

(* No step disturbs the copies and the administrator of another request.   *)
LEMMA NextGrounded == TypeOK /\ AllGrounded /\ RemovalsAlone /\ [Next]_vars => AllGrounded'
<1> SUFFICES ASSUME TypeOK, AllGrounded, RemovalsAlone, [Next]_vars, NEW r \in Requests
             PROVE  Grounded(req[r])'
  BY DEF AllGrounded
<1>1. Grounded(req[r])
  BY DEF AllGrounded
<1>2. ASSUME NEW x \in Requests, Step(x), x # r PROVE Grounded(req[r])'
  <2>1. req'[r] = req[r]
    BY <1>2, StepElsewhere
  <2>2. CASE ~Working(req[r])
    BY <2>1, <2>2 DEF Grounded, Working
  <2>3. CASE Removing(req[r])
    <3>1. UNCHANGED directory
      BY <1>2, <2>3, OnlyWorkingWrite DEF RemovalsAlone
    <3> QED
      BY <1>1, <2>1, <3>1, SameGrows, OthersGrounded
  <2>4. CASE Working(req[r]) /\ ~Removing(req[r])
    <3>1. ~Removing(req[x])
      BY <1>2, <2>4 DEF RemovalsAlone
    <3>2. ~Deciding(req[x])
      BY <3>1 DEF Deciding, Removing, Working, Checked, Guarded
    <3> QED
      BY <1>1, <1>2, <2>1, <2>4, <3>2, StepGrows, OthersGrounded
  <2> QED
    BY <2>2, <2>3, <2>4
<1>3. ASSUME NEW x \in Requests, NEW a \in Users, NEW n \in Names, NEW c \in Commands,
             Begin(x, a, n, c)
      PROVE  Grounded(req[r])'
  <2>1. CASE x = r
    <3> DEFINE q == [pc |-> IF Guarded(c) THEN "guard" ELSE "load", actor |-> a, name |-> n,
                     cmd |-> c, target |-> NoUser, was |-> "ACTIVE", seen |-> LinksOf(a), row |-> 0]
    <3>1. req'[r] = q
      BY <1>3, <2>1 DEF Begin, TypeOK
    <3>2. /\ req'[r].actor = a /\ req'[r].target = NoUser /\ req'[r].was = "ACTIVE"
          /\ req'[r].seen = LinksOf(a)
      BY <3>1
    <3>3. IsActiveAdmin(a)' /\ req'[r].seen \subseteq userRoles'
      BY <1>3, <3>2 DEF Begin, directory, IsActiveAdmin, HoldsAdmin, LinksOf
    <3> QED
      BY <3>2, <3>3 DEF Grounded
  <2>2. CASE x # r
    <3>1. req'[r] = req[r] /\ UNCHANGED directory
      BY <1>3, <2>2 DEF Begin, TypeOK
    <3> QED
      BY <1>1, <3>1, SameGrows, OthersGrounded
  <2> QED
    BY <2>1, <2>2
<1>4. CASE Crash
  <2>1. req'[r] = Idle
    BY <1>4 DEF Crash
  <2> QED
    BY <2>1 DEF Grounded, Idle, Working, BeforeLoad, Checked
<1>5. CASE UNCHANGED vars
  <2>1. UNCHANGED directory /\ req' = req
    BY <1>5 DEF vars, directory
  <2> QED
    BY <1>1, <2>1, SameGrows, OthersGrounded
<1> QED
  BY <1>2, <1>3, <1>4, <1>5, StepGrounded DEF Next

(* What all requests rely on while no removal is overlapped.               *)
AloneInv == TypeOK /\ LinkIntegrity /\ AllHeld /\ AllGrounded /\ AllEntitled /\ SeenOwned

(* It is always so.                                                        *)
LEMMA AlwaysAloneInv == Spec /\ []RemovalsAlone => []AloneInv
<1>1. Init => AllGrounded
  BY DEF Init, AllGrounded, Grounded, Idle, Working, BeforeLoad, Checked
<1>2. TypeOK /\ AllGrounded /\ RemovalsAlone /\ [Next]_vars => AllGrounded'
  BY NextGrounded
<1>3. Spec /\ []RemovalsAlone => []AllGrounded
  BY <1>1, <1>2, TypeCorrect, PTL DEF Spec
<1>4. Spec /\ []RemovalsAlone => []ChecksApart
  BY AloneIsApart, TypeCorrect, PTL
<1> QED
  BY <1>3, <1>4, AlwaysHeld, TypeCorrect, LinksStaySound, AlwaysEntitled, AlwaysSeenOwned, PTL
     DEF AloneInv

(* What is true when a request writes.                                     *)
LEMMA AtWrite ==
  ASSUME AloneInv, NEW r \in Requests, req[r].pc = "write"
  PROVE  LET q == req[r] IN
         /\ q.target \in Users /\ q.actor \in Users /\ q.cmd \in Commands
         /\ q.target \notin Demo /\ Exists(q.target)
         /\ IsActiveAdmin(q.actor)
         /\ q.was = "ACTIVE" => status[q.target] = "ACTIVE"
         /\ q.cmd.op \notin {"assign", "activate"} => q.was = status[q.target]
         /\ q.seen \subseteq userRoles /\ \A s \in q.seen : s.user = q.target
         /\ q.cmd.op \in {"deactivate", "delete"} => q.target # q.actor
         /\ Guarded(q.cmd) => Spared(q.target)
         /\ q.cmd.op \in {"revoke", "replace"} =>
              \E l \in userRoles : l.id = q.row /\ l.user = q.target /\ l.role = q.cmd.role
<1> DEFINE q == req[r]
<1> USE DEF AloneInv
<1>1. q \in InFlight /\ q # Idle /\ q.pc \in Checked /\ q.pc \notin BeforeLoad /\ Working(q)
  BY Busy DEF Idle, Checked, BeforeLoad, Working
<1>2. q \in Session /\ q.target # NoUser /\ Grounded(q) /\ Held(q) /\ Entitled(q)
  BY <1>1 DEF InFlight, AllGrounded, AllHeld, AllEntitled
<1>3. q.target \in Users /\ q.actor \in Users /\ q.cmd \in Commands
  BY <1>2 DEF Session
<1>4. /\ Finds(q.name, q.target) /\ q.seen \subseteq userRoles /\ IsActiveAdmin(q.actor)
      /\ q.was = "ACTIVE" => status[q.target] = "ACTIVE"
      /\ q.cmd.op \notin {"assign", "activate"} => q.was = status[q.target]
  BY <1>1, <1>2 DEF Grounded, Removing
<1>5. q.target \notin Demo
  BY <1>1, <1>2, TargetNotDemo
<1>6. Exists(q.target)
  BY <1>4 DEF Finds
<1>7. \A s \in q.seen : s.user = q.target
  BY <1>1, <1>2 DEF SeenOwned, Owner
<1>8. q.cmd.op \in {"deactivate", "delete"} => q.target # q.actor
  BY <1>2 DEF Entitled, NamesSelf
<1>9. Guarded(q.cmd) => Spared(q.target)
  BY <1>1, <1>2, <1>3, <1>4 DEF Held
<1>10. q.cmd.op \in {"revoke", "replace"} =>
         \E l \in userRoles : l.id = q.row /\ l.user = q.target /\ l.role = q.cmd.role
  BY <1>1, <1>2 DEF Held
<1> QED
  BY <1>3, <1>4, <1>5, <1>6, <1>7, <1>8, <1>9, <1>10

-----------------------------------------------------------------------------
(* The effect of the writes on who holds which role.                       *)

(* An insert adds its pair, or the request fails and nothing changes.      *)
LEMMA AssignPairs ==
  ASSUME NEW r \in Requests, Assign(r)
  PROVE  \/ Pairs' = Pairs \cup {<<req[r].target, req[r].cmd.role>>}
         \/ Pairs' = Pairs /\ Finish(r)
<1> DEFINE new(i) == [id |-> i, user |-> req[r].target, role |-> req[r].cmd.role]
<1>1. CASE userRoles' = userRoles /\ Finish(r)
  BY <1>1 DEF Pairs
<1>2. ASSUME NEW i \in RowIds, userRoles' = userRoles \cup {new(i)}
      PROVE  Pairs' = Pairs \cup {<<req[r].target, req[r].cmd.role>>}
  <2>1. <<new(i).user, new(i).role>> = <<req[r].target, req[r].cmd.role>>
    OBVIOUS
  <2> QED
    BY <1>2, <2>1 DEF Pairs
<1> QED
  BY <1>1, <1>2 DEF Assign

(* Deleting the one row of a pair takes that pair away.                    *)
LEMMA RevokePairs ==
  ASSUME LinkIntegrity, NEW l \in userRoles,
         userRoles' = {m \in userRoles : m.id # l.id}
  PROVE  Pairs' = Pairs \ {<<l.user, l.role>>}
<1>1. \A m \in userRoles : m.id = l.id <=> m = l
  BY DEF LinkIntegrity, Integrity
<1>2. \A m \in userRoles : <<m.user, m.role>> = <<l.user, l.role>> <=> m = l
  BY DEF LinkIntegrity, Integrity
<1> QED
  BY <1>1, <1>2 DEF Pairs

(* Rewriting the role of the one row of a pair swaps that pair.            *)
LEMMA ReplacePairs ==
  ASSUME TypeOK, LinkIntegrity, NEW l \in userRoles, NEW x \in Roles,
         userRoles' = (userRoles \ {m \in userRoles : m.id = l.id})
                        \cup {[m EXCEPT !.role = x] : m \in {m \in userRoles : m.id = l.id}}
  PROVE  Pairs' = (Pairs \ {<<l.user, l.role>>}) \cup {<<l.user, x>>}
<1> DEFINE new == [l EXCEPT !.role = x]
<1>1. \A m \in userRoles : m.id = l.id <=> m = l
  BY DEF LinkIntegrity, Integrity
<1>2. \A m \in userRoles : <<m.user, m.role>> = <<l.user, l.role>> <=> m = l
  BY DEF LinkIntegrity, Integrity
<1>3. new.user = l.user /\ new.role = x
  BY DEF TypeOK, UserRole
<1>4. userRoles' = (userRoles \ {l}) \cup {new}
  BY <1>1
<1>5. {<<m.user, m.role>> : m \in userRoles \ {l}} = Pairs \ {<<l.user, l.role>>}
  BY <1>2 DEF Pairs
<1>6. Pairs' = {<<m.user, m.role>> : m \in userRoles \ {l}} \cup {<<new.user, new.role>>}
  BY <1>4 DEF Pairs
<1> QED
  BY <1>3, <1>5, <1>6

(* The effect of a revoke.                                                 *)
LEMMA RevokeEffect ==
  ASSUME AloneInv, NEW r \in Requests, Revoke(r)
  PROVE  /\ Pairs' = Pairs \ {<<req[r].target, req[r].cmd.role>>}
         /\ <<req[r].target, req[r].cmd.role>> \in Pairs
<1>1. req[r].pc = "write" /\ req[r].cmd.op = "revoke"
  BY DEF Revoke, Writing
<1>2. PICK l \in userRoles :
        l.id = req[r].row /\ l.user = req[r].target /\ l.role = req[r].cmd.role
  BY <1>1, AtWrite DEF AloneInv
<1>3. userRoles' = {m \in userRoles : m.id # l.id}
  BY <1>2 DEF Revoke
<1>4. Pairs' = Pairs \ {<<l.user, l.role>>}
  BY <1>3, RevokePairs DEF AloneInv
<1> QED
  BY <1>2, <1>4 DEF Pairs

(* The effect of a replace: the swap, or none and the request ends.        *)
LEMMA ReplaceEffect ==
  ASSUME AloneInv, NEW r \in Requests, Replace(r)
  PROVE  LET p == <<req[r].target, req[r].cmd.role>>
             n == <<req[r].target, req[r].cmd.newRole>>
         IN /\ p \in Pairs
            /\ \/ Pairs' = (Pairs \ {p}) \cup {n}
               \/ Pairs' = Pairs /\ Finish(r)
<1> DEFINE q == req[r]
           old == {m \in userRoles : m.id = q.row}
           rows == (userRoles \ old) \cup {[m EXCEPT !.role = q.cmd.newRole] : m \in old}
<1>1. q.pc = "write" /\ q.cmd.op = "replace"
  BY DEF Replace, Writing
<1>2. PICK l \in userRoles : l.id = q.row /\ l.user = q.target /\ l.role = q.cmd.role
  BY <1>1, AtWrite DEF AloneInv
<1>3. <<q.target, q.cmd.role>> \in Pairs
  BY <1>2 DEF Pairs
<1>4. q.cmd.newRole \in Roles /\ q.seen \subseteq userRoles
  BY <1>1, AtWrite DEF AloneInv, Commands
<1>5. \A m \in userRoles : m.id = q.row => m = l
  BY <1>2 DEF AloneInv, LinkIntegrity, Integrity
<1>6. CASE NothingToWrite(q)
  <2>1. q.cmd.newRole = q.cmd.role
    BY <1>2, <1>4, <1>5, <1>6 DEF NothingToWrite
  <2>2. userRoles' = userRoles
    BY <1>6 DEF Replace
  <2>3. Pairs' = Pairs
    BY <2>2 DEF Pairs
  <2> QED
    BY <1>3, <2>1, <2>3
<1>7. CASE userRoles' = rows
  <2>1. Pairs' = (Pairs \ {<<l.user, l.role>>}) \cup {<<l.user, q.cmd.newRole>>}
    BY <1>2, <1>4, <1>7, ReplacePairs DEF AloneInv
  <2> QED
    BY <1>2, <1>3, <2>1
<1>8. CASE userRoles' = userRoles /\ Finish(r)
  BY <1>3, <1>8 DEF Pairs
<1> QED
  BY <1>6, <1>7, <1>8 DEF Replace

(* The effect of a deletion.                                               *)
LEMMA DeleteEffect ==
  ASSUME AloneInv, NEW r \in Requests, Delete(r)
  PROVE  Pairs' = {p \in Pairs : p[1] # req[r].target}
<1> DEFINE q == req[r]
<1>1. q.pc = "write" /\ userRoles' = {l \in userRoles : l.user # q.target /\ \A s \in q.seen : s.id # l.id}
  BY DEF Delete, Writing
<1>2. q.seen \subseteq userRoles /\ \A s \in q.seen : s.user = q.target
  BY <1>1, AtWrite DEF AloneInv
<1>3. \A l \in userRoles, s \in q.seen : s.id = l.id => l.user = q.target
  BY <1>2 DEF AloneInv, LinkIntegrity, Integrity
<1>4. userRoles' = {l \in userRoles : l.user # q.target}
  BY <1>1, <1>3
<1>5. \A l : <<l.user, l.role>>[1] = l.user
  OBVIOUS
<1>6. Pairs' = {<<l.user, l.role>> : l \in {l \in userRoles : l.user # q.target}}
  BY <1>4 DEF Pairs
<1>7. {<<l.user, l.role>> : l \in {l \in userRoles : l.user # q.target}} = {p \in Pairs : p[1] # q.target}
  BY <1>5 DEF Pairs
<1> QED
  BY <1>6, <1>7

(* Every role request that commits writes its command and nothing else.    *)
LEMMA RoleStepExact ==
  AloneInv /\ [Next]_vars =>
    \A r \in Requests :
      Writes(r) /\ req'[r].pc = "refresh" /\ req[r].cmd.op \in RoleOps =>
        LET c == req[r].cmd
            t == req[r].target
        IN Pairs' = CASE c.op = "assign"  -> Pairs \cup {<<t, c.role>>}
                      [] c.op = "revoke"  -> Pairs \ {<<t, c.role>>}
                      [] c.op = "replace" -> (Pairs \ {<<t, c.role>>}) \cup {<<t, c.newRole>>}
<1> SUFFICES ASSUME AloneInv, [Next]_vars, NEW r \in Requests,
                    Writes(r), req'[r].pc = "refresh", req[r].cmd.op \in RoleOps
             PROVE  LET c == req[r].cmd
                        t == req[r].target
                    IN Pairs' = CASE c.op = "assign"  -> Pairs \cup {<<t, c.role>>}
                                  [] c.op = "revoke"  -> Pairs \ {<<t, c.role>>}
                                  [] c.op = "replace" -> (Pairs \ {<<t, c.role>>}) \cup {<<t, c.newRole>>}
  OBVIOUS
<1>1. ~Finish(r)
  BY DEF Finish, Idle, AloneInv, TypeOK
<1>2. req'[r] # req[r] /\ req[r].pc = "write"
  BY DEF Writes
<1>3. Step(r)
  <2>1. ASSUME NEW x \in Requests, Step(x) PROVE x = r
    BY <1>2, <2>1, StepElsewhere DEF AloneInv
  <2>2. ~Crash /\ ~UNCHANGED vars
    BY <1>2 DEF Crash, Idle, vars
  <2>3. ASSUME NEW x \in Requests, NEW a \in Users, NEW n \in Names, NEW c \in Commands,
               Begin(x, a, n, c)
        PROVE  FALSE
    BY <1>2, <2>3 DEF Begin, Idle, AloneInv, TypeOK
  <2> QED
    BY <2>1, <2>2, <2>3 DEF Next
<1>4. Assign(r) \/ Revoke(r) \/ Replace(r)
  BY <1>1, <1>2, <1>3 DEF Step, NotFound, GuardLoad, GuardCount, Load, FindLink, FindNewLink,
     OutOfRowIds, SetStatus, Delete, Refresh, Audit, Writing, RoleOps
<1>5. CASE Assign(r)
  BY <1>1, <1>5, AssignPairs DEF Assign, Writing
<1>6. CASE Revoke(r)
  BY <1>6, RevokeEffect DEF Revoke, Writing
<1>7. CASE Replace(r)
  BY <1>1, <1>7, ReplaceEffect DEF Replace, Writing
<1> QED
  BY <1>4, <1>5, <1>6, <1>7

(* While no removal is overlapped, assign adds its pair, revoke removes it *)
(* and replace swaps it, and no other assignment moves.                    *)
THEOREM RoleWritesAreExact == Spec /\ []RemovalsAlone => RoleWriteExact
BY AlwaysAloneInv, RoleStepExact, PTL DEF Spec, RoleWriteExact

-----------------------------------------------------------------------------
(* The refinement.                                                         *)

(* The abstract directory sees the same administrators.                    *)
LEMMA SameAdmins ==
  \A u : Directory!IsActiveAdmin(u) <=> IsActiveAdmin(u)
<1>1. \A l, u : <<l.user, l.role>> = <<u, Admin>> <=> l.user = u /\ l.role = Admin
  OBVIOUS
<1> QED
  BY <1>1 DEF Directory!IsActiveAdmin, IsActiveAdmin, HoldsAdmin, LinksOf, Pairs

(* What the guard checked spares the last administrator.                   *)
LEMMA SparedMeans ==
  ASSUME NEW u \in Users, Spared(u)
  PROVE  Directory!Spared(u)
BY SameAdmins DEF Directory!Spared, Spared

(* Every write is a command of the abstract directory or changes nothing.  *)
LEMMA WriteIsCommand ==
  ASSUME AloneInv, NEW r \in Requests,
         Assign(r) \/ Revoke(r) \/ Replace(r) \/ SetStatus(r) \/ Delete(r)
  PROVE  Directory!Next \/ UNCHANGED <<status, Pairs>>
<1> DEFINE q == req[r]
           a == q.actor
           t == q.target
<1>1. q.pc = "write"
  BY DEF Assign, Revoke, Replace, SetStatus, Delete, Writing
<1>2. /\ t \in Users /\ a \in Users /\ q.cmd \in Commands
      /\ t \notin Demo /\ Exists(t)
      /\ IsActiveAdmin(a)
      /\ q.was = "ACTIVE" => status[t] = "ACTIVE"
      /\ q.cmd.op \notin {"assign", "activate"} => q.was = status[t]
      /\ q.cmd.op \in {"deactivate", "delete"} => t # a
      /\ Guarded(q.cmd) => Spared(t)
  BY <1>1, AtWrite DEF AloneInv
<1>3. Directory!MayChange(a, t)
  BY <1>2, SameAdmins DEF Directory!MayChange, Exists
<1>4. Guarded(q.cmd) => Directory!Spared(t)
  BY <1>2, SparedMeans
<1> SUFFICES Directory!Command(a, t) \/ UNCHANGED <<status, Pairs>>
  BY <1>2 DEF Directory!Next
<1>5. CASE Assign(r)
  <2>1. status' = status /\ q.cmd.op = "assign"
    BY <1>5 DEF Assign, Writing
  <2>2. q.cmd.role \in Roles
    BY <1>2, <2>1 DEF Commands
  <2>3. Pairs' = Pairs \cup {<<t, q.cmd.role>>} \/ Pairs' = Pairs
    BY <1>5, AssignPairs
  <2> QED
    BY <1>3, <2>1, <2>2, <2>3 DEF Directory!Command, Directory!Assign
<1>6. CASE Revoke(r)
  <2>1. status' = status /\ q.cmd.op = "revoke"
    BY <1>6 DEF Revoke, Writing
  <2>2. q.cmd.role \in Roles
    BY <1>2, <2>1 DEF Commands
  <2>3. q.cmd.role = Admin => Directory!Spared(t)
    BY <1>4, <2>1 DEF Guarded
  <2>4. Directory!Revoke(a, t, q.cmd.role)
    BY <1>3, <1>6, <2>1, <2>3, RevokeEffect DEF Directory!Revoke
  <2> QED
    BY <2>2, <2>4 DEF Directory!Command
<1>7. CASE Replace(r)
  <2>1. status' = status /\ q.cmd.op = "replace"
    BY <1>7 DEF Replace, Writing
  <2>2. q.cmd.role \in Roles /\ q.cmd.newRole \in Roles
    BY <1>2, <2>1 DEF Commands
  <2>3. q.cmd.role = Admin /\ q.cmd.newRole # Admin => Directory!Spared(t)
    BY <1>4, <2>1 DEF Guarded
  <2>4. Directory!Replace(a, t, q.cmd.role, q.cmd.newRole) \/ Pairs' = Pairs
    BY <1>3, <1>7, <2>1, <2>3, ReplaceEffect DEF Directory!Replace
  <2> QED
    BY <2>1, <2>2, <2>4 DEF Directory!Command
<1>8. CASE SetStatus(r)
  <2>1. /\ Pairs' = Pairs /\ q.cmd.op \in {"activate", "deactivate"}
        /\ status' = [status EXCEPT ![t] = IF q.was = NewStatus(q) THEN @ ELSE NewStatus(q)]
    BY <1>2, <1>8 DEF SetStatus, Writing, Pairs
  <2>2. status' = [status EXCEPT ![t] = NewStatus(q)]
    BY <1>2, <2>1 DEF AloneInv, TypeOK, NewStatus
  <2>3. CASE q.cmd.op = "activate"
    BY <1>3, <2>1, <2>2, <2>3 DEF Directory!Command, Directory!Activate, NewStatus
  <2>4. CASE q.cmd.op = "deactivate"
    BY <1>2, <1>3, <1>4, <2>1, <2>2, <2>4
       DEF Directory!Command, Directory!Deactivate, NewStatus, Guarded
  <2> QED
    BY <2>1, <2>3, <2>4
<1>9. CASE Delete(r)
  <2>1. status' = [status EXCEPT ![t] = "DELETED"] /\ q.cmd.op = "delete"
    BY <1>9 DEF Delete, Writing
  <2>2. Directory!Remove(a, t)
    BY <1>2, <1>3, <1>4, <1>9, <2>1, DeleteEffect DEF Directory!Remove, Guarded
  <2> QED
    BY <2>2 DEF Directory!Command
<1> QED
  BY <1>5, <1>6, <1>7, <1>8, <1>9

(* Every step of the server is a step of the abstract directory.           *)
LEMMA NextIsCommand == AloneInv /\ [Next]_vars => [Directory!Next]_<<status, Pairs>>
<1> SUFFICES ASSUME AloneInv, [Next]_vars
             PROVE  Directory!Next \/ UNCHANGED <<status, Pairs>>
  OBVIOUS
<1>1. CASE UNCHANGED directory
  BY <1>1 DEF directory, Pairs
<1>2. CASE ~UNCHANGED directory
  <2>1. PICK r \in Requests : Step(r)
    BY <1>2 DEF Next, Begin, Crash, vars, directory
  <2> QED
    BY <1>2, <2>1, WriteIsCommand DEF Step, NotFound, GuardLoad, GuardCount, Load, FindLink,
       FindNewLink, OutOfRowIds, Refresh, Audit
<1> QED
  BY <1>1, <1>2

(* While no removal is overlapped, the statements of a request, crashes    *)
(* included, amount to one command of an administrator in charge at that   *)
(* moment, or to none, for any number of requests at a time.               *)
THEOREM CommandsActAtOnce == Spec /\ []RemovalsAlone => ActsAtOnce
<1>1. Init => Directory!Init
  BY DEF Init, Directory!Init, Pairs
<1> QED
  BY <1>1, AlwaysAloneInv, NextIsCommand, PTL
     DEF Spec, ActsAtOnce, Directory!Spec, Directory!directory

-----------------------------------------------------------------------------
(* After the write the rows the request reads again are still there, and   *)
(* so is the administrator the audit record names.                         *)

StillThere(q) ==
  q.pc \in {"refresh", "audit"} =>
    /\ Exists(q.actor)
    /\ q.pc = "refresh" =>
         /\ Exists(q.target)
         /\ q.cmd.op \in {"assign", "replace"} => \E l \in userRoles : l.id = q.row

AllStillThere == \A r \in Requests : StillThere(req[r])

(* The lock of RemovalsAlone, kept until the audit record is committed.    *)
RecordsFirst == \A r, s \in Requests : Removing(req[r]) /\ req[s] # Idle => r = s

(* It keeps removals alone.                                                *)
LEMMA FirstIsAlone == RecordsFirst => RemovalsAlone
BY DEF RecordsFirst, RemovalsAlone, Working, Idle, BeforeLoad, Checked

(* A write leaves the rows the rest of the request needs.                  *)
LEMMA WriteStillThere ==
  ASSUME AloneInv, NEW r \in Requests,
         Assign(r) \/ Revoke(r) \/ Replace(r) \/ SetStatus(r) \/ Delete(r)
  PROVE  StillThere(req[r])'
<1> DEFINE q == req[r]
<1>1. q.pc = "write" /\ q \in Session
  BY Busy DEF Assign, Revoke, Replace, SetStatus, Delete, Writing, AloneInv, InFlight
<1>2. /\ q.target \in Users /\ q.actor \in Users /\ Exists(q.target) /\ Exists(q.actor)
      /\ q.cmd.op = "delete" => q.target # q.actor
  BY <1>1, AtWrite DEF AloneInv, IsActiveAdmin, Exists
<1>3. ASSUME Finish(r) PROVE StillThere(req[r])'
  BY <1>3 DEF Finish, StillThere, Idle, AloneInv, TypeOK
<1>4. ASSUME NEW p \in {"refresh", "audit"}, Goto(r, p)
      PROVE  /\ req'[r].pc = p /\ req'[r].actor = q.actor /\ req'[r].cmd = q.cmd
             /\ req'[r].target = q.target /\ req'[r].row = q.row
  <2>1. req'[r] = [q EXCEPT !.pc = p]
    BY <1>4 DEF Goto, AloneInv, TypeOK
  <2> QED
    BY <1>1, <2>1 DEF Session
<1>5. CASE Assign(r)
  <2>1. ASSUME NEW i \in RowIds,
               userRoles' = userRoles \cup {[id |-> i, user |-> q.target, role |-> q.cmd.role]},
               req' = [req EXCEPT ![r] = [q EXCEPT !.row = i, !.pc = "refresh"]]
        PROVE  StillThere(req[r])'
    <3>1. req'[r] = [q EXCEPT !.row = i, !.pc = "refresh"]
      BY <2>1 DEF AloneInv, TypeOK
    <3>2. req'[r].actor = q.actor /\ req'[r].target = q.target /\ req'[r].row = i
      BY <1>1, <3>1 DEF Session
    <3>3. [id |-> i, user |-> q.target, role |-> q.cmd.role].id = i
      OBVIOUS
    <3> QED
      BY <1>2, <1>5, <2>1, <3>2, <3>3 DEF StillThere, Exists, Assign
  <2> QED
    BY <1>3, <1>5, <2>1 DEF Assign
<1>6. CASE Revoke(r)
  BY <1>2, <1>4, <1>6 DEF Revoke, Writing, StillThere, Exists
<1>7. CASE Replace(r)
  <2> DEFINE old == {l \in userRoles : l.id = q.row}
             rows == (userRoles \ old) \cup {[l EXCEPT !.role = q.cmd.newRole] : l \in old}
  <2>1. PICK l \in userRoles : l.id = q.row
    BY <1>1, <1>7, AtWrite DEF Replace, Writing, AloneInv
  <2>2. [l EXCEPT !.role = q.cmd.newRole].id = q.row
    BY <2>1 DEF AloneInv, TypeOK, UserRole
  <2>3. userRoles' = userRoles \/ userRoles' = rows
    BY <1>7 DEF Replace
  <2>4. \E m \in userRoles' : m.id = q.row
    BY <2>1, <2>2, <2>3
  <2>5. status' = status /\ (Goto(r, "refresh") \/ Finish(r))
    BY <1>7 DEF Replace
  <2> QED
    BY <1>2, <1>3, <1>4, <2>4, <2>5 DEF StillThere, Exists
<1>8. CASE SetStatus(r)
  <2>1. Goto(r, "refresh") \/ Finish(r)
    BY <1>8 DEF SetStatus
  <2>2. q.cmd.op \notin {"assign", "replace"}
    BY <1>8 DEF SetStatus, Writing
  <2>3. status' = [status EXCEPT ![q.target] = IF q.was = NewStatus(q) THEN @ ELSE NewStatus(q)]
    BY <1>2, <1>8 DEF SetStatus
  <2>4. status'[q.target] \in {status[q.target], NewStatus(q)}
    BY <1>2, <2>3 DEF AloneInv, TypeOK
  <2>5. status'[q.actor] \in {status[q.actor], NewStatus(q)}
    BY <1>2, <2>3 DEF AloneInv, TypeOK
  <2>6. NewStatus(q) # "DELETED"
    BY DEF NewStatus
  <2> QED
    BY <1>2, <1>3, <1>4, <2>1, <2>2, <2>4, <2>5, <2>6 DEF StillThere, Exists
<1>9. CASE Delete(r)
  <2>1. /\ Goto(r, "audit") /\ q.cmd.op = "delete"
        /\ status' = [status EXCEPT ![q.target] = "DELETED"]
    BY <1>9 DEF Delete, Writing
  <2>2. status'[q.actor] = status[q.actor]
    BY <1>2, <2>1 DEF AloneInv, TypeOK
  <2> QED
    BY <1>2, <1>4, <2>1, <2>2 DEF StillThere, Exists
<1> QED
  BY <1>5, <1>6, <1>7, <1>8, <1>9

(* Every step keeps them, and no audit record is lost.                     *)
LEMMA NextStillThere ==
  /\ AloneInv /\ RecordsFirst /\ AllStillThere /\ AuditComplete /\ [Next]_vars
  => AllStillThere' /\ AuditComplete'
<1> SUFFICES ASSUME AloneInv, RecordsFirst, AllStillThere, AuditComplete, [Next]_vars
             PROVE  AllStillThere' /\ AuditComplete'
  OBVIOUS
<1>1. ASSUME NEW r \in Requests, Step(r)
      PROVE  StillThere(req[r])' /\ AuditComplete'
  <2> DEFINE q == req[r]
  <2>1. ASSUME Finish(r) PROVE StillThere(req[r])'
    BY <2>1 DEF Finish, StillThere, Idle, AloneInv, TypeOK
  <2>2. ASSUME NEW p, Goto(r, p), q.pc # "idle"
        PROVE  req'[r].pc = p /\ req'[r].actor = q.actor
    <3>1. req'[r] = [q EXCEPT !.pc = p] /\ q \in Session
      BY <2>2, Busy DEF Goto, AloneInv, TypeOK, InFlight
    <3> QED
      BY <3>1 DEF Session
  <2>3. CASE Assign(r) \/ Revoke(r) \/ Replace(r) \/ SetStatus(r) \/ Delete(r)
    <3>1. UNCHANGED lostAudit
      BY <2>3 DEF Assign, Revoke, Replace, SetStatus, Delete
    <3> QED
      BY <2>3, <3>1, WriteStillThere DEF AuditComplete
  <2>4. CASE Refresh(r)
    <3>1. q.pc = "refresh" /\ StillThere(q) /\ UNCHANGED directory
      BY <2>4 DEF Refresh, AllStillThere
    <3>2. Goto(r, "audit") /\ UNCHANGED lostAudit
      BY <2>4, <3>1 DEF Refresh, StillThere
    <3> QED
      BY <2>2, <3>1, <3>2 DEF StillThere, Exists, directory, AuditComplete
  <2>5. CASE Audit(r)
    <3>1. q.pc = "audit" /\ StillThere(q)
      BY <2>5 DEF Audit, AllStillThere
    <3> QED
      BY <2>1, <2>5, <3>1 DEF Audit, StillThere, AuditComplete
  <2>6. CASE Load(r)
    <3>1. q \in Session
      BY <2>6, Busy DEF Load, AloneInv, InFlight
    <3>2. req'[r].pc \in {"link", "write"}
      BY <2>6, <3>1 DEF Load, AloneInv, TypeOK, Session
    <3> QED
      BY <2>6, <3>2 DEF Load, StillThere, AuditComplete
  <2>7. CASE FindLink(r)
    <3>1. q \in Session
      BY <2>7, Busy DEF FindLink, AloneInv, InFlight
    <3>2. UNCHANGED lostAudit /\ q.pc # "idle"
      BY <2>7 DEF FindLink
    <3>3. ASSUME Finish(r) PROVE StillThere(req[r])'
      BY <2>1, <3>3
    <3>4. ASSUME Goto(r, "write") PROVE StillThere(req[r])'
      BY <2>2, <3>2, <3>4 DEF StillThere
    <3>5. ASSUME NEW l \in userRoles,
                 req' = [req EXCEPT ![r] =
                   [q EXCEPT !.row = l.id, !.pc = IF q.cmd.op = "replace" THEN "newlink" ELSE "write"]]
          PROVE  StillThere(req[r])'
      <4>1. req'[r].pc \in {"newlink", "write"}
        BY <3>1, <3>5 DEF AloneInv, TypeOK, Session
      <4> QED
        BY <4>1 DEF StillThere
    <3>6. StillThere(req[r])'
      BY <2>7, <3>3, <3>4, <3>5 DEF FindLink
    <3> QED
      BY <3>2, <3>6 DEF AuditComplete
  <2>8. CASE NotFound(r) \/ GuardLoad(r) \/ GuardCount(r) \/ FindNewLink(r) \/ OutOfRowIds(r)
    <3>1. (Finish(r) \/ Goto(r, "count") \/ Goto(r, "load") \/ Goto(r, "write")) /\ q.pc # "idle"
      BY <2>8 DEF NotFound, GuardLoad, GuardCount, FindNewLink, OutOfRowIds, Writing
    <3>2. UNCHANGED lostAudit
      BY <2>8 DEF NotFound, GuardLoad, GuardCount, FindNewLink, OutOfRowIds
    <3> QED
      BY <2>1, <2>2, <3>1, <3>2 DEF StillThere, AuditComplete
  <2> QED
    BY <1>1, <2>3, <2>4, <2>5, <2>6, <2>7, <2>8 DEF Step
<1>2. ASSUME NEW x \in Requests, Step(x) PROVE AllStillThere' /\ AuditComplete'
  <2>1. SUFFICES ASSUME NEW r \in Requests, x # r PROVE StillThere(req[r])'
    BY <1>1, <1>2 DEF AllStillThere
  <2>2. req'[r] = req[r] /\ StillThere(req[r])
    BY <1>2, <2>1, StepElsewhere DEF AloneInv, AllStillThere
  <2>3. CASE req[r].pc \in {"refresh", "audit"}
    <3>1. req[r] # Idle /\ req[r].actor \in Users /\ req[r].target \in Users
      BY <2>3, Busy DEF AloneInv, Idle, InFlight, Session, BeforeLoad
    <3>2. ~Deciding(req[x])
      BY <2>1, <3>1 DEF RecordsFirst, Deciding, Removing, Working, Checked, Guarded
    <3>3. Growing
      BY <1>2, <3>2, StepGrows DEF AloneInv
    <3> QED
      BY <2>2, <3>1, <3>3 DEF Growing, StillThere
  <2>4. CASE req[r].pc \notin {"refresh", "audit"}
    BY <2>2, <2>4 DEF StillThere
  <2> QED
    BY <2>3, <2>4
<1>3. ASSUME NEW x \in Requests, NEW a \in Users, NEW n \in Names, NEW c \in Commands,
             Begin(x, a, n, c)
      PROVE  AllStillThere' /\ AuditComplete'
  <2>1. \A r \in Requests : req'[r] = req[r] \/ req'[r].pc \in {"guard", "load"}
    BY <1>3 DEF Begin, AloneInv, TypeOK
  <2> QED
    BY <1>3, <2>1 DEF AllStillThere, StillThere, AuditComplete, Begin, directory, Exists
<1>4. CASE Crash
  <2>1. \A r \in Requests : req'[r].pc = "idle"
    BY <1>4 DEF Crash, Idle
  <2> QED
    BY <1>4, <2>1 DEF Crash, AllStillThere, StillThere, AuditComplete
<1>5. CASE UNCHANGED vars
  BY <1>5 DEF vars, AllStillThere, StillThere, Exists, AuditComplete
<1> QED
  BY <1>2, <1>3, <1>4, <1>5 DEF Next

(* A change that is committed has its audit record once the request has    *)
(* ended, unless the process died, as long as no removal works while       *)
(* another request is on its way.                                          *)
THEOREM EveryChangeAudited == Spec /\ []RecordsFirst => []AuditComplete
<1>1. Init => AllStillThere /\ AuditComplete
  BY DEF Init, AllStillThere, StillThere, Idle, AuditComplete
<1>2. Spec /\ []RecordsFirst => []AloneInv
  BY FirstIsAlone, AlwaysAloneInv, PTL
<1> QED
  BY <1>1, <1>2, NextStillThere, PTL DEF Spec
=============================================================================
