------------------------ MODULE AccountAdministration ------------------------
(***************************************************************************)
(* Administrators changing accounts: PATCH /users/{id}/status, DELETE      *)
(* /users/{id} and the three role endpoints, with the rule that keeps an   *)
(* active ADMIN (services/admin_guard.py).                                 *)
(*                                                                         *)
(* FastAPI runs each request in a thread of its own with a database        *)
(* session of its own, and nothing locks rows, so a request is a sequence  *)
(* of steps, one per SQL statement whose answer it depends on; requests    *)
(* interleave between those steps.  What a session has loaded is kept in   *)
(* the request's record, because the later steps use the copy.             *)
(***************************************************************************)
EXTENDS Naturals, FiniteSets

CONSTANTS
  Users,          \* accounts that exist at the start
  NoUser,         \* a target not looked up yet
  Roles,          \* role names of reference_data.py
  Admin,          \* the role the guard is about
  Requests,       \* threads of the server, each serving one request at a time
  Names,          \* path parameters {user_id} clients may send
  IdOf, UidOf,    \* an account's internal id and its university id
  Lower(_),       \* str.lower(), used by the guards but not by the queries
  Demo,           \* protected demo accounts; {} when PROTECT_DEMO_USERS=false
  StartStatus,    \* the accounts' status at the start
  StartLinks,     \* rows of user_roles at the start
  MaxRowId,       \* bound on user_roles.id
  MaxAccepted,    \* bound on the number of requests of a behaviour
  ReuseRowIds,    \* TRUE: SQLite gives max(id)+1; FALSE: a PostgreSQL sequence
  MayCrash        \* whether the process may die

RowIds == 1 .. MaxRowId

UserRole == [id : RowIds, user : Users, role : Roles]

Status == {"ACTIVE", "INACTIVE", "DELETED"}    \* DELETED: the row is gone

AtMostOne(S) == \A x, y \in S : x = y

(* One row per (user, role), one per id, and no row of a deleted account.  *)
Integrity(status, links) ==
  /\ \A l, m \in links : l.id = m.id \/ (l.user = m.user /\ l.role = m.role) => l = m
  /\ \A l \in links : status[l.user] # "DELETED"

ASSUME AccountAssumption ==
  /\ NoUser \notin Users
  /\ Admin \in Roles
  /\ MaxRowId \in Nat /\ MaxAccepted \in Nat
  /\ ReuseRowIds \in BOOLEAN /\ MayCrash \in BOOLEAN
  /\ Demo \subseteq Users
  /\ \A u, v \in Users : IdOf[u] = IdOf[v] \/ UidOf[u] = UidOf[v] => u = v

ASSUME StartAssumption ==
  /\ StartStatus \in [Users -> {"ACTIVE", "INACTIVE"}]
  /\ StartLinks \subseteq UserRole
  /\ Integrity(StartStatus, StartLinks)
  /\ \E l \in StartLinks : l.role = Admin /\ StartStatus[l.user] = "ACTIVE"

VARIABLES
  status,      \* users.status
  userRoles,   \* the rows of user_roles
  lastRowId,   \* the sequence behind user_roles.id (PostgreSQL)
  accepted,    \* how many requests have passed the first checks
  req,         \* what each thread is doing, with the objects its session holds
  lostAudit    \* history: a request committed a change and ended without its record

vars == <<status, userRoles, lastRowId, accepted, req, lostAudit>>

-----------------------------------------------------------------------------
(* The commands and what a request remembers.                              *)

Commands ==
  [op : {"assign", "revoke"}, role : Roles]
    \cup [op : {"replace"}, role : Roles, newRole : Roles]
    \cup [op : {"activate", "deactivate", "delete"}]

RoleOps == {"assign", "revoke", "replace"}

(* Faulty variant: the replace route forgets the guard.                    *)
GuardedUnlessReplace(c) ==
  \/ c.op \in {"deactivate", "delete"}
  \/ c.op = "revoke" /\ c.role = Admin

(* The routes that call ensure_admin_remains before the service.           *)
Guarded(c) ==
  \/ c.op \in {"deactivate", "delete"}
  \/ c.op = "revoke" /\ c.role = Admin
  \/ c.op = "replace" /\ c.role = Admin /\ c.newRole # Admin

BeforeLoad == {"guard", "count", "load"}

AfterLoad == {"link", "newlink", "write", "refresh", "audit"}

Idle == [pc |-> "idle"]

(* actor is current_user; target is the User the service found, was and    *)
(* seen its status and role rows as loaded; row is the UserRole found.     *)
Session ==
  [pc : BeforeLoad \cup AfterLoad, actor : Users, name : Names, cmd : Commands,
   target : Users \cup {NoUser}, was : Status, seen : SUBSET UserRole,
   row : RowIds \cup {0}]

InFlight == {q \in Session : q.target = NoUser <=> q.pc \in BeforeLoad}

Exists(u) == status[u] # "DELETED"

LinksOf(u) == {l \in userRoles : l.user = u}

HoldsAdmin(links) == \E l \in links : l.role = Admin

IsActiveAdmin(u) == status[u] = "ACTIVE" /\ HoldsAdmin(LinksOf(u))

ActiveAdmins == {u \in Users : IsActiveAdmin(u)}

(* find_user_or_404: by internal id first, then by university id.          *)
Finds(n, u) ==
  /\ Exists(u)
  /\ \/ IdOf[u] = n
     \/ UidOf[u] = n /\ \A v \in Users : Exists(v) => IdOf[v] # n

(* Faulty variant: PROTECTED_IDENTIFIERS without the university ids.       *)
ProtectedById(n) == \E d \in Demo : Lower(n) = Lower(IdOf[d])

Protected(n) == \E d \in Demo : Lower(n) \in {Lower(IdOf[d]), Lower(UidOf[d])}

(* Faulty variant: ensure_not_self compares the internal id only.          *)
NamesSelfById(n, u) == Lower(n) = Lower(IdOf[u])

NamesSelf(n, u) == Lower(n) \in {Lower(IdOf[u]), Lower(UidOf[u])}

-----------------------------------------------------------------------------
Init ==
  /\ status = StartStatus
  /\ userRoles = StartLinks
  /\ lastRowId \in RowIds \cup {0}
  /\ \A l \in userRoles : l.id <= lastRowId
  /\ lastRowId = 0 \/ \E l \in userRoles : l.id = lastRowId
  /\ accepted = 0
  /\ req = [r \in Requests |-> Idle]
  /\ lostAudit = FALSE

Goto(r, step) == req' = [req EXCEPT ![r].pc = step]

(* The answer is sent and the session closed.                              *)
Finish(r) == req' = [req EXCEPT ![r] = Idle]

directory == <<status, userRoles, lastRowId>>

(* A signed-in administrator sends a command that passes the checks made   *)
(* before the service: RoleChecker(["ADMIN"]), the demo protection and     *)
(* ensure_not_self.  current_user stays loaded, with the roles it had.     *)
Begin(r, a, n, c) ==
  /\ req[r] = Idle
  /\ accepted < MaxAccepted
  /\ accepted' = accepted + 1
  /\ IsActiveAdmin(a)
  /\ ~Protected(n)
  /\ c.op \in {"deactivate", "delete"} => ~NamesSelf(n, a)
  /\ req' = [req EXCEPT ![r] =
       [pc |-> IF Guarded(c) THEN "guard" ELSE "load", actor |-> a, name |-> n,
        cmd |-> c, target |-> NoUser, was |-> "ACTIVE", seen |-> LinksOf(a), row |-> 0]]
  /\ UNCHANGED <<directory, lostAudit>>

NotFound(r) ==
  /\ req[r].pc \in {"guard", "load"}
  /\ \A u \in Users : ~Finds(req[r].name, u)
  /\ Finish(r)
  /\ UNCHANGED <<directory, accepted, lostAudit>>

(* ensure_admin_remains, first query.  The object of the actor itself is   *)
(* the one loaded at sign-in: an active administrator.                     *)
GuardLoad(r) ==
  /\ req[r].pc = "guard"
  /\ \E u \in Users :
       /\ Finds(req[r].name, u)
       /\ Goto(r, IF u = req[r].actor \/ IsActiveAdmin(u) THEN "count" ELSE "load")
  /\ UNCHANGED <<directory, accepted, lostAudit>>

(* ensure_admin_remains, second query: 409 LAST_ADMIN or go on.            *)
GuardCount(r) ==
  /\ req[r].pc = "count"
  /\ IF AtMostOne(ActiveAdmins) THEN Finish(r) ELSE Goto(r, "load")
  /\ UNCHANGED <<directory, accepted, lostAudit>>

(* The service looks the account up again.  The actor is already in the    *)
(* session's identity map, so it keeps the attributes it was loaded with.  *)
Load(r) ==
  /\ req[r].pc = "load"
  /\ \E u \in Users :
       LET q == req[r]
       IN /\ Finds(q.name, u)
          /\ req' = [req EXCEPT ![r] =
               [q EXCEPT !.target = u,
                         !.pc = IF q.cmd.op \in RoleOps THEN "link" ELSE "write",
                         !.was = IF u = q.actor THEN q.was ELSE status[u],
                         !.seen = IF u = q.actor THEN q.seen ELSE LinksOf(u)]]
  /\ UNCHANGED <<directory, accepted, lostAudit>>

(* get_user_role_link for the role the command names.                      *)
FindLink(r) ==
  /\ req[r].pc = "link"
  /\ LET q == req[r]
         found == {l \in userRoles : l.user = q.target /\ l.role = q.cmd.role}
     IN IF q.cmd.op = "assign"
        THEN IF found = {} THEN Goto(r, "write")
                           ELSE Finish(r)               \* ROLE_ALREADY_ASSIGNED
        ELSE \/ found = {} /\ Finish(r)                 \* ROLE_NOT_ASSIGNED
             \/ \E l \in found :
                  req' = [req EXCEPT ![r] =
                    [q EXCEPT !.row = l.id,
                              !.pc = IF q.cmd.op = "replace" THEN "newlink" ELSE "write"]]
  /\ UNCHANGED <<directory, accepted, lostAudit>>

(* update_user_role refuses a role the account already holds.              *)
FindNewLink(r) ==
  /\ req[r].pc = "newlink"
  /\ LET q == req[r]
     IN IF /\ q.cmd.newRole # q.cmd.role
           /\ \E l \in userRoles : l.user = q.target /\ l.role = q.cmd.newRole
        THEN Finish(r)
        ELSE Goto(r, "write")
  /\ UNCHANGED <<directory, accepted, lostAudit>>

-----------------------------------------------------------------------------
(* The writes: one flush and commit each.  The database refuses a row that *)
(* breaks UNIQUE(user_id, role_id) or the foreign key, and SQLAlchemy an   *)
(* UPDATE that matches no row (StaleDataError): 500, nothing committed.    *)

Writing(r, op) == req[r].pc = "write" /\ req[r].cmd.op = op

(* Without AUTOINCREMENT SQLite gives a new row max(id) + 1; also a faulty *)
(* variant of NextRowId for the database that has a sequence.              *)
HighestIdPlusOne(i) ==
  (\A l \in userRoles : l.id < i) /\ (i = 1 \/ \E l \in userRoles : l.id = i - 1)

NextRowId(i) ==
  IF ReuseRowIds THEN HighestIdPlusOne(i) ELSE i = lastRowId + 1

Assign(r) ==
  /\ Writing(r, "assign")
  /\ \E i \in RowIds :
       LET q == req[r]
           rows == userRoles \cup {[id |-> i, user |-> q.target, role |-> q.cmd.role]}
       IN /\ NextRowId(i)
          /\ lastRowId' = IF ReuseRowIds THEN lastRowId ELSE i
          /\ IF Integrity(status, rows)
             THEN /\ userRoles' = rows
                  /\ req' = [req EXCEPT ![r] = [q EXCEPT !.row = i, !.pc = "refresh"]]
             ELSE userRoles' = userRoles /\ Finish(r)
  /\ UNCHANGED <<status, accepted, lostAudit>>

(* The bound: no id is left, and the insert fails.                         *)
OutOfRowIds(r) ==
  /\ Writing(r, "assign")
  /\ \A i \in RowIds : ~NextRowId(i)
  /\ Finish(r)
  /\ UNCHANGED <<directory, accepted, lostAudit>>

(* Faulty variant: the account's whole role list is cleared.               *)
RevokeEveryRole(r) ==
  /\ Writing(r, "revoke")
  /\ userRoles' = {l \in userRoles : l.user # req[r].target}
  /\ Goto(r, "refresh")
  /\ UNCHANGED <<status, lastRowId, accepted, lostAudit>>

(* DELETE FROM user_roles WHERE id = ...; no row is only a warning.        *)
Revoke(r) ==
  /\ Writing(r, "revoke")
  /\ userRoles' = {l \in userRoles : l.id # req[r].row}
  /\ Goto(r, "refresh")
  /\ UNCHANGED <<status, lastRowId, accepted, lostAudit>>

(* existing_link.role_id = new_role.id is written only when it changes the *)
(* value the session loaded: the row as it came with the user's roles, or  *)
(* else as FindLink found it, with the old role.                           *)
NothingToWrite(q) ==
  \/ \E l \in q.seen : l.id = q.row /\ l.role = q.cmd.newRole
  \/ q.cmd.newRole = q.cmd.role /\ \A l \in q.seen : l.id # q.row

Replace(r) ==
  /\ Writing(r, "replace")
  /\ LET q == req[r]
         old == {l \in userRoles : l.id = q.row}
         rows == (userRoles \ old) \cup {[l EXCEPT !.role = q.cmd.newRole] : l \in old}
     IN IF NothingToWrite(q)
        THEN userRoles' = userRoles /\ Goto(r, "refresh")
        ELSE IF old # {} /\ Integrity(status, rows)
             THEN userRoles' = rows /\ Goto(r, "refresh")
             ELSE userRoles' = userRoles /\ Finish(r)
  /\ UNCHANGED <<status, lastRowId, accepted, lostAudit>>

NewStatus(q) == IF q.cmd.op = "activate" THEN "ACTIVE" ELSE "INACTIVE"

(* update_user_status: updated_at always changes, so the row must exist;   *)
(* status is written when it differs from the one loaded.                  *)
SetStatus(r) ==
  /\ Writing(r, "activate") \/ Writing(r, "deactivate")
  /\ LET q == req[r]
     IN IF Exists(q.target)
        THEN /\ status' = [status EXCEPT ![q.target] = IF q.was = NewStatus(q) THEN @ ELSE NewStatus(q)]
             /\ Goto(r, "refresh")
        ELSE status' = status /\ Finish(r)
  /\ UNCHANGED <<userRoles, lastRowId, accepted, lostAudit>>

(* Faulty variant: foreign keys are off, so nothing cascades.              *)
DeleteWithoutCascade(r) ==
  /\ Writing(r, "delete")
  /\ userRoles' = {l \in userRoles : \A s \in req[r].seen : s.id # l.id}
  /\ status' = [status EXCEPT ![req[r].target] = "DELETED"]
  /\ Goto(r, "audit")
  /\ UNCHANGED <<lastRowId, accepted, lostAudit>>

(* The role rows loaded with the user go by id, the others by ON DELETE    *)
(* CASCADE.                                                                *)
Delete(r) ==
  /\ Writing(r, "delete")
  /\ LET q == req[r]
     IN /\ userRoles' = {l \in userRoles : l.user # q.target /\ \A s \in q.seen : s.id # l.id}
        /\ status' = [status EXCEPT ![q.target] = "DELETED"]
        /\ Goto(r, "audit")
  /\ UNCHANGED <<lastRowId, accepted, lostAudit>>

-----------------------------------------------------------------------------
(* After the commit every loaded object is expired.  The service reads the *)
(* user and, for assign and replace, the link again; a row deleted since   *)
(* then ends the request with a 500 and no audit record.                   *)
Refresh(r) ==
  /\ req[r].pc = "refresh"
  /\ LET q == req[r]
     IN IF /\ Exists(q.target)
           /\ q.cmd.op \in {"assign", "replace"} => \E l \in userRoles : l.id = q.row
        THEN Goto(r, "audit") /\ UNCHANGED lostAudit
        ELSE Finish(r) /\ lostAudit' = TRUE
  /\ UNCHANGED <<directory, accepted>>

(* AuditService.record reads current_user.id, then commits on its own.     *)
Audit(r) ==
  /\ req[r].pc = "audit"
  /\ lostAudit' = (lostAudit \/ ~Exists(req[r].actor))
  /\ Finish(r)
  /\ UNCHANGED <<directory, accepted>>

(* The process dies: every session is gone and the tables stay.            *)
Crash ==
  /\ MayCrash
  /\ \E r \in Requests : req[r] # Idle
  /\ req' = [r \in Requests |-> Idle]
  /\ UNCHANGED <<directory, accepted, lostAudit>>

Step(r) ==
  \/ NotFound(r) \/ GuardLoad(r) \/ GuardCount(r) \/ Load(r)
  \/ FindLink(r) \/ FindNewLink(r)
  \/ Assign(r) \/ OutOfRowIds(r) \/ Revoke(r) \/ Replace(r) \/ SetStatus(r) \/ Delete(r)
  \/ Refresh(r) \/ Audit(r)

Next ==
  \/ \E r \in Requests, a \in Users, n \in Names, c \in Commands : Begin(r, a, n, c)
  \/ \E r \in Requests : Step(r)
  \/ Crash

Spec == Init /\ [][Next]_vars

-----------------------------------------------------------------------------
(* Every variable stays in its range, and a thread is idle or holds one    *)
(* complete request (routes/users.py, routes/roles.py).                    *)
TypeOK ==
  /\ status \in [Users -> Status]
  /\ userRoles \subseteq UserRole
  /\ lastRowId \in RowIds \cup {0}
  /\ accepted \in 0 .. MaxAccepted
  /\ req \in [Requests -> InFlight \cup {Idle}]
  /\ lostAudit \in BOOLEAN

(* Whatever order the commits of overlapping requests come in, user_roles  *)
(* has one row per id and per (user, role), and none of a deleted account: *)
(* the checks in the services, the constraints of models/role.py and the   *)
(* cascade together (README, "one row per user/role").                     *)
LinkIntegrity == Integrity(status, userRoles)

(* admin_guard.py: "at least one active ADMIN must always remain".         *)
AdminRemains == ActiveAdmins # {}

Pairs == {<<l.user, l.role>> : l \in userRoles}

Writes(r) == req[r].pc = "write" /\ req'[r] # req[r]

(* A role request that commits changes the assignments exactly as its      *)
(* command says: assign adds the pair, revoke removes it, replace swaps    *)
(* it, and no other assignment of any account moves (the answer and the    *)
(* audit record say so, role_assignment_service.py).                       *)
RoleWriteExact ==
  [][\A r \in Requests :
       Writes(r) /\ req'[r].pc = "refresh" /\ req[r].cmd.op \in RoleOps =>
         LET c == req[r].cmd
             t == req[r].target
         IN Pairs' = CASE c.op = "assign"  -> Pairs \cup {<<t, c.role>>}
                       [] c.op = "revoke"  -> Pairs \ {<<t, c.role>>}
                       [] c.op = "replace" -> (Pairs \ {<<t, c.role>>}) \cup {<<t, c.newRole>>}]_vars

(* README "Administrators": no request of an administrator deactivates or  *)
(* deletes that same account, by whichever identifier it names it and      *)
(* whatever happens to the accounts between the check and the write.       *)
RemovesSelf(r) ==
  /\ Writes(r)
  /\ status[req[r].actor] = "ACTIVE"
  /\ status'[req[r].actor] # "ACTIVE"

NoSelfRemoval == [][\A r \in Requests : ~RemovesSelf(r)]_vars

Touches(u) == status'[u] # status[u] \/ LinksOf(u)' # LinksOf(u)

(* demo_accounts.py: while the protection is on, no command changes the    *)
(* status or the roles of a demo account, even though the check reads the  *)
(* path parameter and the write happens on row ids found later.            *)
DemoUntouched == [][\A d \in Demo : ~Touches(d)]_vars

(* A request changes only the account its path parameter names: row ids it *)
(* kept from a query are still rows of that account when it writes.        *)
TouchesAnother(r) ==
  /\ Writes(r)
  /\ \E u \in Users : Touches(u) /\ req[r].name \notin {IdOf[u], UidOf[u]}

OnlyNamedAccount == [][\A r \in Requests : ~TouchesAnother(r)]_vars

(* The abstract directory, with role rows seen as pairs.                   *)
Directory == INSTANCE AtomicDirectory WITH
  pairs <- Pairs, StartPairs <- {<<l.user, l.role>> : l \in StartLinks}

(* Seen from outside, a request's statements amount to one step or none:   *)
(* the command as asked, by somebody who still is an active administrator, *)
(* on an account that is not a demo account, never the last administrator  *)
(* (routes/users.py, routes/roles.py with admin_guard.py).                 *)
ActsAtOnce == Directory!Spec

(* README "Audit trail": a committed change has its audit record, once the *)
(* request that made it has ended; a request that dies with the process    *)
(* has not.                                                                *)
AuditComplete == ~lostAudit
=============================================================================
