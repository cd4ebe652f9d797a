---------------------------- MODULE Registration ----------------------------
(***************************************************************************)
(* Creating and editing accounts: POST /users and PUT /users/{id}          *)
(* (services/user_management_service.py), and what signing in by           *)
(* university id or email relies on (auth_service.py, _find_by_username).  *)
(*                                                                         *)
(* A value is checked for duplicates as it was sent and stored in another  *)
(* form: a university id stripped, an email in lower case.  The check and  *)
(* the commit are statements of their own; between them other requests     *)
(* commit.                                                                 *)
(***************************************************************************)
EXTENDS Naturals

CONSTANTS
  Requests,        \* threads of the server
  AccountIds,      \* internal ids uuid4 may give
  NoAccount,       \* nothing loaded yet
  UniversityIds,   \* university ids as clients may spell them, blanks included
  Emails,          \* emails as clients may spell them
  Kinds,           \* values of the fields nothing else depends on: name, account_type
  NotSent,         \* a field an update leaves out
  Names,           \* path parameters {user_id} clients may send
  Strip(_),        \* str.strip()
  Lower(_),        \* str.lower()
  StartUsers,      \* the accounts at the start
  MaxAccepted      \* bound on the requests of a behaviour

Account == [id : AccountIds, uid : UniversityIds, email : Emails, kind : Kinds]

(* The primary key and the UNIQUE columns of models/user.py.               *)
Distinct(accounts) ==
  \A u, v \in accounts : u.id = v.id \/ u.uid = v.uid \/ u.email = v.email => u = v

Stored(u) == Strip(u.uid) = u.uid /\ Lower(u.email) = u.email

ASSUME FormAssumption ==
  /\ \A n \in UniversityIds : Strip(n) \in UniversityIds /\ Strip(Strip(n)) = Strip(n)
  /\ \A e \in Emails : Lower(e) \in Emails /\ Lower(Lower(e)) = Lower(e)
  /\ UniversityIds \cap Emails = {}       \* IDENTIFIER_PATTERN has no "@"
  /\ NotSent \notin Emails \cup Kinds
  /\ NoAccount \notin Account
  /\ MaxAccepted \in Nat

ASSUME StartAssumption ==
  /\ StartUsers \subseteq Account
  /\ Distinct(StartUsers)
  /\ \A u \in StartUsers : Stored(u)

VARIABLES
  users,      \* the rows of users
  usedIds,    \* internal ids given so far; uuid4 gives none twice
  req,        \* what each thread is doing, and its last answer
  accepted    \* how many requests have begun

vars == <<users, usedIds, req, accepted>>

Commands ==
  [op : {"create"}, uid : UniversityIds, email : Emails, kind : Kinds]
    \cup [op : {"update"}, name : Names, email : Emails \cup {NotSent},
          kind : Kinds \cup {NotSent}]

Answers == {"none", "ok", "conflict", "not found", "server error"}

Idle(answer) == [pc |-> "idle", answer |-> answer]

(* target is the row as the session has it.  alone is history: nothing     *)
(* else has been committed since the request began.                        *)
Session ==
  [pc : {"uid", "email", "write", "reread"}, cmd : Commands,
   target : Account \cup {NoAccount}, alone : BOOLEAN]

(* find_user_or_404: by internal id, else by university id, as sent.       *)
Finds(n, u) ==
  /\ u \in users
  /\ \/ u.id = n
     \/ u.uid = n /\ \A v \in users : v.id # n

(* _find_by_username: stripped, then by email in lower case.               *)
SignsIn(username) ==
  IF username \in Emails
  THEN {u \in users : u.email = Lower(username)}
  ELSE {u \in users : u.uid = Strip(username)}

-----------------------------------------------------------------------------
Init ==
  /\ users = StartUsers
  /\ usedIds = {u.id : u \in StartUsers}
  /\ req = [r \in Requests |-> Idle("none")]
  /\ accepted = 0

Waiting(r) == req[r].pc = "idle"

(* r moves on; with a commit of r, the other requests were not alone.      *)
Goto(r, q) == req' = [req EXCEPT ![r] = q]

Disturbed(s) == IF Waiting(s) THEN req[s] ELSE [req[s] EXCEPT !.alone = FALSE]

Commits(r, q) == req' = [s \in Requests |-> IF s = r THEN q ELSE Disturbed(s)]

Answer(r, a) == Goto(r, Idle(a))

Begin(r) ==
  /\ Waiting(r)
  /\ accepted < MaxAccepted
  /\ accepted' = accepted + 1

(* An administrator's POST /users with a well-formed university id.        *)
BeginCreate(r, c) ==
  /\ Begin(r)
  /\ c.op = "create"
  /\ Goto(r, [pc |-> "uid", cmd |-> c, target |-> NoAccount, alone |-> TRUE])
  /\ UNCHANGED <<users, usedIds>>

(* An administrator's PUT /users/{id}: find_user_or_404.                   *)
BeginUpdate(r, c) ==
  /\ Begin(r)
  /\ c.op = "update"
  /\ \/ /\ \A u \in users : ~Finds(c.name, u)
        /\ Answer(r, "not found")
     \/ \E u \in users :
          /\ Finds(c.name, u)
          /\ Goto(r, [pc |-> IF c.email = NotSent THEN "write" ELSE "email",
                      cmd |-> c, target |-> u, alone |-> TRUE])
  /\ UNCHANGED <<users, usedIds>>

(* create_user, step 2: 409 UNIVERSITY_ID_ALREADY_EXISTS.                  *)
CheckUniversityId(r) ==
  /\ req[r].pc = "uid"
  /\ IF \E u \in users : u.uid = req[r].cmd.uid
     THEN Answer(r, "conflict")
     ELSE Goto(r, [req[r] EXCEPT !.pc = "email"])
  /\ UNCHANGED <<users, usedIds, accepted>>

(* Faulty variant: an update does not look for the email.                  *)
TakenForCreate(q) == q.cmd.op = "create" /\ \E u \in users : u.email = q.cmd.email

(* The email is looked up as sent by a create, in lower case by an update. *)
Taken(q) ==
  IF q.cmd.op = "create"
  THEN \E u \in users : u.email = q.cmd.email
  ELSE \E u \in users : u.email = Lower(q.cmd.email) /\ u.id # q.target.id

(* 409 EMAIL_ALREADY_EXISTS.                                               *)
CheckEmail(r) ==
  /\ req[r].pc = "email"
  /\ IF Taken(req[r])
     THEN Answer(r, "conflict")
     ELSE Goto(r, [req[r] EXCEPT !.pc = "write"])
  /\ UNCHANGED <<users, usedIds, accepted>>

(* Faulty variant: the email is stored as it was sent.                     *)
NewAccountAsSent(i, c) == [id |-> i, uid |-> Strip(c.uid), email |-> c.email, kind |-> c.kind]

NewAccount(i, c) == [id |-> i, uid |-> Strip(c.uid), email |-> Lower(c.email), kind |-> c.kind]

(* The INSERT; a UNIQUE column that clashes is an unhandled error, 500.    *)
Insert(r) ==
  /\ req[r].pc = "write" /\ req[r].cmd.op = "create"
  /\ \E i \in AccountIds \ usedIds :
       LET u == NewAccount(i, req[r].cmd)
       IN /\ usedIds' = usedIds \cup {i}
          /\ IF Distinct(users \cup {u})
             THEN /\ users' = users \cup {u}
                  /\ Commits(r, [req[r] EXCEPT !.pc = "reread", !.target = u])
             ELSE users' = users /\ Answer(r, "server error")
  /\ UNCHANGED accepted

(* The bound: no id is left.                                               *)
OutOfIds(r) ==
  /\ req[r].pc = "write" /\ req[r].cmd.op = "create"
  /\ usedIds = AccountIds
  /\ Answer(r, "server error")
  /\ UNCHANGED <<users, usedIds, accepted>>

(* Faulty variants: every column is written from the copy, account_type is *)
(* forgotten, or a field that was left out is not told from one that was   *)
(* sent.                                                                   *)
EditedWhole(q, u) ==
  [u EXCEPT !.email = IF q.cmd.email = NotSent THEN q.target.email ELSE Lower(q.cmd.email),
            !.kind = IF q.cmd.kind = NotSent THEN q.target.kind ELSE q.cmd.kind]

EditedEmailOnly(q, u) ==
  [u EXCEPT !.email = IF q.cmd.email = NotSent THEN @ ELSE Lower(q.cmd.email)]

(* The UPDATE sets the columns that were sent and differ from the copy.    *)
Edited(q, u) ==
  [u EXCEPT !.email = IF q.cmd.email = NotSent \/ Lower(q.cmd.email) = q.target.email
                      THEN @ ELSE Lower(q.cmd.email),
            !.kind = IF q.cmd.kind = NotSent \/ q.cmd.kind = q.target.kind
                     THEN @ ELSE q.cmd.kind]

(* updated_at always changes, so an account deleted since it was loaded is *)
(* a StaleDataError, 500.                                                  *)
Update(r) ==
  /\ req[r].pc = "write" /\ req[r].cmd.op = "update"
  /\ LET q == req[r]
         old == {u \in users : u.id = q.target.id}
         new == (users \ old) \cup {Edited(q, u) : u \in old}
     IN IF old # {} /\ Distinct(new)
        THEN users' = new /\ Commits(r, [q EXCEPT !.pc = "reread"])
        ELSE users' = users /\ Answer(r, "server error")
  /\ UNCHANGED <<usedIds, accepted>>

(* The service reads the row again and answers; the audit record is a      *)
(* further commit that leaves users alone.                                 *)
Reread(r) ==
  /\ req[r].pc = "reread"
  /\ Answer(r, IF \E u \in users : u.id = req[r].target.id THEN "ok" ELSE "server error")
  /\ UNCHANGED <<users, usedIds, accepted>>

(* Another administrator deletes the account (AccountAdministration).      *)
Delete(u) ==
  /\ accepted < MaxAccepted
  /\ accepted' = accepted + 1
  /\ users' = users \ {u}
  /\ req' = [s \in Requests |-> Disturbed(s)]
  /\ UNCHANGED usedIds

Step(r) ==
  \/ CheckUniversityId(r) \/ CheckEmail(r)
  \/ Insert(r) \/ OutOfIds(r) \/ Update(r) \/ Reread(r)

Next ==
  \/ \E r \in Requests, c \in Commands : BeginCreate(r, c) \/ BeginUpdate(r, c)
  \/ \E r \in Requests : Step(r)
  \/ \E u \in users : Delete(u)

Spec == Init /\ [][Next]_vars

-----------------------------------------------------------------------------
(* Every variable stays in its range, and a session that writes has loaded *)
(* what it writes (user_management_service.py).                            *)
TypeOK ==
  /\ users \subseteq Account
  /\ usedIds \subseteq AccountIds
  /\ req \in [Requests -> Session \cup [pc : {"idle"}, answer : Answers]]
  /\ \A r \in Requests : req[r].pc = "write" /\ req[r].cmd.op = "update" => req[r].target # NoAccount
  /\ accepted \in 0 .. MaxAccepted

(* auth_service.py: an account can sign in with its university id or its   *)
(* email in any spelling that means it, and nobody else answers to those:  *)
(* what create_user and update_user store is what _find_by_username seeks. *)
SignInFindsAccount ==
  \A u \in users :
    /\ \A n \in UniversityIds : Strip(n) = Strip(u.uid) => SignsIn(n) = {u}
    /\ \A e \in Emails : Lower(e) = Lower(u.email) => SignsIn(e) = {u}

Ends(r, a) == ~Waiting(r) /\ req'[r] = Idle(a)

AsStored(c) == c.op = "create" => Strip(c.uid) = c.uid /\ Lower(c.email) = c.email

OutOfBound(r) == req[r].cmd.op = "create" /\ usedIds = AccountIds

(* API_CONTRACT.md: a duplicate is a 409.  Without overlap it is, if the   *)
(* values were sent in the form in which they are stored.                  *)
ConflictsNamed ==
  [][\A r \in Requests :
       Ends(r, "server error") /\ req[r].alone /\ AsStored(req[r].cmd) => OutOfBound(r)]_vars

(* API_CONTRACT.md: a duplicate is a 409, however it is spelled.           *)
DuplicatesAre409 ==
  [][\A r \in Requests : Ends(r, "server error") /\ req[r].alone => OutOfBound(r)]_vars

(* PUT /users/{id}: when nothing overlaps, an update that is answered with *)
(* 200 has stored what it was sent.                                        *)
Shows(q, u) ==
  /\ u.id = q.target.id
  /\ q.cmd.email # NotSent => u.email = Lower(q.cmd.email)
  /\ q.cmd.kind # NotSent => u.kind = q.cmd.kind

UpdateTakesEffect ==
  [][\A r \in Requests :
       Ends(r, "ok") /\ req[r].cmd.op = "update" /\ req[r].alone =>
         \E u \in users : Shows(req[r], u)]_vars

(* An update leaves alone what it was not sent, and every other account,   *)
(* whatever was committed since it loaded the row.                         *)
Keeps(q, u, v) ==
  /\ v.id = u.id /\ v.uid = u.uid
  /\ q.cmd.email = NotSent => v.email = u.email
  /\ q.cmd.kind = NotSent => v.kind = u.kind

OnlySentFields ==
  [][\A r \in Requests :
       req[r].pc = "write" /\ req'[r].pc # "write" /\ req[r].cmd.op = "update" =>
         \A u \in users : \E v \in users' :
           IF u.id = req[r].target.id THEN Keeps(req[r], u, v) ELSE u = v]_vars
=============================================================================
