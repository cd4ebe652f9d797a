-------------------------------- MODULE Access --------------------------------
(***************************************************************************)
(* Who may do what, and what the reading endpoints answer                  *)
(* (dependencies/auth.py, reference_data.py, the services for profiles,    *)
(* validation and the role catalogue), while administrators work.          *)
(*                                                                         *)
(* A request loads its caller with the roles in one statement (joinedload) *)
(* and decides on that copy, several statements and a call to the          *)
(* Directory later.  Requests do not disturb each other except by editing  *)
(* accounts, so one is followed and the rest are changes from outside. Its *)
(* token is one that get_current_user accepts (Sessions), and the ids and  *)
(* university ids of different accounts differ (AccountAdministration).    *)
(***************************************************************************)
EXTENDS Naturals, Sequences

CONSTANTS
  Users,
  Demo,           \* protected demo accounts; {} when PROTECT_DEMO_USERS=false
  RolesInUse,     \* the roles accounts may be given
  StartAccounts,  \* the accounts' states at the start
  NewGrants,      \* grants the seed of another release adds
  MaxChanges      \* bound on the changes of a behaviour

-----------------------------------------------------------------------------
(* reference_data.py.                                                      *)

(* In the order of the catalogue, which is sorted.                         *)
RoleNames ==
  <<"ACADEMIC_STAFF", "ADMIN", "ADMINISTRATIVE_STAFF", "EVENT_ORGANIZER", "RESOURCE_MANAGER",
    "SERVICE_DESK_OFFICER", "STAFF", "STUDENT", "TECHNICIAN">>

ROLES == {RoleNames[i] : i \in DOMAIN RoleNames}

PERMISSIONS ==
  {"profile:read_own", "users:read", "users:manage", "users:manage_status",
   "roles:read", "roles:assign", "audit:read"}

(* Faulty variant: STAFF is given too little.                              *)
ROLE_PERMISSIONS_ADMIN_ONLY ==
  [r \in ROLES |-> IF r = "ADMIN" THEN PERMISSIONS ELSE {"profile:read_own"}]

ROLE_PERMISSIONS ==
  [r \in ROLES |->
     CASE r = "ADMIN" -> PERMISSIONS
       [] r = "STAFF" -> {"profile:read_own", "users:read", "roles:read"}
       [] OTHER -> {"profile:read_own"}]

(* The endpoints with a RoleChecker, by the permission that describes them *)
(* in the catalogue, and the roles they let in.                            *)
ALLOWED_ROLES ==
  [c \in {"users:read", "users:manage", "users:manage_status", "roles:assign"} |->
     IF c = "users:read" THEN {"ADMIN", "STAFF"} ELSE {"ADMIN"}]

(* The endpoints with a PermissionChecker.                                 *)
REQUIRED_PERMISSIONS == {"users:manage", "roles:read", "audit:read"}

-----------------------------------------------------------------------------
Gone == [there |-> FALSE]

Names == {"first", "second"}

AccountTypes == {"STUDENT", "STAFF"}

Account ==
  [there : {TRUE}, active : BOOLEAN, roles : SUBSET RolesInUse, name : Names, type : AccountTypes]

Grants == SUBSET (ROLES \X PERMISSIONS)

ASSUME AccessAssumption ==
  /\ Users # {} /\ RolesInUse \subseteq ROLES
  /\ Demo \subseteq Users
  /\ StartAccounts \subseteq [Users -> Account \cup {Gone}]
  /\ NewGrants \in Grants /\ \A g \in NewGrants : g[2] \notin DOMAIN ALLOWED_ROLES
  /\ MaxChanges \in Nat

VARIABLES
  account,     \* users with user_roles
  grants,      \* role_permissions
  req,         \* the request
  changes,     \* how often somebody else has changed something
  seen,        \* history: the moments of the request
  told         \* history: the last answer of /auth/me, if nothing has changed since

database == <<account, grants>>

vars == <<database, req, changes, seen, told>>

Query ==
  [kind : {"rule"}, caller : Users, target : Users, ask : DOMAIN ALLOWED_ROLES]
    \cup [kind : {"permission"}, caller : Users, target : Users, ask : REQUIRED_PERMISSIONS]
    \cup [kind : {"me", "profile", "role"}, caller : Users, target : Users, ask : {"nothing"}]
    \cup [kind : {"rename"}, caller : Users, target : Users, ask : {"first", "second", "email"}]
    \cup [kind : {"validate", "legacy"}, caller : Users, target : Users,
          ask : {"nothing", "active"}]

(* Only these have an account in their path; legacy has no caller.         *)
WellFormed(q) == q.kind \in {"profile", "role", "validate"} \/ q.target = q.caller

Steps == {"caller", "codes", "catalogue", "update", "refresh", "target", "directory"}

(* me and them are the User objects of caller and target, of one session;  *)
(* code is the status of the HTTP answer.                                  *)
Request ==
  [pc : Steps \cup {"idle", "answered"}, query : Query, me : Account \cup {Gone},
   them : Account \cup {Gone}, codes : SUBSET PERMISSIONS, listed : 0..Len(RoleNames),
   shown : Grants, code : {"200", "401", "403", "404", "500", "503"}]

Moment == [account : [Users -> Account \cup {Gone}], grants : Grants]

Now == [account |-> account, grants |-> grants]

(* since leaves out what was before the request's own write.               *)
History == [all : SUBSET Moment, since : SUBSET Moment]

(* effective_role_names.                                                   *)
Effective(a) == IF a.roles = {} THEN {a.type} ELSE a.roles

MayList(roles) == roles \cap {"ADMIN", "STAFF"} # {}

(* get_codes_for_roles.                                                    *)
CodesFor(roles, granted) == {g[2] : g \in {h \in granted : h[1] \in roles}}

-----------------------------------------------------------------------------
Fresh(q) ==
  [pc |-> IF q.kind = "legacy" THEN "target" ELSE "caller", query |-> q, me |-> Gone,
   them |-> Gone, codes |-> {}, listed |-> 0, shown |-> {}, code |-> "200"]

(* Between two requests.                                                   *)
Idle == [Fresh(CHOOSE q \in Query : TRUE) EXCEPT !.pc = "idle"]

Init ==
  /\ account \in StartAccounts
  /\ grants = UNION {{r} \X ROLE_PERMISSIONS[r] : r \in ROLES}
  /\ req = Idle
  /\ changes = 0
  /\ seen = [all |-> {}, since |-> {}]
  /\ told = [by |-> {}, codes |-> {}]

Begin(q) ==
  /\ req.pc = "idle"
  /\ WellFormed(q)
  /\ req' = Fresh(q)
  /\ seen' = [all |-> {Now}, since |-> {Now}]
  /\ UNCHANGED <<database, changes, told>>

(* get_db closes the session.                                              *)
Finish ==
  /\ req.pc = "answered"
  /\ req' = Idle
  /\ seen' = [all |-> {}, since |-> {}]
  /\ UNCHANGED <<database, changes, told>>

Goto(pc) == req' = [req EXCEPT !.pc = pc]

Answer(code) == req' = [req EXCEPT !.pc = "answered", !.code = code]

(* Where a request goes once its caller is known to be active.             *)
Proceed(q, me) ==
  \/ /\ q.kind = "rule"
     /\ Answer(IF Effective(me) \cap ALLOWED_ROLES[q.ask] = {} THEN "403" ELSE "200")
  \/ /\ q.kind = "rename" /\ (q.ask = "email" \/ q.caller \in Demo)
     /\ Answer("403")
  \/ /\ q.kind = "rename" /\ q.ask # "email" /\ q.caller \notin Demo
     /\ req' = [req EXCEPT !.pc = "update", !.me = me]
  \/ /\ q.kind \in {"permission", "me"}
     /\ req' = [req EXCEPT !.pc = "codes", !.me = me]
  \/ /\ q.kind \in {"profile", "role", "validate"}
     /\ req' = [req EXCEPT !.pc = "target", !.me = me]

(* Faulty variant: get_current_user without require_active_account.        *)
LoadCallerAnyStatus ==
  /\ req.pc = "caller"
  /\ LET me == account[req.query.caller]
     IN IF me = Gone THEN Answer("401") ELSE Proceed(req.query, me)
  /\ UNCHANGED <<database, changes, seen, told>>

(* get_current_user, require_active_account and RoleChecker.               *)
LoadCaller ==
  /\ req.pc = "caller"
  /\ LET me == account[req.query.caller]
     IN IF me = Gone THEN Answer("401")
        ELSE IF ~me.active THEN Answer("403")
        ELSE Proceed(req.query, me)
  /\ UNCHANGED <<database, changes, seen, told>>

(* PermissionChecker, and the permissions of /auth/me.                     *)
QueryCodes ==
  /\ req.pc = "codes"
  /\ LET q == req.query
         codes == CodesFor(Effective(req.me), grants)
     IN IF q.kind = "me"
        THEN /\ req' = [req EXCEPT !.pc = "answered", !.codes = codes]
             /\ told' = IF seen.all = {Now} THEN [by |-> {q.caller}, codes |-> codes] ELSE told
        ELSE /\ IF q.ask \notin codes THEN Answer("403")
                ELSE Goto(IF q.ask = "roles:read" THEN "catalogue" ELSE "answered")
             /\ UNCHANGED told
  /\ UNCHANGED <<database, changes, seen>>

(* GET /roles: each role's permissions are a query of their own.           *)
ListRole ==
  /\ req.pc = "catalogue"
  /\ LET n == req.listed + 1
     IN req' = [req EXCEPT !.listed = n, !.shown = @ \cup {g \in grants : g[1] = RoleNames[n]},
                           !.pc = IF n = Len(RoleNames) THEN "answered" ELSE @]
  /\ UNCHANGED <<database, changes, seen, told>>

(* update_user for the own name: a row already gone is a 404, one that     *)
(* goes before the UPDATE a 500, which writes the name if it differs from  *)
(* the copy's.                                                             *)
Update ==
  /\ req.pc = "update"
  /\ UNCHANGED <<grants, changes, told>>
  /\ LET u == req.query.caller
     IN \/ /\ account[u] = Gone
           /\ Answer("404") \/ Answer("500")
           /\ UNCHANGED <<account, seen>>
        \/ /\ account[u] # Gone
           /\ account' = IF req.query.ask = req.me.name THEN account
                         ELSE [account EXCEPT ![u].name = req.query.ask]
           /\ Goto("refresh")
           /\ seen' = [all |-> seen.all \cup {Now'}, since |-> {Now'}]

(* db.refresh after the audit record.                                      *)
Refresh ==
  /\ req.pc = "refresh"
  /\ LET me == account[req.query.caller]
     IN IF me = Gone THEN Answer("500") ELSE req' = [req EXCEPT !.pc = "target", !.me = me]
  /\ UNCHANGED <<database, changes, seen, told>>

(* An object the session already has keeps its values; only the roles that *)
(* the commits of a rename expired are loaded anew.                        *)
Loaded(q, me, found) ==
  IF q.kind = "legacy" \/ q.target # q.caller THEN found
  ELSE IF q.kind = "rename" THEN [me EXCEPT !.roles = found.roles]
  ELSE me

(* find_user_or_404 and what the services demand.                          *)
LoadTarget ==
  /\ req.pc = "target"
  /\ LET q == req.query
         found == account[q.target]
         them == Loaded(q, req.me, found)
     IN IF found = Gone THEN Answer("404")
        ELSE IF \/ /\ q.kind = "profile" /\ q.target # q.caller
                   /\ ~MayList(Effective(req.me))
                \/ q.ask = "active" /\ ~them.active
        THEN Answer("403")
        ELSE req' = [req EXCEPT !.them = them,
                       !.pc = IF q.kind \in {"profile", "rename"} THEN "directory" ELSE "answered"]
  /\ UNCHANGED <<database, changes, seen, told>>

(* Faulty variant: without the Directory there is no profile.              *)
LookUpOrFail ==
  /\ req.pc = "directory"
  /\ Answer("200") \/ Answer("503")
  /\ UNCHANGED <<database, changes, seen, told>>

(* Faulty variant: the columns are refreshed after the call, the roles not. *)
LookUpAndRefresh ==
  /\ req.pc = "directory"
  /\ LET u == req.query.target
     IN req' = [req EXCEPT !.pc = "answered",
                  !.them = IF account[u] = Gone THEN @ ELSE [account[u] EXCEPT !.roles = req.them.roles]]
  /\ UNCHANGED <<database, changes, seen, told>>

(* The affiliation, best effort: no answer of the Directory is an error.   *)
LookUp ==
  /\ req.pc = "directory"
  /\ Answer("200")
  /\ UNCHANGED <<database, changes, seen, told>>

Serve ==
  \/ LoadCaller
  \/ QueryCodes
  \/ ListRole
  \/ Update
  \/ Refresh
  \/ LoadTarget
  \/ LookUp
  \/ Finish

-----------------------------------------------------------------------------
(* What others do before a request or while it runs, with one commit each. *)
Change ==
  /\ req.pc # "answered"
  /\ changes < MaxChanges
  /\ changes' = changes + 1
  /\ seen' = IF req.pc # "idle"
             THEN [all |-> seen.all \cup {Now'}, since |-> seen.since \cup {Now'}] ELSE seen
  /\ told' = [by |-> {}, codes |-> {}]
  /\ UNCHANGED req

Becomes(u, a) ==
  /\ account[u] # Gone
  /\ account' = [account EXCEPT ![u] = a]
  /\ UNCHANGED grants
  /\ Change

ChangeStatus(u) == Becomes(u, [account[u] EXCEPT !.active = ~@])

AssignRole(u) == \E r \in RolesInUse : Becomes(u, [account[u] EXCEPT !.roles = @ \cup {r}])

RevokeRole(u) == \E r \in account[u].roles : Becomes(u, [account[u] EXCEPT !.roles = @ \ {r}])

ReplaceRole(u) ==
  \E r \in account[u].roles, new \in RolesInUse \ account[u].roles :
    Becomes(u, [account[u] EXCEPT !.roles = (@ \ {r}) \cup {new}])

(* An administrator's edit sets what it was sent; the email is left out.   *)
Edit(u) ==
  \E n \in Names, t \in AccountTypes : Becomes(u, [account[u] EXCEPT !.name = n, !.type = t])

Delete(u) == Becomes(u, Gone)

SeedRelease ==
  /\ grants' = grants \cup NewGrants
  /\ UNCHANGED account
  /\ Change

Others ==
  \/ \E u \in Users \ Demo :
       account[u] # Gone /\ (ChangeStatus(u) \/ AssignRole(u) \/ RevokeRole(u)
                               \/ ReplaceRole(u) \/ Edit(u) \/ Delete(u))
  \/ SeedRelease

Next ==
  \/ \E q \in Query : Begin(q)
  \/ Serve
  \/ Others

Spec == Init /\ [][Next]_vars

-----------------------------------------------------------------------------
(* Every variable stays in its range.                                      *)
TypeOK ==
  /\ account \in [Users -> Account \cup {Gone}]
  /\ grants \in Grants
  /\ req \in Request
  /\ changes \in 0..MaxChanges
  /\ seen \in History
  /\ told \in [by : SUBSET Users, codes : SUBSET PERMISSIONS]

(* What an endpoint demands of the caller.                                 *)
Entitled(q, accounts, granted) ==
  LET me == accounts[q.caller]
      roles == Effective(me)
  IN q.kind # "legacy" =>
       /\ me # Gone /\ me.active
       /\ q.kind = "rule" => \E r \in roles : r \in ALLOWED_ROLES[q.ask]
       /\ q.kind = "permission" => \E r \in roles : <<r, q.ask>> \in granted
       /\ q.kind = "rename" => q.ask # "email" /\ q.caller \notin Demo
       /\ q.kind = "profile" => q.target = q.caller \/ MayList(roles)

(* An answer of 200 is to a caller who, while the request ran, existed,    *)
(* was active and held the role or permission, at one moment unless the    *)
(* grants changed as well; and a target that had to be active was.         *)
AdmittedWasEntitled ==
  LET q == req.query
  IN req.pc = "answered" /\ req.code = "200" =>
       /\ \E m, n \in seen.all : Entitled(q, m.account, n.grants)
       /\ q.ask = "active" => \E m \in seen.all : m.account[q.target] # Gone
                                                  /\ m.account[q.target].active

(* Nobody is refused without a reason that held while the request ran, and *)
(* a Directory that is down is none.                                       *)
RefusedWasTrue ==
  LET q == req.query
      WasGone(u) == \E m \in seen.all : m.account[u] = Gone
  IN req.pc = "answered" =>
       /\ req.code # "503"
       /\ req.code = "401" => WasGone(q.caller)
       /\ req.code = "404" => WasGone(q.target)
       /\ req.code = "500" => q.kind = "rename" /\ WasGone(q.caller)
       /\ req.code = "403" =>
            \/ \E m, n \in seen.all : /\ m.account[q.caller] # Gone
                                      /\ ~Entitled(q, m.account, n.grants)
            \/ \E m \in seen.all : /\ q.ask = "active"
                                   /\ m.account[q.target] # Gone
                                   /\ ~m.account[q.target].active

(* What is answered was true while the request ran, after its own write if *)
(* it had one: status, name, type and roles at one moment, permissions and *)
(* catalogue as granted, without a grant left out that was there from the  *)
(* beginning.  A rename answers with columns of one moment and role rows   *)
(* of another: the roles it names were effective at one of the two, unless *)
(* meanwhile the account got another type and lost all its roles, which    *)
(* takes more than one change.                                             *)
AnswerWasTrue ==
  LET q == req.query
      At(m) == m.account[q.target]
      Shows(m, n) ==
        /\ At(m) # Gone /\ At(n) # Gone
        /\ req.them = [At(m) EXCEPT !.roles = At(n).roles]
      RolesExplained(m, n) ==
        \/ Effective(req.them) \in {Effective(At(m)), Effective(At(n))}
        \/ /\ At(m).type # At(n).type /\ At(m).roles # {} /\ At(n).roles = {}
           /\ seen.since \ {m, n} # {}
  IN req.pc = "answered" /\ req.code = "200" =>
       /\ q.kind \in {"profile", "role", "validate", "legacy"} => \E m \in seen.since : Shows(m, m)
       /\ q.kind = "rename" => \E m, n \in seen.since : Shows(m, n) /\ RolesExplained(m, n)
       /\ q.kind = "me" =>
            \E m, n \in seen.all :
              /\ m.account[q.caller] # Gone
              /\ req.codes = CodesFor(Effective(m.account[q.caller]), n.grants)
       /\ q.kind = "permission" /\ q.ask = "roles:read" =>
            \E m, n \in seen.all : m.grants \subseteq req.shown /\ req.shown \subseteq n.grants

(* The permissions /auth/me answers with are what the endpoints go by:     *)
(* until something changes, those with a RoleChecker, those with a         *)
(* PermissionChecker and the profiles of others let in exactly whom they   *)
(* say.                                                                    *)
PromiseKept ==
  LET q == req.query
      promised(code) == code \in told.codes
  IN req.pc = "answered" /\ q.caller \in told.by =>
       /\ q.kind \in {"rule", "permission"} => (req.code = "200" <=> promised(q.ask))
       /\ q.kind = "profile" /\ q.target # q.caller /\ account[q.target] # Gone =>
            (req.code = "200" <=> promised("users:read"))
=============================================================================
