----------------------------- MODULE AccessProofs -----------------------------
(***************************************************************************)
(* Proofs about Access, for any accounts, grants and number of changes:    *)
(* types, and that the copies a request decides on and answers with were   *)
(* the truth at some moment of it.                                         *)
(***************************************************************************)
EXTENDS Access, TLAPS

-----------------------------------------------------------------------------
(* What each kind of query may ask.                                        *)
LEMMA QueryType ==
  ASSUME NEW q \in Query
  PROVE  /\ q.caller \in Users /\ q.target \in Users
         /\ q.kind \in {"rule", "permission", "me", "profile", "role", "rename", "validate", "legacy"}
         /\ q.kind = "rule" => q.ask \in DOMAIN ALLOWED_ROLES
         /\ q.kind = "permission" => q.ask \in REQUIRED_PERMISSIONS
         /\ q.ask = "active" => q.kind \in {"validate", "legacy"}
         /\ q.ask = "roles:read" => q.kind = "permission"
BY DEF Query, ALLOWED_ROLES, REQUIRED_PERMISSIONS

(* An account is no deleted one, and the roles it counts as are roles.     *)
LEMMA AccountFacts ==
  /\ Gone \notin Account
  /\ \A a \in Account : a.active \in BOOLEAN /\ a.roles \subseteq RolesInUse
  /\ \A a, b \in Account : [a EXCEPT !.roles = b.roles] \in Account
  /\ \A a \in Account : [a EXCEPT !.roles = a.roles] = a
  /\ \A a, b \in Account : /\ [a EXCEPT !.roles = b.roles].roles = b.roles
                            /\ [a EXCEPT !.roles = b.roles].type = a.type
  /\ \A a \in Account : Effective(a) \subseteq ROLES
<1>1. \A a \in Account : a.there = TRUE
  BY DEF Account
<1>2. Gone \notin Account
  BY <1>1 DEF Gone
<1>3. \A a \in Account : a.active \in BOOLEAN /\ a.roles \subseteq RolesInUse
  BY DEF Account
<1>4. \A a, b \in Account : [a EXCEPT !.roles = b.roles] \in Account
  BY DEF Account
<1>5. \A a \in Account : [a EXCEPT !.roles = a.roles] = a
  BY DEF Account
<1>6. \A a, b \in Account : /\ [a EXCEPT !.roles = b.roles].roles = b.roles
                             /\ [a EXCEPT !.roles = b.roles].type = a.type
  BY DEF Account
<1>7. \A a \in Account : Effective(a) \subseteq ROLES
  <2>1. AccountTypes \subseteq ROLES
    BY DEF AccountTypes, ROLES, RoleNames
  <2>2. \A a \in Account : a.type \in AccountTypes
    BY DEF Account
  <2> QED
    BY <1>3, <2>1, <2>2, AccessAssumption DEF Effective
<1> QED
  BY <1>2, <1>3, <1>4, <1>5, <1>6, <1>7

(* The pieces of a request.                                                *)
LEMMA RequestType ==
  ASSUME TypeOK
  PROVE  /\ req.query \in Query
         /\ req.query.caller \in Users /\ req.query.target \in Users
         /\ \A u \in Users : account[u] \in Account \cup {Gone}
         /\ Now \in Moment
         /\ seen.all \subseteq Moment /\ seen.since \subseteq Moment
         /\ \A m \in Moment, u \in Users : m.account[u] \in Account \cup {Gone} /\ m.grants \in Grants
BY QueryType DEF TypeOK, Request, Now, Moment, History

(* What Answer and Goto change.                                            *)
LEMMA Moves ==
  ASSUME TypeOK
  PROVE  /\ \A code \in {"200", "401", "403", "404", "500", "503"} : Answer(code) =>
              /\ req' \in Request
              /\ req'.pc = "answered" /\ req'.code = code
              /\ req'.query = req.query /\ req'.them = req.them
         /\ \A pc \in Steps \cup {"idle", "answered"} : Goto(pc) =>
              /\ req' \in Request
              /\ req'.pc = pc
              /\ req'.query = req.query /\ req'.code = req.code /\ req'.me = req.me
              /\ req'.listed = req.listed /\ req'.shown = req.shown
BY DEF TypeOK, Request, Answer, Goto

(* The permissions of roles are permissions.                               *)
LEMMA CodesType ==
  ASSUME NEW roles, NEW granted \in Grants
  PROVE  /\ CodesFor(roles, granted) \subseteq PERMISSIONS
         /\ \A c : c \in CodesFor(roles, granted) <=> \E r \in roles : <<r, c>> \in granted
<1>1. \A g \in granted : g = <<g[1], g[2]>> /\ g[2] \in PERMISSIONS
  BY DEF Grants
<1> QED
  BY <1>1 DEF CodesFor

-----------------------------------------------------------------------------
(* What is known of a request in each of its steps, besides the types.     *)

(* Which kinds of request come through a step.                             *)
KindAt ==
  LET kind == req.query.kind
  IN /\ req.pc \in Steps => req.code = "200"
     /\ req.pc # "idle" => WellFormed(req.query)
     /\ req.pc = "caller" => kind # "legacy"
     /\ req.pc = "codes" => kind \in {"permission", "me"}
     /\ req.pc = "catalogue" => kind = "permission" /\ req.query.ask = "roles:read"
     /\ req.pc \in {"update", "refresh"} => kind = "rename"
     /\ req.pc = "target" => kind \in {"profile", "role", "validate", "legacy", "rename"}
     /\ req.pc = "directory" => kind \in {"profile", "rename"}

(* The moment that is now is one of the request's.                         *)
SeenNow ==
  req.pc # "idle" =>
    /\ Now \in seen.since
    /\ seen.since \subseteq seen.all
    /\ req.query.kind # "rename" => seen.since = seen.all

(* The caller was let in by get_current_user and require_active_account,   *)
(* and the session's copy is what was there.                               *)
CallerKnown ==
  LET q == req.query
  IN req.pc \in Steps \ {"caller"} /\ q.kind # "legacy" =>
       /\ req.me \in Account
       /\ \E m \in seen.all :
            /\ m.account[q.caller] \in Account
            /\ m.account[q.caller].active
            /\ q.kind # "rename" => m.account[q.caller] = req.me
       /\ q.kind = "rename" => q.ask # "email" /\ q.caller \notin Demo

(* After its write a rename answers from what it has read since.           *)
CopyRefreshed ==
  req.query.kind = "rename" /\ req.pc \in {"target", "directory"} =>
    \E m \in seen.since : m.account[req.query.caller] = req.me

(* them was there, as two moments have it.                                 *)
Shown(m, n) ==
  LET u == req.query.target
  IN /\ m.account[u] \in Account /\ n.account[u] \in Account
     /\ req.them = [m.account[u] EXCEPT !.roles = n.account[u].roles]

(* What waits for the Directory may be answered.                           *)
Checked ==
  LET q == req.query
  IN req.pc = "directory" =>
       /\ q.kind = "profile" =>
            /\ q.target = q.caller \/ MayList(Effective(req.me))
            /\ \E m \in seen.since : Shown(m, m)
       /\ q.kind = "rename" => \E m, n \in seen.since : Shown(m, n)

(* The catalogue so far has what was granted from the beginning.           *)
CatalogueSoFar ==
  /\ req.pc \in {"caller", "codes"} => req.listed = 0 /\ req.shown = {}
  /\ req.pc = "catalogue" =>
       /\ req.listed < Len(RoleNames)
       /\ \E m, n \in seen.all : Entitled(req.query, m.account, n.grants)
       /\ req.shown \subseteq grants
       /\ \E m \in seen.all :
            /\ m.grants \subseteq grants
            /\ \A g \in m.grants, i \in 1..req.listed : g[1] = RoleNames[i] => g \in req.shown

(* No commit changes type and roles of an account: between two moments in  *)
(* which both differ there was another.                                    *)
OneAtATime ==
  \A m, n \in seen.since, u \in Users :
    /\ m.account[u] # Gone /\ n.account[u] # Gone
    /\ m.account[u].type # n.account[u].type /\ m.account[u].roles # n.account[u].roles
    => seen.since \ {m, n} # {}

(* Grants and rules agree on the permissions a RoleChecker stands for.     *)
GrantsMirrorRules ==
  \A c \in DOMAIN ALLOWED_ROLES, r \in ROLES : <<r, c>> \in grants <=> r \in ALLOWED_ROLES[c]

(* What /auth/me answered is still so.                                     *)
ToldTrue ==
  \A u \in told.by :
    /\ account[u] \in Account /\ account[u].active
    /\ told.codes = CodesFor(Effective(account[u]), grants)

(* Nothing has changed the caller's roles or type since then, and what is  *)
(* demanded of them has been checked.                                      *)
CopyFresh ==
  LET q == req.query
  IN q.caller \in told.by /\ q.kind # "legacy" =>
       /\ req.pc \in Steps \ {"caller"} => /\ req.me.roles = account[q.caller].roles
                                           /\ req.me.type = account[q.caller].type
       /\ req.pc = "catalogue" => q.ask \in told.codes

Known == KindAt /\ SeenNow /\ CallerKnown /\ CopyRefreshed

Ahead == Checked /\ CatalogueSoFar /\ CopyFresh

Answered == AdmittedWasEntitled /\ RefusedWasTrue /\ AnswerWasTrue /\ PromiseKept

Inv == TypeOK /\ Known /\ Ahead /\ OneAtATime /\ GrantsMirrorRules /\ ToldTrue /\ Answered

-----------------------------------------------------------------------------
(* What several actions have in common.                                    *)

(* Steps that leave everything but the request alone.                      *)
Quiet ==
  /\ UNCHANGED <<database, changes, seen, told>>
  /\ req.pc # "idle" /\ req' \in Request /\ req'.query = req.query

LEMMA QuietKeeps ==
  ASSUME Inv, Quiet
  PROVE  /\ TypeOK' /\ SeenNow' /\ OneAtATime' /\ GrantsMirrorRules' /\ ToldTrue'
         /\ Now' = Now /\ Now \in seen.since /\ Now \in seen.all
         /\ Now.account = account /\ Now.grants = grants
<1>1. Now' = Now
  BY DEF Quiet, database, Now
<1>2. TypeOK'
  BY DEF Inv, TypeOK, Quiet, database
<1>3. SeenNow'
  BY <1>1 DEF Inv, Known, SeenNow, Quiet
<1>4. GrantsMirrorRules' /\ ToldTrue'
  BY DEF Inv, GrantsMirrorRules, ToldTrue, Quiet, database
<1>5. Now.account = account /\ Now.grants = grants
  BY DEF Now
<1>6. OneAtATime'
  BY DEF Inv, OneAtATime, Quiet
<1> QED
  BY <1>1, <1>2, <1>3, <1>4, <1>5, <1>6 DEF Inv, Known, SeenNow, Quiet

(* An answered request has nothing ahead.                                  *)
LEMMA NothingAhead ==
  ASSUME req'.pc = "answered", WellFormed(req.query), req'.query = req.query
  PROVE  KindAt' /\ CallerKnown' /\ CopyRefreshed' /\ Ahead'
BY DEF KindAt, CallerKnown, CopyRefreshed, Ahead, Checked, CatalogueSoFar, CopyFresh, Steps

(* One that is not promises nothing yet.                                   *)
LEMMA NothingAnswered ==
  ASSUME req'.pc # "answered"
  PROVE  Answered'
BY DEF Answered, AdmittedWasEntitled, RefusedWasTrue, AnswerWasTrue, PromiseKept

(* /auth/me names a permission of a RoleChecker exactly to whom it lets in.*)
LEMMA RulesMirrored ==
  ASSUME Inv, NEW u \in Users, account[u] \in Account, NEW c \in DOMAIN ALLOWED_ROLES
  PROVE  c \in CodesFor(Effective(account[u]), grants)
           <=> Effective(account[u]) \cap ALLOWED_ROLES[c] # {}
<1>1. Effective(account[u]) \subseteq ROLES
  BY AccountFacts
<1>2. grants \in Grants
  BY DEF Inv, TypeOK
<1>3. c \in CodesFor(Effective(account[u]), grants)
        <=> \E r \in Effective(account[u]) : <<r, c>> \in grants
  BY <1>2, CodesType
<1>4. \A r \in Effective(account[u]) : <<r, c>> \in grants <=> r \in ALLOWED_ROLES[c]
  BY <1>1 DEF Inv, GrantsMirrorRules
<1> QED
  BY <1>3, <1>4

-----------------------------------------------------------------------------
(* The caller is loaded.                                                   *)

LEMMA LoadCallerKeeps ==
  ASSUME Inv, LoadCaller
  PROVE  Inv'
<1> DEFINE q == req.query
           me == account[q.caller]
<1>1. /\ TypeOK /\ req.pc = "caller" /\ q.kind # "legacy" /\ WellFormed(q)
      /\ UNCHANGED <<database, changes, seen, told>>
  BY DEF Inv, Known, KindAt, LoadCaller
<1>2. q \in Query /\ q.caller \in Users /\ me \in Account \cup {Gone}
  BY <1>1, RequestType
<1>3. req.code = "200"
  BY <1>1 DEF Inv, Known, KindAt, Steps
<1>4. ASSUME NEW code \in {"200", "401", "403"}, Answer(code) PROVE Quiet /\ req'.pc = "answered" /\ req'.code = code
  BY <1>1, <1>4, Moves DEF Quiet
<1>5. ASSUME Quiet, req'.pc = "answered", Answered' PROVE Inv'
  BY <1>1, <1>5, QuietKeeps, NothingAhead DEF Inv, Known, Quiet
<1>6. ASSUME q.caller \in told.by PROVE me # Gone /\ me.active
  BY <1>6, AccountFacts DEF Inv, ToldTrue
<1>7. CASE me = Gone
  <2>1. Quiet /\ req'.pc = "answered" /\ req'.code = "401"
    BY <1>4, <1>7 DEF LoadCaller
  <2>2. RefusedWasTrue'
    BY <1>7, <2>1, QuietKeeps DEF RefusedWasTrue, Quiet
  <2>3. AdmittedWasEntitled' /\ AnswerWasTrue'
    BY <2>1 DEF AdmittedWasEntitled, AnswerWasTrue
  <2>4. PromiseKept'
    BY <1>6, <1>7, <2>1 DEF PromiseKept, Quiet
  <2> QED
    BY <1>5, <2>1, <2>2, <2>3, <2>4 DEF Answered
<1>8. CASE me # Gone /\ ~me.active
  <2>1. Quiet /\ req'.pc = "answered" /\ req'.code = "403"
    BY <1>4, <1>8 DEF LoadCaller
  <2>2. ~Entitled(q, Now.account, Now.grants) /\ Now.account[q.caller] # Gone
    BY <1>1, <1>8 DEF Entitled, Now
  <2>3. RefusedWasTrue'
    BY <2>1, <2>2, QuietKeeps DEF RefusedWasTrue, Quiet
  <2>4. AdmittedWasEntitled' /\ AnswerWasTrue'
    BY <2>1 DEF AdmittedWasEntitled, AnswerWasTrue
  <2>5. PromiseKept'
    BY <1>6, <1>8, <2>1 DEF PromiseKept, Quiet
  <2> QED
    BY <1>5, <2>1, <2>3, <2>4, <2>5 DEF Answered
<1>9. CASE me # Gone /\ me.active
  <2>1. me \in Account /\ Proceed(q, me) /\ Now.account[q.caller] = me
    BY <1>2, <1>9 DEF LoadCaller, Now
  <2>2. CASE q.kind = "rule"
    <3> DEFINE in == Effective(me) \cap ALLOWED_ROLES[q.ask] # {}
    <3>1. Quiet /\ req'.pc = "answered" /\ req'.code = IF in THEN "200" ELSE "403"
      BY <1>4, <2>1, <2>2 DEF Proceed
    <3>2. in <=> Entitled(q, Now.account, Now.grants)
      BY <1>9, <2>1, <2>2 DEF Entitled
    <3>3. q.ask \in DOMAIN ALLOWED_ROLES /\ q.ask # "active" /\ q.ask # "roles:read"
      BY <1>2, <2>2, QueryType
    <3>4. AdmittedWasEntitled'
      BY <3>1, <3>2, <3>3, QuietKeeps DEF AdmittedWasEntitled, Quiet
    <3>5. RefusedWasTrue'
      BY <1>9, <2>1, <3>1, <3>2, QuietKeeps DEF RefusedWasTrue, Quiet
    <3>6. AnswerWasTrue'
      BY <2>2, <3>1 DEF AnswerWasTrue, Quiet
    <3>7. PromiseKept'
      <4>1. q.ask \in CodesFor(Effective(me), grants) <=> in
        BY <1>2, <2>1, <3>3, RulesMirrored
      <4>2. q.caller \in told.by => told.codes = CodesFor(Effective(me), grants)
        BY DEF Inv, ToldTrue
      <4> QED
        BY <2>2, <3>1, <4>1, <4>2 DEF PromiseKept, Quiet
    <3> QED
      BY <1>5, <3>1, <3>4, <3>5, <3>6, <3>7 DEF Answered
  <2>3. CASE q.kind = "rename" /\ (q.ask = "email" \/ q.caller \in Demo)
    <3>1. Quiet /\ req'.pc = "answered" /\ req'.code = "403"
      BY <1>4, <2>1, <2>3 DEF Proceed
    <3>2. ~Entitled(q, Now.account, Now.grants)
      BY <2>3 DEF Entitled
    <3>3. RefusedWasTrue'
      BY <1>9, <2>1, <3>1, <3>2, QuietKeeps DEF RefusedWasTrue, Quiet
    <3>4. AdmittedWasEntitled' /\ AnswerWasTrue' /\ PromiseKept'
      BY <2>3, <3>1 DEF AdmittedWasEntitled, AnswerWasTrue, PromiseKept, Quiet
    <3> QED
      BY <1>5, <3>1, <3>3, <3>4 DEF Answered
  <2>4. ASSUME NEW pc \in {"update", "codes", "target"}, req' = [req EXCEPT !.pc = pc, !.me = me],
               pc = "update" => q.kind = "rename" /\ q.ask # "email" /\ q.caller \notin Demo,
               pc = "codes" => q.kind \in {"permission", "me"},
               pc = "target" => q.kind \in {"profile", "role", "validate"}
        PROVE  Inv'
    <3>1. /\ Quiet /\ req'.pc = pc /\ req'.me = me /\ req'.code = "200"
          /\ req'.listed = req.listed /\ req'.shown = req.shown
      BY <1>1, <1>3, <2>1, <2>4 DEF TypeOK, Request, Quiet, Steps
    <3>2. KindAt'
      BY <1>1, <2>4, <3>1 DEF KindAt, Quiet
    <3>3. CallerKnown'
      BY <1>9, <2>1, <2>4, <3>1, QuietKeeps DEF CallerKnown, Quiet
    <3>4. CopyRefreshed'
      BY <2>4, <3>1 DEF CopyRefreshed, Quiet
    <3>5. CatalogueSoFar'
      BY <1>1, <2>4, <3>1 DEF Inv, Ahead, CatalogueSoFar
    <3>6. Checked' /\ CopyFresh'
      BY <2>4, <3>1 DEF Checked, CopyFresh, Quiet, database
    <3> QED
      BY <3>1, <3>2, <3>3, <3>4, <3>5, <3>6, QuietKeeps, NothingAnswered DEF Inv, Known, Ahead
  <2> QED
    BY <2>1, <2>2, <2>3, <2>4 DEF Proceed
<1> QED
  BY <1>2, <1>7, <1>8, <1>9, AccountFacts

-----------------------------------------------------------------------------
(* The steps after that.                                                   *)

(* The copy is what the account was at a moment, and still is if the       *)
(* caller has been told the permissions.                                   *)
LEMMA QueryCodesKeeps ==
  ASSUME Inv, QueryCodes
  PROVE  Inv'
<1> DEFINE q == req.query
           roles == Effective(req.me)
           codes == CodesFor(roles, grants)
<1>1. /\ TypeOK /\ req.pc = "codes" /\ q.kind \in {"permission", "me"} /\ WellFormed(q)
      /\ req.code = "200" /\ UNCHANGED <<database, changes, seen>>
  BY DEF Inv, Known, KindAt, QueryCodes, Steps
<1>2. q \in Query /\ q.caller \in Users /\ grants \in Grants /\ codes \subseteq PERMISSIONS
  BY <1>1, RequestType, CodesType DEF TypeOK
<1>3. req.me \in Account
  BY <1>1 DEF Inv, Known, CallerKnown, Steps
<1>4. PICK m \in seen.all : m.account[q.caller] = req.me /\ req.me.active
  BY <1>1 DEF Inv, Known, CallerKnown, Steps
<1>5. Now \in seen.all /\ Now.grants = grants /\ Now.account = account
  BY <1>1 DEF Inv, Known, SeenNow, Now
<1>6. q.caller \in told.by =>
        /\ account[q.caller] \in Account /\ account[q.caller].active
        /\ told.codes = codes
  <2>1. q.caller \in told.by => roles = Effective(account[q.caller])
    BY <1>1 DEF Inv, Ahead, CopyFresh, Steps, Effective
  <2> QED
    BY <2>1 DEF Inv, ToldTrue
<1>7. req.me # Gone
  BY <1>3, AccountFacts
<1>8. CASE q.kind = "me"
  <2>1. /\ req'.pc = "answered" /\ req'.codes = codes /\ req'.query = q /\ req'.code = "200"
        /\ req' \in Request
    BY <1>1, <1>2, <1>8 DEF QueryCodes, TypeOK, Request
  <2>2. told' = IF seen.all = {Now} THEN [by |-> {q.caller}, codes |-> codes] ELSE told
    BY <1>8 DEF QueryCodes
  <2>3. TypeOK'
    BY <1>1, <1>2, <2>1, <2>2 DEF TypeOK, database
  <2>4. SeenNow'
    BY <1>1, <2>1 DEF Inv, Known, SeenNow, Now, database
  <2>5. ToldTrue'
    <3>1. CASE seen.all = {Now}
      <4>1. account[q.caller] = req.me
        BY <1>4, <1>5, <3>1
      <4> QED
        BY <1>1, <1>3, <1>4, <2>2, <3>1, <4>1 DEF ToldTrue, database
    <3>2. CASE seen.all # {Now}
      BY <1>1, <2>2, <3>2 DEF Inv, ToldTrue, database
    <3> QED
      BY <3>1, <3>2
  <2>6. Entitled(q, m.account, Now.grants)
    BY <1>4, <1>7, <1>8 DEF Entitled
  <2>7. q.ask # "active" /\ q.ask # "roles:read"
    BY <1>2, <1>8, QueryType
  <2>8. AdmittedWasEntitled'
    BY <1>1, <1>5, <2>1, <2>6, <2>7 DEF AdmittedWasEntitled
  <2>9. RefusedWasTrue' /\ PromiseKept'
    BY <1>8, <2>1 DEF RefusedWasTrue, PromiseKept
  <2>10. AnswerWasTrue'
    BY <1>1, <1>4, <1>5, <1>7, <1>8, <2>1 DEF AnswerWasTrue
  <2>11. GrantsMirrorRules' /\ OneAtATime'
    BY <1>1 DEF Inv, GrantsMirrorRules, OneAtATime, database
  <2> QED
    BY <1>1, <2>1, <2>3, <2>4, <2>5, <2>8, <2>9, <2>10, <2>11, NothingAhead
    DEF Inv, Known, Answered
<1>9. CASE q.kind = "permission"
  <2>1. q.ask \in codes <=> \E r \in roles : <<r, q.ask>> \in grants
    BY <1>2, CodesType
  <2>2. q.ask \in codes <=> Entitled(q, m.account, Now.grants)
    BY <1>4, <1>5, <1>7, <1>9, <2>1 DEF Entitled
  <2>3. q.ask # "active"
    BY <1>2, <1>9, QueryType
  <2>4. UNCHANGED told
    BY <1>9 DEF QueryCodes
  <2>5. ASSUME Quiet, req'.pc = "answered", Answered' PROVE Inv'
    BY <1>1, <2>5, QuietKeeps, NothingAhead DEF Inv, Known, Quiet
  <2>6. CASE q.ask \notin codes
    <3>1. Quiet /\ req'.pc = "answered" /\ req'.code = "403"
      BY <1>1, <1>9, <2>4, <2>6, Moves DEF QueryCodes, Quiet
    <3>2. RefusedWasTrue'
      BY <1>1, <1>4, <1>5, <1>7, <2>2, <2>6, <3>1 DEF RefusedWasTrue, Quiet
    <3>3. AdmittedWasEntitled' /\ AnswerWasTrue'
      BY <3>1 DEF AdmittedWasEntitled, AnswerWasTrue
    <3>4. PromiseKept'
      BY <1>6, <1>9, <2>4, <2>6, <3>1 DEF PromiseKept, Quiet
    <3> QED
      BY <2>5, <3>1, <3>2, <3>3, <3>4 DEF Answered
  <2>7. CASE q.ask \in codes /\ q.ask # "roles:read"
    <3>1. Quiet /\ req'.pc = "answered" /\ req'.code = "200"
      BY <1>1, <1>9, <2>4, <2>7, Moves DEF QueryCodes, Quiet
    <3>2. AdmittedWasEntitled'
      BY <1>1, <1>5, <2>2, <2>3, <2>7, <3>1 DEF AdmittedWasEntitled, Quiet
    <3>3. RefusedWasTrue' /\ AnswerWasTrue'
      BY <1>9, <2>7, <3>1 DEF RefusedWasTrue, AnswerWasTrue, Quiet
    <3>4. PromiseKept'
      BY <1>6, <1>9, <2>4, <2>7, <3>1 DEF PromiseKept, Quiet
    <3> QED
      BY <2>5, <3>1, <3>2, <3>3, <3>4 DEF Answered
  <2>8. CASE q.ask \in codes /\ q.ask = "roles:read"
    <3>1. Goto("catalogue")
      BY <1>9, <2>8 DEF QueryCodes
    <3>2. /\ Quiet /\ req'.pc = "catalogue" /\ req'.code = "200" /\ req'.me = req.me
          /\ req'.listed = req.listed /\ req'.shown = req.shown
      BY <1>1, <2>4, <3>1, Moves DEF Quiet, Steps
    <3>3. KindAt' /\ CopyRefreshed'
      BY <1>1, <1>9, <2>8, <3>2 DEF KindAt, CopyRefreshed, Quiet
    <3>4. CallerKnown'
      BY <1>1, <1>3, <1>4, <1>9, <3>2 DEF CallerKnown, Quiet
    <3>5. Checked' /\ CopyFresh'
      BY <1>1, <1>6, <2>8, <3>2 DEF Inv, Ahead, Checked, CopyFresh, Quiet, Steps, database
    <3>6. req.listed = 0 /\ req.shown = {}
      BY <1>1 DEF Inv, Ahead, CatalogueSoFar
    <3>7. Entitled(q, m.account, Now.grants)
      BY <2>2, <2>8
    <3>8. Len(RoleNames) = 9
      BY DEF RoleNames
    <3>9. CatalogueSoFar'
      BY <1>1, <1>5, <3>2, <3>6, <3>7, <3>8 DEF CatalogueSoFar, Quiet, database
    <3> QED
      BY <3>2, <3>3, <3>4, <3>5, <3>9, QuietKeeps, NothingAnswered DEF Inv, Known, Ahead
  <2> QED
    BY <2>6, <2>7, <2>8
<1> QED
  BY <1>1, <1>8, <1>9

(* GET /roles: at the end, whatever was granted at the moment in question  *)
(* has been shown, as every role has had its turn.                         *)
LEMMA ListRoleKeeps ==
  ASSUME Inv, ListRole
  PROVE  Inv'
<1> DEFINE q == req.query
           n == req.listed + 1
           more == {g \in grants : g[1] = RoleNames[n]}
<1>1. /\ TypeOK /\ req.pc = "catalogue" /\ q.kind = "permission" /\ q.ask = "roles:read"
      /\ WellFormed(q) /\ req.code = "200" /\ UNCHANGED <<database, changes, seen, told>>
  BY DEF Inv, Known, KindAt, ListRole, Steps
<1>2. Len(RoleNames) = 9 /\ DOMAIN RoleNames = 1..9
  BY DEF RoleNames
<1>3. req.listed \in 0..9 /\ req.listed < 9 /\ req.shown \in Grants /\ grants \in Grants
  BY <1>1, <1>2 DEF Inv, Ahead, CatalogueSoFar, TypeOK, Request
<1>4. more \subseteq grants /\ req.shown \cup more \in Grants
  BY <1>3 DEF Grants
<1>5. /\ req' \in Request /\ req'.query = q /\ req'.code = "200" /\ req'.me = req.me
      /\ req'.listed = n /\ req'.shown = req.shown \cup more
      /\ req'.pc = IF n = 9 THEN "answered" ELSE "catalogue"
  <2>1. n \in 0..Len(RoleNames)
    BY <1>2, <1>3
  <2>2. req' = [req EXCEPT !.listed = n, !.shown = @ \cup more,
                           !.pc = IF n = 9 THEN "answered" ELSE @]
    BY <1>2 DEF ListRole
  <2> HIDE DEF n, more
  <2> QED
    BY <1>1, <1>4, <2>1, <2>2 DEF TypeOK, Request, Steps
<1>6. Quiet
  BY <1>1, <1>5 DEF Quiet
<1>7. PICK m \in seen.all :
        /\ m.grants \subseteq grants
        /\ \A g \in m.grants, i \in 1..req.listed : g[1] = RoleNames[i] => g \in req.shown
  BY <1>1 DEF Inv, Ahead, CatalogueSoFar
<1>8. \A g \in m.grants, i \in 1..n : g[1] = RoleNames[i] => g \in req.shown \cup more
  <2>1. \A i \in 1..n : i \in 1..req.listed \/ i = n
    BY <1>3
  <2> QED
    BY <1>7, <2>1
<1>9. req.shown \cup more \subseteq grants
  BY <1>1, <1>4 DEF Inv, Ahead, CatalogueSoFar
<1>10. \E a, b \in seen.all : Entitled(q, a.account, b.grants)
  BY <1>1 DEF Inv, Ahead, CatalogueSoFar
<1>11. CASE n = 9
  <2>1. req'.pc = "answered"
    BY <1>5, <1>11
  <2>2. m.grants \subseteq req.shown \cup more
    <3>1. ASSUME NEW g \in m.grants PROVE \E i \in 1..9 : g[1] = RoleNames[i]
      <4>1. g[1] \in ROLES
        BY <1>3, <1>7, <3>1 DEF Grants
      <4> QED
        BY <1>2, <4>1 DEF ROLES
    <3> QED
      BY <1>8, <1>11, <3>1
  <2>3. AdmittedWasEntitled'
    BY <1>1, <1>5, <1>10 DEF AdmittedWasEntitled
  <2>4. RefusedWasTrue'
    BY <1>5 DEF RefusedWasTrue
  <2>5. AnswerWasTrue'
    BY <1>1, <1>5, <1>6, <1>9, <2>2, QuietKeeps DEF AnswerWasTrue
  <2>6. PromiseKept'
    BY <1>1, <1>5 DEF PromiseKept, Inv, Ahead, CopyFresh
  <2> QED
    BY <1>1, <1>6, <2>1, <2>3, <2>4, <2>5, <2>6, QuietKeeps, NothingAhead
    DEF Inv, Known, Quiet, Answered
<1>12. CASE n # 9
  <2>1. req'.pc = "catalogue" /\ n < 9
    BY <1>3, <1>5, <1>12
  <2>2. KindAt' /\ CopyRefreshed'
    BY <1>1, <1>5, <2>1 DEF KindAt, CopyRefreshed
  <2>3. CallerKnown'
    BY <1>1, <1>5, <2>1 DEF Inv, Known, CallerKnown, Steps
  <2>4. Checked' /\ CopyFresh'
    BY <1>1, <1>5, <2>1 DEF Inv, Ahead, Checked, CopyFresh, Steps, database
  <2>5. CatalogueSoFar'
    BY <1>1, <1>2, <1>5, <1>7, <1>8, <1>9, <1>10, <2>1 DEF CatalogueSoFar, database
  <2> QED
    BY <1>6, <2>1, <2>2, <2>3, <2>4, <2>5, QuietKeeps, NothingAnswered DEF Inv, Known, Ahead
<1> QED
  BY <1>11, <1>12

-----------------------------------------------------------------------------
(* The write of a rename, and what it reads again.                         *)

(* The write changes a name only, and what was before it does not count.   *)
LEMMA UpdateKeeps ==
  ASSUME Inv, Update
  PROVE  Inv'
<1> DEFINE q == req.query
           u == q.caller
<1>1. /\ TypeOK /\ req.pc = "update" /\ q.kind = "rename" /\ WellFormed(q) /\ req.code = "200"
      /\ UNCHANGED <<grants, changes, told>>
  BY DEF Inv, Known, KindAt, Update, Steps
<1>2. q \in Query /\ u \in Users /\ q.target = u /\ account[u] \in Account \cup {Gone}
  BY <1>1, RequestType DEF WellFormed
<1>3. CASE account[u] = Gone /\ (Answer("404") \/ Answer("500")) /\ UNCHANGED <<account, seen>>
  <2>1. PICK code \in {"404", "500"} : Answer(code)
    BY <1>3
  <2>2. Quiet /\ req'.pc = "answered" /\ req'.code = code
    BY <1>1, <1>3, <2>1, Moves DEF Quiet, database
  <2>3. RefusedWasTrue'
    BY <1>1, <1>2, <1>3, <2>2, QuietKeeps DEF RefusedWasTrue, Quiet
  <2>4. AdmittedWasEntitled' /\ AnswerWasTrue'
    BY <2>2 DEF AdmittedWasEntitled, AnswerWasTrue
  <2>5. PromiseKept'
    BY <1>1, <2>2 DEF PromiseKept, Quiet
  <2> QED
    BY <1>1, <2>2, <2>3, <2>4, <2>5, QuietKeeps, NothingAhead DEF Inv, Known, Answered, Quiet
<1>4. CASE /\ account[u] # Gone
           /\ account' = IF q.ask = req.me.name THEN account
                         ELSE [account EXCEPT ![u].name = q.ask]
           /\ Goto("refresh")
           /\ seen' = [all |-> seen.all \cup {Now'}, since |-> {Now'}]
  <2>1. account[u] \in Account
    BY <1>2, <1>4
  <2>2. /\ req' \in Request /\ req'.pc = "refresh" /\ req'.query = q /\ req'.code = "200"
        /\ req'.me = req.me
    BY <1>1, <1>4, Moves DEF Steps
  <2>3. q.ask \in {"first", "second"}
    <3>1. q.ask # "email"
      BY <1>1 DEF Inv, Known, CallerKnown, Steps
    <3> QED
      BY <1>1, <1>2, <3>1 DEF Query
  <2>4. [account[u] EXCEPT !.name = q.ask] \in Account
    BY <2>1, <2>3 DEF Account, Names
  <2>5. /\ account' \in [Users -> Account \cup {Gone}]
        /\ \A v \in Users : v # u => account'[v] = account[v]
        /\ account'[u] \in Account
        /\ account'[u].active = account[u].active /\ account'[u].roles = account[u].roles
        /\ account'[u].type = account[u].type
    <3>1. CASE account' = account
      BY <1>1, <2>1, <3>1 DEF TypeOK
    <3>2. CASE account' = [account EXCEPT ![u].name = q.ask]
      <4>1. account'[u] = [account[u] EXCEPT !.name = q.ask]
        BY <1>1, <1>2, <3>2 DEF TypeOK
      <4>2. /\ account'[u].active = account[u].active /\ account'[u].roles = account[u].roles
            /\ account'[u].type = account[u].type
        BY <2>1, <4>1 DEF Account
      <4> QED
        BY <1>1, <1>2, <2>4, <3>2, <4>1, <4>2 DEF TypeOK
    <3> QED
      BY <1>4, <3>1, <3>2
  <2>6. Now' \in Moment /\ seen' \in History /\ seen'.all = seen.all \cup {Now'} /\ seen'.since = {Now'}
    BY <1>1, <1>4, <2>5, RequestType DEF Now, Moment, History, TypeOK
  <2>7. TypeOK'
    BY <1>1, <2>2, <2>5, <2>6 DEF TypeOK
  <2>8. KindAt' /\ SeenNow' /\ CopyRefreshed'
    BY <1>1, <2>2, <2>6 DEF KindAt, SeenNow, CopyRefreshed
  <2>9. CallerKnown'
    BY <1>1, <2>2, <2>6 DEF Inv, Known, CallerKnown, Steps
  <2>10. Ahead'
    <3>1. CopyFresh'
      BY <1>1, <1>2, <2>2, <2>5 DEF Inv, Ahead, CopyFresh, Steps
    <3> QED
      BY <2>2, <3>1 DEF Ahead, Checked, CatalogueSoFar
  <2>11. GrantsMirrorRules' /\ OneAtATime'
    BY <1>1, <2>6 DEF Inv, GrantsMirrorRules, OneAtATime
  <2>12. ToldTrue'
    <3>1. ASSUME NEW v \in told.by
          PROVE  /\ account'[v] \in Account /\ account'[v].active
                 /\ told.codes = CodesFor(Effective(account'[v]), grants)
      <4>1. v \in Users /\ account[v] \in Account /\ account[v].active
            /\ told.codes = CodesFor(Effective(account[v]), grants)
        BY <1>1, <3>1 DEF Inv, ToldTrue, TypeOK
      <4>2. account'[v] \in Account /\ account'[v].active = account[v].active
            /\ account'[v].roles = account[v].roles /\ account'[v].type = account[v].type
        BY <2>5, <4>1
      <4>3. Effective(account'[v]) = Effective(account[v])
        BY <4>2 DEF Effective
      <4> QED
        BY <4>1, <4>2, <4>3
    <3> QED
      BY <1>1, <3>1 DEF ToldTrue
  <2> QED
    BY <2>2, <2>7, <2>8, <2>9, <2>10, <2>11, <2>12, NothingAnswered DEF Inv, Known
<1> QED
  BY <1>3, <1>4 DEF Update

LEMMA RefreshKeeps ==
  ASSUME Inv, Refresh
  PROVE  Inv'
<1> DEFINE q == req.query
           me == account[q.caller]
<1>1. /\ TypeOK /\ req.pc = "refresh" /\ q.kind = "rename" /\ WellFormed(q) /\ req.code = "200"
      /\ UNCHANGED <<database, changes, seen, told>>
  BY DEF Inv, Known, KindAt, Refresh, Steps
<1>2. q \in Query /\ q.caller \in Users /\ me \in Account \cup {Gone}
  BY <1>1, RequestType
<1>3. CASE me = Gone
  <2>1. Quiet /\ req'.pc = "answered" /\ req'.code = "500"
    BY <1>1, <1>3, Moves DEF Refresh, Quiet
  <2>2. RefusedWasTrue'
    BY <1>1, <1>3, <2>1, QuietKeeps DEF RefusedWasTrue, Quiet
  <2>3. AdmittedWasEntitled' /\ AnswerWasTrue' /\ PromiseKept'
    BY <1>1, <2>1 DEF AdmittedWasEntitled, AnswerWasTrue, PromiseKept, Quiet
  <2> QED
    BY <1>1, <2>1, <2>2, <2>3, QuietKeeps, NothingAhead DEF Inv, Known, Answered, Quiet
<1>4. CASE me # Gone
  <2>1. me \in Account
    BY <1>2, <1>4
  <2>2. Quiet /\ req'.pc = "target" /\ req'.me = me /\ req'.code = "200"
    BY <1>1, <1>4, <2>1 DEF Refresh, TypeOK, Request, Quiet, Steps
  <2>3. KindAt'
    BY <1>1, <2>2 DEF KindAt, Quiet
  <2>4. CopyRefreshed'
    BY <1>1, <2>2, QuietKeeps DEF CopyRefreshed, Quiet
  <2>5. CallerKnown'
    BY <1>1, <2>1, <2>2 DEF Inv, Known, CallerKnown, Quiet, Steps
  <2>6. Ahead'
    BY <2>2 DEF Ahead, Checked, CatalogueSoFar, CopyFresh, Quiet, database
  <2> QED
    BY <2>2, <2>3, <2>4, <2>5, <2>6, QuietKeeps, NothingAnswered DEF Inv, Known
<1> QED
  BY <1>3, <1>4

-----------------------------------------------------------------------------
(* The target, and the answer.                                             *)

(* What a request takes for its target was the target at a moment, or at   *)
(* two, if it renames.                                                     *)
LEMMA LoadedShown ==
  ASSUME Inv, req.pc = "target", NEW found, found = account[req.query.target], found # Gone
  PROVE  LET q == req.query
             them == Loaded(q, req.me, found)
             Was(m, n) == /\ m.account[q.target] \in Account /\ n.account[q.target] \in Account
                          /\ them = [m.account[q.target] EXCEPT !.roles = n.account[q.target].roles]
         IN /\ them \in Account
            /\ q.kind # "rename" => \E m \in seen.since : Was(m, m)
            /\ q.kind = "rename" => \E m, n \in seen.since : Was(m, n)
<1> DEFINE q == req.query
           them == Loaded(q, req.me, found)
           Was(m, n) == /\ m.account[q.target] \in Account /\ n.account[q.target] \in Account
                        /\ them = [m.account[q.target] EXCEPT !.roles = n.account[q.target].roles]
<1>1. TypeOK /\ q \in Query /\ q.caller \in Users /\ found \in Account /\ WellFormed(q)
  BY RequestType DEF Inv, Known, KindAt
<1>2. /\ Now \in seen.since /\ Now.account = account
      /\ q.kind # "rename" => seen.since = seen.all
  BY DEF Inv, Known, SeenNow, Now
<1>3. CASE q.kind = "legacy" \/ q.target # q.caller
  <2>1. q.kind # "rename"
    BY <1>1, <1>3 DEF WellFormed
  <2>2. them = found /\ Was(Now, Now)
    BY <1>1, <1>2, <1>3, AccountFacts DEF Loaded
  <2> QED
    BY <1>1, <1>2, <2>1, <2>2
<1>4. CASE q.kind = "rename"
  <2>1. q.target = q.caller /\ them = [req.me EXCEPT !.roles = found.roles]
    BY <1>1, <1>4 DEF WellFormed, Loaded
  <2>2. req.me \in Account
    BY <1>4 DEF Inv, Known, CallerKnown, Steps
  <2>3. PICK m \in seen.since : m.account[q.caller] = req.me
    BY <1>4 DEF Inv, Known, CopyRefreshed
  <2>4. Was(m, Now)
    BY <1>1, <1>2, <2>1, <2>2, <2>3
  <2>5. them \in Account
    BY <1>1, <2>1, <2>2, AccountFacts
  <2>6. \E a, b \in seen.since : Was(a, b)
    BY <1>2, <2>4
  <2> QED
    BY <1>4, <2>5, <2>6, Zenon
<1>5. CASE q.kind \notin {"legacy", "rename"} /\ q.target = q.caller
  <2>1. them = req.me
    BY <1>5 DEF Loaded
  <2>2. req.me \in Account
    BY <1>5 DEF Inv, Known, CallerKnown, Steps
  <2>3. PICK m \in seen.all : m.account[q.caller] = req.me
    BY <1>5 DEF Inv, Known, CallerKnown, Steps
  <2>4. Was(m, m)
    BY <1>5, <2>1, <2>2, <2>3, AccountFacts
  <2> QED
    BY <1>2, <1>5, <2>1, <2>2, <2>3, <2>4
<1> QED
  BY <1>3, <1>4, <1>5

LEMMA LoadTargetKeeps ==
  ASSUME Inv, LoadTarget
  PROVE  Inv'
<1> DEFINE q == req.query
           found == account[q.target]
           them == Loaded(q, req.me, found)
           barred == q.kind = "profile" /\ q.target # q.caller /\ ~MayList(Effective(req.me))
           inactive == q.ask = "active" /\ ~them.active
<1>1. /\ TypeOK /\ req.pc = "target" /\ WellFormed(q) /\ req.code = "200"
      /\ q.kind \in {"profile", "role", "validate", "legacy", "rename"}
      /\ UNCHANGED <<database, changes, seen, told>>
  BY DEF Inv, Known, KindAt, LoadTarget, Steps
<1>2. q \in Query /\ q.caller \in Users /\ q.target \in Users /\ found \in Account \cup {Gone}
  BY <1>1, RequestType
<1>3. /\ Now \in seen.since /\ Now \in seen.all /\ seen.since \subseteq seen.all /\ Now.account = account
  BY <1>1 DEF Inv, Known, SeenNow, Now
<1>4. q.kind # "legacy" =>
        \E m \in seen.all : /\ m.account[q.caller] \in Account /\ m.account[q.caller].active
                            /\ q.kind # "rename" => m.account[q.caller] = req.me
  BY <1>1 DEF Inv, Known, CallerKnown, Steps
<1>5. ASSUME Quiet, req'.pc = "answered", Answered' PROVE Inv'
  BY <1>1, <1>5, QuietKeeps, NothingAhead DEF Inv, Known, Quiet
<1>6. CASE found = Gone
  <2>1. Quiet /\ req'.pc = "answered" /\ req'.code = "404"
    BY <1>1, <1>6, Moves DEF LoadTarget, Quiet
  <2>2. RefusedWasTrue'
    BY <1>3, <1>6, <2>1, QuietKeeps DEF RefusedWasTrue, Quiet
  <2>3. AdmittedWasEntitled' /\ AnswerWasTrue'
    BY <2>1 DEF AdmittedWasEntitled, AnswerWasTrue
  <2>4. PromiseKept'
    BY <1>1, <1>6, <2>1 DEF PromiseKept, Quiet, database
  <2> QED
    BY <1>5, <2>1, <2>2, <2>3, <2>4 DEF Answered
<1>7. CASE found # Gone
  <2>1. /\ them \in Account
        /\ q.kind # "rename" =>
             \E m \in seen.since : m.account[q.target] \in Account
               /\ them = [m.account[q.target] EXCEPT !.roles = m.account[q.target].roles]
        /\ q.kind = "rename" =>
             \E m, n \in seen.since : m.account[q.target] \in Account /\ n.account[q.target] \in Account
               /\ them = [m.account[q.target] EXCEPT !.roles = n.account[q.target].roles]
    BY <1>1, <1>7, LoadedShown
  <2>2. q.kind # "rename" => \E m \in seen.since : m.account[q.target] = them /\ them # Gone
    BY <2>1, AccountFacts
  <2>3. q.ask = "active" => q.kind \in {"validate", "legacy"}
    BY <1>2, QueryType
  <2> HIDE DEF them
  <2>4. CASE barred \/ inactive
    <3>1. Quiet /\ req'.pc = "answered" /\ req'.code = "403"
      BY <1>1, <1>7, <2>4, Moves DEF LoadTarget, Quiet, them
    <3>2. RefusedWasTrue'
      <4>1. CASE barred
        <5>1. PICK m \in seen.all : m.account[q.caller] \in Account /\ m.account[q.caller] = req.me
          BY <1>4, <4>1
        <5>2. ~Entitled(q, m.account, m.grants) /\ m.account[q.caller] # Gone
          BY <4>1, <5>1, AccountFacts DEF Entitled
        <5> QED
          BY <3>1, <5>1, <5>2, QuietKeeps DEF RefusedWasTrue, Quiet
      <4>2. CASE inactive
        <5>1. PICK m \in seen.since : m.account[q.target] = them /\ them # Gone
          BY <2>2, <2>3, <4>2
        <5> QED
          BY <1>3, <3>1, <4>2, <5>1, QuietKeeps DEF RefusedWasTrue, Quiet
      <4> QED
        BY <2>4, <4>1, <4>2
    <3>3. AdmittedWasEntitled' /\ AnswerWasTrue'
      BY <3>1 DEF AdmittedWasEntitled, AnswerWasTrue
    <3>4. PromiseKept'
      <4>1. ASSUME q.caller \in told.by, q.kind = "profile", q.target # q.caller
            PROVE  "users:read" \notin told.codes
        <5>1. barred
          BY <2>3, <2>4, <4>1
        <5>2. req.me.roles = account[q.caller].roles /\ req.me.type = account[q.caller].type
          BY <1>1, <4>1 DEF Inv, Ahead, CopyFresh, Steps
        <5>3. ~MayList(Effective(account[q.caller]))
          BY <5>1, <5>2 DEF Effective
        <5>4. ALLOWED_ROLES["users:read"] = {"ADMIN", "STAFF"} /\ "users:read" \in DOMAIN ALLOWED_ROLES
          BY DEF ALLOWED_ROLES
        <5>5. account[q.caller] \in Account
              /\ told.codes = CodesFor(Effective(account[q.caller]), grants)
          BY <4>1 DEF Inv, ToldTrue
        <5> QED
          BY <1>2, <5>3, <5>4, <5>5, RulesMirrored DEF MayList
      <4> QED
        BY <1>1, <3>1, <4>1 DEF PromiseKept, Quiet
    <3> QED
      BY <1>5, <3>1, <3>2, <3>3, <3>4 DEF Answered
  <2>5. CASE ~barred /\ ~inactive
    <3>1. /\ Quiet /\ req'.code = "200" /\ req'.me = req.me /\ req'.them = them
          /\ req'.pc = IF q.kind \in {"profile", "rename"} THEN "directory" ELSE "answered"
      <4>1. req' = [req EXCEPT !.them = them,
                     !.pc = IF q.kind \in {"profile", "rename"} THEN "directory" ELSE "answered"]
        BY <1>7, <2>5 DEF LoadTarget, them
      <4> QED
        BY <1>1, <2>1, <4>1 DEF TypeOK, Request, Quiet, Steps
    <3>2. CASE q.kind \in {"role", "validate", "legacy"}
      <4>1. req'.pc = "answered"
        BY <3>1, <3>2
      <4>2. \E m \in seen.all : Entitled(q, m.account, m.grants)
        BY <1>3, <1>4, <3>2, AccountFacts DEF Entitled
      <4>3. PICK m \in seen.since : m.account[q.target] = them /\ them # Gone
        BY <2>2, <3>2
      <4>4. AdmittedWasEntitled'
        BY <1>3, <2>1, <2>5, <3>1, <4>1, <4>2, <4>3, QuietKeeps DEF AdmittedWasEntitled, Quiet
      <4>5. RefusedWasTrue' /\ PromiseKept'
        BY <3>1, <3>2 DEF RefusedWasTrue, PromiseKept, Quiet
      <4>6. m.account[q.target] # Gone
            /\ them = [m.account[q.target] EXCEPT !.roles = m.account[q.target].roles]
        BY <2>1, <4>3, AccountFacts
      <4>7. AnswerWasTrue'
        BY <3>1, <3>2, <4>6, QuietKeeps DEF AnswerWasTrue, Quiet
      <4> QED
        BY <1>5, <3>1, <4>1, <4>4, <4>5, <4>7 DEF Answered
    <3>3. CASE q.kind \in {"profile", "rename"}
      <4>1. req'.pc = "directory"
        BY <3>1, <3>3
      <4>2. KindAt'
        BY <1>1, <3>1, <3>3, <4>1 DEF KindAt, Quiet
      <4>3. CallerKnown' /\ CopyRefreshed'
        BY <1>1, <3>1, <4>1 DEF Inv, Known, CallerKnown, CopyRefreshed, Quiet, Steps
      <4>4. Checked'
        BY <2>1, <2>5, <3>1, <4>1 DEF Checked, Shown, Quiet
      <4>5. CatalogueSoFar' /\ CopyFresh'
        BY <1>1, <3>1, <4>1 DEF Inv, Ahead, CatalogueSoFar, CopyFresh, Quiet, Steps, database
      <4> QED
        BY <3>1, <4>1, <4>2, <4>3, <4>4, <4>5, QuietKeeps, NothingAnswered DEF Inv, Known, Ahead
    <3> QED
      BY <1>1, <3>2, <3>3
  <2> QED
    BY <2>4, <2>5
<1> QED
  BY <1>6, <1>7

(* The roles a rename names when its columns are of one moment and its role*)
(* rows of another.                                                        *)
LEMMA RolesOfTwoMoments ==
  ASSUME Inv, NEW a \in seen.since, NEW b \in seen.since, Shown(a, b)
  PROVE  LET x == a.account[req.query.target]
             y == b.account[req.query.target]
         IN \/ Effective(req.them) \in {Effective(x), Effective(y)}
            \/ /\ x.type # y.type /\ x.roles # {} /\ y.roles = {}
               /\ seen.since \ {a, b} # {}
<1> DEFINE u == req.query.target
           x == a.account[u]
           y == b.account[u]
<1>1. u \in Users /\ x \in Account /\ y \in Account /\ x # Gone /\ y # Gone
  BY RequestType, AccountFacts DEF Inv, Shown
<1>2. req.them.type = x.type /\ req.them.roles = y.roles
  BY <1>1, AccountFacts DEF Shown
<1>3. CASE y.roles # {} \/ x.type = y.type
  <2>1. Effective(req.them) = Effective(y)
    BY <1>2, <1>3 DEF Effective
  <2> QED
    BY <2>1
<1>4. CASE y.roles = {} /\ x.roles = {}
  <2>1. Effective(req.them) = Effective(x)
    BY <1>2, <1>4 DEF Effective
  <2> QED
    BY <2>1
<1>5. CASE y.roles = {} /\ x.roles # {} /\ x.type # y.type
  <2>1. seen.since \ {a, b} # {}
    BY <1>1, <1>5 DEF Inv, OneAtATime
  <2> QED
    BY <1>5, <2>1
<1> QED
  BY <1>3, <1>4, <1>5

LEMMA LookUpKeeps ==
  ASSUME Inv, LookUp
  PROVE  Inv'
<1> DEFINE q == req.query
<1>1. /\ TypeOK /\ req.pc = "directory" /\ q.kind \in {"profile", "rename"} /\ WellFormed(q)
      /\ UNCHANGED <<database, changes, seen, told>>
  BY DEF Inv, Known, KindAt, LookUp
<1>2. Quiet /\ req'.pc = "answered" /\ req'.code = "200" /\ req'.them = req.them
  BY <1>1, Moves DEF LookUp, Quiet
<1>3. q.ask # "active" /\ q \in Query /\ q.caller \in Users
  BY <1>1, RequestType, QueryType
<1>4. PICK m \in seen.all : /\ m.account[q.caller] \in Account /\ m.account[q.caller].active
                            /\ q.kind # "rename" => m.account[q.caller] = req.me
  BY <1>1 DEF Inv, Known, CallerKnown, Steps
<1>5. /\ q.kind = "profile" => q.target = q.caller \/ MayList(Effective(req.me))
      /\ q.kind = "profile" => \E a \in seen.since : Shown(a, a)
      /\ q.kind = "rename" => \E a, b \in seen.since : Shown(a, b)
      /\ q.kind = "rename" => q.ask # "email" /\ q.caller \notin Demo
  BY <1>1 DEF Inv, Known, CallerKnown, Ahead, Checked, Steps
<1>6. Entitled(q, m.account, m.grants)
  BY <1>1, <1>4, <1>5, AccountFacts DEF Entitled
<1>7. AdmittedWasEntitled'
  BY <1>2, <1>3, <1>6 DEF AdmittedWasEntitled, Quiet
<1>8. RefusedWasTrue'
  BY <1>2 DEF RefusedWasTrue
<1>9. AnswerWasTrue'
  <2>1. CASE q.kind = "profile"
    <3>1. PICK a \in seen.since : Shown(a, a)
      BY <1>5, <2>1
    <3>2. a.account[q.target] # Gone
          /\ req.them = [a.account[q.target] EXCEPT !.roles = a.account[q.target].roles]
      BY <3>1, AccountFacts DEF Shown
    <3> QED
      BY <1>2, <2>1, <3>2 DEF AnswerWasTrue, Quiet
  <2>2. CASE q.kind = "rename"
    <3>1. PICK a \in seen.since, b \in seen.since : Shown(a, b)
      BY <1>5, <2>2
    <3>2. a.account[q.target] # Gone /\ b.account[q.target] # Gone
          /\ req.them = [a.account[q.target] EXCEPT !.roles = b.account[q.target].roles]
      BY <3>1, AccountFacts DEF Shown
    <3> DEFINE Match(c, d, them, target, since) ==
                 LET At(k) == k.account[target]
                 IN /\ /\ At(c) # Gone /\ At(d) # Gone
                       /\ them = [At(c) EXCEPT !.roles = At(d).roles]
                    /\ \/ Effective(them) \in {Effective(At(c)), Effective(At(d))}
                       \/ /\ At(c).type # At(d).type /\ At(c).roles # {} /\ At(d).roles = {}
                          /\ since \ {c, d} # {}
    <3>3. req'.query = q /\ seen' = seen /\ req'.them = req.them
      BY <1>2 DEF Quiet
    <3>4. Match(a, b, req.them, q.target, seen.since)
      BY <3>1, <3>2, RolesOfTwoMoments
    <3>5. \E x, y \in seen'.since : Match(x, y, req'.them, req'.query.target, seen'.since)
      <4> HIDE DEF Match
      <4>1. /\ Match(a, b, req'.them, req'.query.target, seen'.since)
            /\ a \in seen'.since /\ b \in seen'.since
        BY <3>3, <3>4
      <4> QED
        BY <4>1, Zenon
    <3> QED
      BY <2>2, <3>3, <3>5, Zenon DEF AnswerWasTrue
  <2> QED
    BY <1>1, <2>1, <2>2
<1>10. PromiseKept'
  <2>1. ASSUME q.caller \in told.by, q.kind = "profile", q.target # q.caller
        PROVE  "users:read" \in told.codes
    <3>1. req.me.roles = account[q.caller].roles /\ req.me.type = account[q.caller].type
      BY <1>1, <2>1 DEF Inv, Ahead, CopyFresh, Steps
    <3>2. MayList(Effective(account[q.caller]))
      BY <1>5, <2>1, <3>1 DEF Effective
    <3>3. ALLOWED_ROLES["users:read"] = {"ADMIN", "STAFF"} /\ "users:read" \in DOMAIN ALLOWED_ROLES
      BY DEF ALLOWED_ROLES
    <3>4. account[q.caller] \in Account
          /\ told.codes = CodesFor(Effective(account[q.caller]), grants)
      BY <2>1 DEF Inv, ToldTrue
    <3> QED
      BY <1>3, <3>2, <3>3, <3>4, RulesMirrored DEF MayList
  <2> QED
    BY <1>1, <1>2, <2>1 DEF PromiseKept, Quiet
<1> QED
  BY <1>1, <1>2, <1>7, <1>8, <1>9, <1>10, QuietKeeps, NothingAhead DEF Inv, Known, Answered, Quiet

-----------------------------------------------------------------------------
(* The ends of a request, and what others do.                              *)

LEMMA BeginKeeps ==
  ASSUME Inv, NEW q \in Query, Begin(q)
  PROVE  Inv'
<1>1. TypeOK /\ req' = Fresh(q) /\ WellFormed(q)
      /\ seen' = [all |-> {Now}, since |-> {Now}] /\ UNCHANGED <<database, changes, told>>
  BY DEF Inv, Begin
<1>2. Now \in Moment /\ Now' = Now
  BY <1>1, RequestType DEF Now, database
<1>3. /\ req' \in Request /\ req'.pc = (IF q.kind = "legacy" THEN "target" ELSE "caller")
      /\ req'.query = q /\ req'.code = "200" /\ req'.listed = 0 /\ req'.shown = {}
  BY <1>1 DEF Fresh, Request, Steps, Grants
<1>4. TypeOK'
  BY <1>1, <1>2, <1>3 DEF TypeOK, History, database
<1>5. Known'
  BY <1>1, <1>2, <1>3 DEF Known, KindAt, SeenNow, CallerKnown, CopyRefreshed
<1>6. Ahead'
  BY <1>3 DEF Ahead, Checked, CatalogueSoFar, CopyFresh
<1>7. GrantsMirrorRules' /\ ToldTrue' /\ OneAtATime'
  BY <1>1 DEF Inv, GrantsMirrorRules, ToldTrue, OneAtATime, database
<1> QED
  BY <1>3, <1>4, <1>5, <1>6, <1>7, NothingAnswered DEF Inv

LEMMA IdleType ==
  Idle \in Request /\ Idle.pc = "idle"
<1>1. PICK u : u \in Users
  BY AccessAssumption
<1>2. [kind |-> "me", caller |-> u, target |-> u, ask |-> "nothing"] \in Query
  BY <1>1 DEF Query
<1>3. (CHOOSE q \in Query : TRUE) \in Query
  BY <1>2
<1> DEFINE q == CHOOSE x \in Query : TRUE
<1>4. Fresh(q) \in Request
  BY <1>3 DEF Fresh, Request, Steps, Grants
<1>5. Idle = [Fresh(q) EXCEPT !.pc = "idle"]
  BY DEF Idle
<1> HIDE DEF q
<1> QED
  BY <1>4, <1>5 DEF Request

(* Nothing is known, and nothing is promised, between two requests.        *)
LEMMA NothingWhileIdle ==
  ASSUME req'.pc = "idle"
  PROVE  Known' /\ Ahead' /\ Answered'
BY NothingAnswered
DEF Known, KindAt, SeenNow, CallerKnown, CopyRefreshed, Ahead, Checked, CatalogueSoFar,
    CopyFresh, Steps

LEMMA FinishKeeps ==
  ASSUME Inv, Finish
  PROVE  Inv'
<1>1. TypeOK /\ req' = Idle
      /\ seen' = [all |-> {}, since |-> {}] /\ UNCHANGED <<database, changes, told>>
  BY DEF Inv, Finish
<1>2. TypeOK'
  BY <1>1, IdleType DEF TypeOK, History, database
<1>3. GrantsMirrorRules' /\ ToldTrue' /\ OneAtATime'
  BY <1>1 DEF Inv, GrantsMirrorRules, ToldTrue, OneAtATime, database
<1> QED
  BY <1>1, <1>2, <1>3, IdleType, NothingWhileIdle DEF Inv

(* A commit that does not change both type and roles of an account.        *)
OneOfTwo ==
  \A u \in Users : account[u] # Gone /\ account'[u] # Gone =>
    account'[u].type = account[u].type \/ account'[u].roles = account[u].roles

(* A change of accounts or grants that takes no grant away, and gives none *)
(* a RoleChecker stands for.                                               *)
LEMMA ChangeKeeps ==
  ASSUME Inv, Change, account' \in [Users -> Account \cup {Gone}], grants' \in Grants,
         grants \subseteq grants', GrantsMirrorRules', OneOfTwo
  PROVE  Inv'
<1>1. /\ TypeOK /\ req' = req /\ req.pc # "answered" /\ changes < MaxChanges /\ changes' = changes + 1
      /\ seen' = IF req.pc # "idle"
                 THEN [all |-> seen.all \cup {Now'}, since |-> seen.since \cup {Now'}] ELSE seen
      /\ told'.by = {} /\ told' = [by |-> {}, codes |-> {}]
  BY DEF Inv, Change
<1>2. Now' \in Moment
  BY DEF Now, Moment
<1>3. TypeOK'
  <2>1. changes' \in 0..MaxChanges
    BY <1>1, AccessAssumption DEF TypeOK
  <2>2. seen' \in History
    BY <1>1, <1>2, RequestType DEF TypeOK, History
  <2> QED
    BY <1>1, <2>1, <2>2 DEF TypeOK
<1>4. ToldTrue'
  BY <1>1 DEF ToldTrue
<1>5. CASE req.pc = "idle"
  <2>1. OneAtATime'
    BY <1>1, <1>5 DEF Inv, OneAtATime
  <2> QED
    BY <1>1, <1>3, <1>4, <1>5, <2>1, NothingWhileIdle DEF Inv
<1>6. CASE req.pc # "idle"
  <2>1. /\ seen.all \subseteq seen'.all /\ seen.since \subseteq seen'.since
        /\ seen'.all = seen.all \cup {Now'} /\ seen'.since = seen.since \cup {Now'}
    BY <1>1, <1>6
  <2>2. KindAt'
    BY <1>1 DEF Inv, Known, KindAt
  <2>3. SeenNow'
    BY <1>1, <1>6, <2>1 DEF Inv, Known, SeenNow
  <2>4. CallerKnown' /\ CopyRefreshed'
    BY <1>1, <2>1 DEF Inv, Known, CallerKnown, CopyRefreshed
  <2>5. Checked'
    BY <1>1, <2>1 DEF Inv, Ahead, Checked, Shown
  <2>6. CatalogueSoFar'
    <3>1. CASE req.pc = "catalogue"
      <4>1. \E m, n \in seen.all : Entitled(req.query, m.account, n.grants)
        BY <3>1 DEF Inv, Ahead, CatalogueSoFar
      <4>2. PICK m \in seen.all :
              /\ m.grants \subseteq grants
              /\ \A g \in m.grants, i \in 1..req.listed : g[1] = RoleNames[i] => g \in req.shown
        BY <3>1 DEF Inv, Ahead, CatalogueSoFar
      <4>3. req.listed < Len(RoleNames) /\ req.shown \subseteq grants'
        BY <3>1 DEF Inv, Ahead, CatalogueSoFar
      <4>4. m \in seen'.all /\ m.grants \subseteq grants'
        BY <2>1, <4>2
      <4> QED
        BY <1>1, <2>1, <3>1, <4>1, <4>2, <4>3, <4>4 DEF CatalogueSoFar
    <3>2. CASE req.pc # "catalogue"
      BY <1>1, <3>2 DEF Inv, Ahead, CatalogueSoFar
    <3> QED
      BY <3>1, <3>2
  <2>7. CopyFresh'
    BY <1>1 DEF CopyFresh
  <2>8. OneAtATime'
    <3>1. Now \in seen.since /\ Now.account = account /\ Now'.account = account'
      BY <1>6 DEF Inv, Known, SeenNow, Now
    <3> DEFINE Differ(m, n, u) ==
                 /\ m.account[u] # Gone /\ n.account[u] # Gone
                 /\ m.account[u].type # n.account[u].type /\ m.account[u].roles # n.account[u].roles
    <3>2. ASSUME NEW m \in seen.since, NEW u \in Users, Differ(m, Now', u) \/ Differ(Now', m, u)
          PROVE  (Now # m /\ Now # Now') \/ seen.since \ {m, Now'} # {}
      <4>1. Now # m
        BY <3>1, <3>2 DEF OneOfTwo
      <4>2. CASE Now = Now'
        BY <3>1, <3>2, <4>2 DEF Inv, OneAtATime
      <4> QED
        BY <4>1, <4>2
    <3>3. ASSUME NEW m \in seen'.since, NEW n \in seen'.since, NEW u \in Users, Differ(m, n, u)
          PROVE  seen'.since \ {m, n} # {}
      <4>1. CASE m \in seen.since /\ n \in seen.since
        BY <2>1, <3>3, <4>1 DEF Inv, OneAtATime
      <4>2. CASE m = Now' /\ n = Now'
        BY <3>3, <4>2
      <4>3. CASE m \in seen.since /\ n = Now'
        BY <2>1, <3>1, <3>2, <3>3, <4>3
      <4>4. CASE m = Now' /\ n \in seen.since
        BY <2>1, <3>1, <3>2, <3>3, <4>4
      <4> QED
        BY <2>1, <4>1, <4>2, <4>3, <4>4
    <3> QED
      BY <3>3 DEF OneAtATime
  <2> QED
    BY <1>1, <1>3, <1>4, <2>2, <2>3, <2>4, <2>5, <2>6, <2>7, <2>8, NothingAnswered
    DEF Inv, Known, Ahead
<1> QED
  BY <1>5, <1>6

LEMMA OthersKeep ==
  ASSUME Inv, Others
  PROVE  Inv'
<1>1. TypeOK /\ GrantsMirrorRules
  BY DEF Inv
<1>2. ASSUME NEW u \in Users, NEW a \in Account \cup {Gone}, Becomes(u, a),
             a = Gone \/ a.type = account[u].type \/ a.roles = account[u].roles
      PROVE  Inv'
  <2>1. /\ Change /\ UNCHANGED grants /\ account' = [account EXCEPT ![u] = a]
    BY <1>2 DEF Becomes
  <2>2. account' \in [Users -> Account \cup {Gone}] /\ grants' \in Grants
    BY <1>1, <2>1 DEF TypeOK
  <2>3. GrantsMirrorRules'
    BY <1>1, <2>1 DEF GrantsMirrorRules
  <2>4. OneOfTwo
    BY <1>1, <1>2, <2>1 DEF OneOfTwo, TypeOK
  <2> QED
    BY <2>1, <2>2, <2>3, <2>4, ChangeKeeps
<1>3. ASSUME NEW u \in Users, account[u] # Gone,
             ChangeStatus(u) \/ AssignRole(u) \/ RevokeRole(u)
               \/ ReplaceRole(u) \/ Edit(u) \/ Delete(u)
      PROVE  Inv'
  <2>1. account[u] \in Account
    BY <1>1, <1>3 DEF TypeOK
  <2>2. CASE ChangeStatus(u)
    <3> DEFINE a == [account[u] EXCEPT !.active = ~@]
    <3>1. a \in Account /\ a.roles = account[u].roles
      BY <2>1 DEF Account
    <3>2. Becomes(u, a)
      BY <2>2 DEF ChangeStatus
    <3> HIDE DEF a
    <3> QED
      BY <1>2, <3>1, <3>2
  <2>3. CASE AssignRole(u)
    <3>1. PICK r \in RolesInUse :
            Becomes(u, [account[u] EXCEPT !.roles = @ \cup {r}])
      BY <2>3 DEF AssignRole
    <3> DEFINE a == [account[u] EXCEPT !.roles = @ \cup {r}]
    <3>2. a \in Account /\ a.type = account[u].type
      BY <2>1 DEF Account
    <3>3. Becomes(u, a)
      BY <3>1
    <3> HIDE DEF a
    <3> QED
      BY <1>2, <3>2, <3>3
  <2>4. CASE RevokeRole(u)
    <3>1. PICK r \in account[u].roles :
            Becomes(u, [account[u] EXCEPT !.roles = @ \ {r}])
      BY <2>4 DEF RevokeRole
    <3> DEFINE a == [account[u] EXCEPT !.roles = @ \ {r}]
    <3>2. a \in Account /\ a.type = account[u].type
      BY <2>1 DEF Account
    <3>3. Becomes(u, a)
      BY <3>1
    <3> HIDE DEF a
    <3> QED
      BY <1>2, <3>2, <3>3
  <2>5. CASE ReplaceRole(u)
    <3>1. PICK r \in account[u].roles, new \in RolesInUse \ account[u].roles :
            Becomes(u, [account[u] EXCEPT !.roles = (@ \ {r}) \cup {new}])
      BY <2>5 DEF ReplaceRole
    <3> DEFINE a == [account[u] EXCEPT !.roles = (@ \ {r}) \cup {new}]
    <3>2. a \in Account /\ a.type = account[u].type
      BY <2>1 DEF Account
    <3>3. Becomes(u, a)
      BY <3>1
    <3> HIDE DEF a
    <3> QED
      BY <1>2, <3>2, <3>3
  <2>6. CASE Edit(u)
    <3>1. PICK n \in Names, t \in AccountTypes :
            Becomes(u, [account[u] EXCEPT !.name = n, !.type = t])
      BY <2>6 DEF Edit
    <3> DEFINE a == [account[u] EXCEPT !.name = n, !.type = t]
    <3>2. a \in Account /\ a.roles = account[u].roles
      BY <2>1 DEF Account
    <3>3. Becomes(u, a)
      BY <3>1
    <3> HIDE DEF a
    <3> QED
      BY <1>2, <3>2, <3>3
  <2>7. CASE Delete(u)
    BY <1>2, <2>7 DEF Delete
  <2> QED
    BY <1>3, <2>2, <2>3, <2>4, <2>5, <2>6, <2>7
<1>4. CASE SeedRelease
  <2>1. /\ Change /\ UNCHANGED account /\ grants' = grants \cup NewGrants
    BY <1>4 DEF SeedRelease
  <2>2. account' \in [Users -> Account \cup {Gone}] /\ grants' \in Grants
    BY <1>1, <2>1, AccessAssumption DEF TypeOK, Grants
  <2>3. \A c \in DOMAIN ALLOWED_ROLES : \A r : <<r, c>> \notin NewGrants
    <3>1. \A g \in NewGrants : g[2] \notin DOMAIN ALLOWED_ROLES
      BY AccessAssumption
    <3> QED
      BY <3>1
  <2>4. GrantsMirrorRules'
    BY <1>1, <2>1, <2>3 DEF GrantsMirrorRules
  <2>5. OneOfTwo
    BY <2>1 DEF OneOfTwo
  <2> QED
    BY <2>1, <2>2, <2>4, <2>5, ChangeKeeps
<1> QED
  BY <1>3, <1>4 DEF Others

-----------------------------------------------------------------------------
(* The seed's grants are the rules in other words.                         *)
LEMMA SeedMirrorsRules ==
  ASSUME Init
  PROVE  grants \in Grants /\ GrantsMirrorRules
<1>1. \A r \in ROLES : ROLE_PERMISSIONS[r] \subseteq PERMISSIONS
  BY DEF ROLE_PERMISSIONS, PERMISSIONS
<1>2. \A g : g \in grants <=> \E r \in ROLES : g \in {r} \X ROLE_PERMISSIONS[r]
  BY DEF Init
<1>3. grants \in Grants
  BY <1>1, <1>2 DEF Grants
<1>4. \A r \in ROLES : \A c : <<r, c>> \in grants <=> c \in ROLE_PERMISSIONS[r]
  BY <1>2
<1>5. "ADMIN" \in ROLES /\ "STAFF" \in ROLES
  BY DEF ROLES, RoleNames
<1>6. ASSUME NEW r \in ROLES, NEW c \in DOMAIN ALLOWED_ROLES
      PROVE  c \in ROLE_PERMISSIONS[r] <=> r \in ALLOWED_ROLES[c]
  <2>1. c \in {"users:read", "users:manage", "users:manage_status", "roles:assign"}
    BY DEF ALLOWED_ROLES
  <2>2. ALLOWED_ROLES[c] = IF c = "users:read" THEN {"ADMIN", "STAFF"} ELSE {"ADMIN"}
    BY <2>1 DEF ALLOWED_ROLES
  <2>3. ROLE_PERMISSIONS[r] = CASE r = "ADMIN" -> PERMISSIONS
                                [] r = "STAFF" -> {"profile:read_own", "users:read", "roles:read"}
                                [] OTHER -> {"profile:read_own"}
    BY DEF ROLE_PERMISSIONS
  <2>4. CASE r = "ADMIN"
    BY <2>1, <2>2, <2>3, <2>4 DEF PERMISSIONS
  <2>5. CASE r = "STAFF"
    BY <2>1, <2>2, <2>3, <2>5
  <2>6. CASE r \notin {"ADMIN", "STAFF"}
    BY <2>1, <2>2, <2>3, <2>6
  <2> QED
    BY <2>4, <2>5, <2>6
<1>7. GrantsMirrorRules
  BY <1>4, <1>6 DEF GrantsMirrorRules
<1> QED
  BY <1>3, <1>7

LEMMA Invariant == Spec => []Inv
<1>1. Init => Inv
  <2> SUFFICES ASSUME Init PROVE Inv
    OBVIOUS
  <2>1. req.pc = "idle" /\ req \in Request /\ told.by = {}
    BY IdleType DEF Init
  <2>2. TypeOK
    BY <2>1, SeedMirrorsRules, AccessAssumption DEF Init, TypeOK, History
  <2>3. Known /\ Ahead /\ Answered
    BY <2>1
    DEF Known, KindAt, SeenNow, CallerKnown, CopyRefreshed, Ahead, Checked, CatalogueSoFar,
        CopyFresh, Steps, Answered, AdmittedWasEntitled, RefusedWasTrue, AnswerWasTrue, PromiseKept
  <2>4. OneAtATime
    BY DEF Init, OneAtATime
  <2> QED
    BY <2>1, <2>2, <2>3, <2>4, SeedMirrorsRules DEF Inv, ToldTrue
<1>2. ASSUME Inv, UNCHANGED vars PROVE Inv'
  <2>1. UNCHANGED <<account, grants, req, changes, seen, told>> /\ Now' = Now
    BY <1>2 DEF vars, database, Now
  <2>2. TypeOK'
    BY <1>2, <2>1 DEF Inv, TypeOK
  <2>3. KindAt' /\ SeenNow' /\ CallerKnown' /\ CopyRefreshed'
    BY <1>2, <2>1 DEF Inv, Known, KindAt, SeenNow, CallerKnown, CopyRefreshed
  <2>4. Checked' /\ CatalogueSoFar' /\ CopyFresh'
    <3>1. Checked'
      <4>1. Checked /\ \A m, n : Shown(m, n)' <=> Shown(m, n)
        BY <1>2, <2>1 DEF Inv, Ahead, Shown
      <4> QED
        BY <2>1, <4>1 DEF Checked
    <3>2. CatalogueSoFar'
      BY <1>2, <2>1 DEF Inv, Ahead, CatalogueSoFar
    <3>3. CopyFresh'
      BY <1>2, <2>1 DEF Inv, Ahead, CopyFresh
    <3> QED
      BY <3>1, <3>2, <3>3
  <2>5. GrantsMirrorRules' /\ ToldTrue' /\ OneAtATime'
    BY <1>2, <2>1 DEF Inv, GrantsMirrorRules, ToldTrue, OneAtATime
  <2>6. AdmittedWasEntitled'
    BY <1>2, <2>1 DEF Inv, Answered, AdmittedWasEntitled
  <2>7. RefusedWasTrue'
    BY <1>2, <2>1 DEF Inv, Answered, RefusedWasTrue
  <2>8. AnswerWasTrue'
    BY <1>2, <2>1 DEF Inv, Answered, AnswerWasTrue
  <2>9. PromiseKept'
    BY <1>2, <2>1 DEF Inv, Answered, PromiseKept
  <2> QED
    BY <2>2, <2>3, <2>4, <2>5, <2>6, <2>7, <2>8, <2>9 DEF Inv, Known, Ahead, Answered
<1>3. Inv /\ [Next]_vars => Inv'
  BY <1>2, BeginKeeps, LoadCallerKeeps, QueryCodesKeeps, ListRoleKeeps, UpdateKeeps, RefreshKeeps,
     LoadTargetKeeps, LookUpKeeps, FinishKeeps, OthersKeep DEF Next, Serve
<1> QED
  BY <1>1, <1>3, PTL DEF Spec

(* Every variable stays in its range.                                      *)
THEOREM TypeCorrect == Spec => []TypeOK
<1>1. Inv => TypeOK
  BY DEF Inv
<1> QED
  BY <1>1, Invariant, PTL

(* dependencies/auth.py: whoever is let in was there, active and entitled  *)
(* while the request ran, though the roles are checked on a copy.          *)
THEOREM OnlyEntitledAdmitted == Spec => []AdmittedWasEntitled
<1>1. Inv => AdmittedWasEntitled
  BY DEF Inv, Answered
<1> QED
  BY <1>1, Invariant, PTL

(* A refusal had a reason that held while the request ran, and that is     *)
(* never the Directory's failure.                                          *)
THEOREM RefusalsTrue == Spec => []RefusedWasTrue
<1>1. Inv => RefusedWasTrue
  BY DEF Inv, Answered
<1> QED
  BY <1>1, Invariant, PTL

(* What profiles, validations, roles, permissions and the catalogue say    *)
(* was so while the request ran.                                           *)
THEOREM AnswersTrue == Spec => []AnswerWasTrue
<1>1. Inv => AnswerWasTrue
  BY DEF Inv, Answered
<1> QED
  BY <1>1, Invariant, PTL

(* reference_data.py and the RoleCheckers agree: /auth/me promises what    *)
(* the endpoints keep.                                                     *)
THEOREM PromisesKept == Spec => []PromiseKept
<1>1. Inv => PromiseKept
  BY DEF Inv, Answered
<1> QED
  BY <1>1, Invariant, PTL
=============================================================================
