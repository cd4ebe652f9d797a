----------------------------- MODULE Eligibility -----------------------------
(***************************************************************************)
(* GET /validation/users/{id}/eligibility (services/eligibility_service.py *)
(* and integrations/directory_client.py): may this user act for that unit? *)
(*                                                                         *)
(* The account and its roles are read once from the Identity database; the *)
(* relationship comes from one to four calls to the Directory Service,     *)
(* another team's program, which may be down or answer out of contract.    *)
(* Between those steps administrators change either side.                  *)
(*                                                                         *)
(* Requests only read, so they do not disturb each other: one is enough.   *)
(* The account exists; an unknown one is a 404 before anything else.       *)
(* Of each kind of unit only the one a query may name is told apart, so a  *)
(* query's units, a responsibility's and an affiliation's are sets of      *)
(* kinds.                                                                  *)
(***************************************************************************)
EXTENDS Naturals

CONSTANTS
  Roles,          \* role names
  NoRole,         \* required_role is not given
  Catalogues,     \* sets of kinds whose unit may exist in the Directory
  Portfolios,     \* sets of responsibilities a user may have in the Directory
  Memberships,    \* sets of affiliations a user may have in the Directory
  MaxChanges      \* bound on the changes while a request is on its way

Kinds == {"service_unit", "department", "faculty"}

Responsibility == [units : SUBSET Kinds, active : BOOLEAN]

ASSUME EligibilityAssumption ==
  /\ NoRole \notin Roles
  /\ Catalogues \subseteq SUBSET Kinds
  /\ Portfolios \subseteq SUBSET Responsibility
  /\ Memberships \subseteq SUBSET (SUBSET {"department", "faculty"})
  /\ MaxChanges \in Nat

VARIABLES
  active,             \* users.status is ACTIVE
  roles,              \* which of Roles are among the user's effective roles
  units,              \* Directory: the kinds whose unit exists
  responsibilities,   \* Directory: the user's responsibilities
  affiliations,       \* Directory: the user's affiliations
  req,                \* the request and its answer
  seen                \* history: what was so while the request was on its way

identity == <<active, roles>>

directory == <<units, responsibilities, affiliations>>

vars == <<identity, directory, req, seen>>

Query ==
  [role : Roles \cup {NoRole}, relationship : {"NONE", "AFFILIATION", "RESPONSIBILITY"},
   units : SUBSET Kinds]

(* validate_query: else 422.                                               *)
Valid(q) ==
  /\ q.relationship = "NONE" <=> q.units = {}
  /\ q.relationship = "AFFILIATION" => "service_unit" \notin q.units

Reasons ==
  {"ACCOUNT_INACTIVE", "ROLE_NOT_HELD", "NO_MATCHING_RESPONSIBILITY",
   "RESPONSIBILITY_INACTIVE", "NO_AFFILIATION", "AFFILIATION_MISMATCH"}

Calls == {"resolve", "responsibilities", "affiliations", "primary"}

Request ==
  [pc : {"idle", "load", "answered"} \cup Calls, query : Query, todo : SUBSET Kinds,
   reasons : SUBSET Reasons, code : {"200", "422", "502", "503"}]

Checks == {"account", "role", "relationship"}

(* Of every moment since the request began the checks that would have      *)
(* passed then and the reasons there would have been; which database has   *)
(* changed; whether the Directory was asked.                               *)
History ==
  [passed : SUBSET (SUBSET Checks), reasons : SUBSET Reasons,
   changed : SUBSET {"identity", "directory"}, changes : 0..MaxChanges, calls : BOOLEAN]

-----------------------------------------------------------------------------
(* What is so at this moment, of the checks a query asks for.              *)

Matching(wanted) == {r \in responsibilities : wanted \subseteq r.units}

Affiliated(wanted) == \E a \in affiliations : wanted \subseteq a

Passing(q) ==
  {c \in Checks :
     \/ c = "account" /\ active
     \/ c = "role" /\ q.role \in roles
     \/ c = "relationship" /\ q.relationship = "RESPONSIBILITY" /\ \E r \in Matching(q.units) : r.active
     \/ c = "relationship" /\ q.relationship = "AFFILIATION" /\ Affiliated(q.units)}

Asked(q) ==
  {"account"} \cup (IF q.role = NoRole THEN {} ELSE {"role"})
              \cup (IF q.relationship = "NONE" THEN {} ELSE {"relationship"})

Failing(q) ==
  {x \in Reasons :
     \/ x = "ACCOUNT_INACTIVE" /\ ~active
     \/ x = "ROLE_NOT_HELD" /\ q.role # NoRole /\ q.role \notin roles
     \/ /\ q.relationship = "RESPONSIBILITY"
        /\ \/ x = "NO_MATCHING_RESPONSIBILITY" /\ (Matching(q.units) = {} \/ ~(q.units \subseteq units))
           \/ /\ x = "RESPONSIBILITY_INACTIVE"
              /\ Matching(q.units) # {} /\ \A r \in Matching(q.units) : ~r.active
     \/ /\ q.relationship = "AFFILIATION"
        /\ ~Affiliated(q.units)
        /\ x = "AFFILIATION_MISMATCH" \/ (x = "NO_AFFILIATION" /\ affiliations = {})}

-----------------------------------------------------------------------------
NoQuery == [role |-> NoRole, relationship |-> "NONE", units |-> {}]

Init ==
  /\ active \in BOOLEAN
  /\ roles \in SUBSET Roles
  /\ units \in Catalogues
  /\ responsibilities \in Portfolios
  /\ affiliations \in Memberships
  /\ req = [pc |-> "idle", query |-> NoQuery, todo |-> {}, reasons |-> {}, code |-> "200"]
  /\ seen = [passed |-> {}, reasons |-> {}, changed |-> {}, changes |-> 0, calls |-> FALSE]

(* validate_query comes before everything else.                            *)
Begin(q) ==
  /\ req.pc \in {"idle", "answered"}
  /\ req' = [pc |-> IF Valid(q) THEN "load" ELSE "answered", query |-> q, todo |-> q.units,
             reasons |-> {}, code |-> IF Valid(q) THEN "200" ELSE "422"]
  /\ seen' = [passed |-> {Passing(q)}, reasons |-> Failing(q), changed |-> {}, changes |-> 0,
              calls |-> FALSE]
  /\ UNCHANGED <<identity, directory>>

(* Faulty variant: the status is not looked at when a role is asked for.   *)
RoleOnly(q) ==
  Failing(q) \cap (IF q.role = NoRole THEN {"ACCOUNT_INACTIVE"} ELSE {"ROLE_NOT_HELD"})

(* Stage 1.                                                                *)
IdentityReasons(q) == Failing(q) \cap {"ACCOUNT_INACTIVE", "ROLE_NOT_HELD"}

FirstCall(q) ==
  CASE q.relationship = "NONE" -> "answered"
    [] q.relationship = "RESPONSIBILITY" -> "resolve"
    [] q.relationship = "AFFILIATION" -> "affiliations"

(* Faulty variant: the Directory is asked whatever stage 1 says.           *)
LoadAndAsk ==
  /\ req.pc = "load"
  /\ req' = [req EXCEPT !.pc = FirstCall(req.query), !.reasons = IdentityReasons(req.query)]
  /\ UNCHANGED <<identity, directory, seen>>

(* find_user_or_404 and stage 1; stage 2 only if stage 1 found no reason.  *)
Load ==
  /\ req.pc = "load"
  /\ LET found == IdentityReasons(req.query)
     IN req' = [req EXCEPT !.pc = IF found = {} THEN FirstCall(req.query) ELSE "answered",
                           !.reasons = found]
  /\ UNCHANGED <<identity, directory, seen>>

Call ==
  /\ seen' = [seen EXCEPT !.calls = TRUE]
  /\ UNCHANGED <<identity, directory>>

(* No connection, a timeout or a 5xx: 503; anything out of contract: 502.  *)
DirectoryFails ==
  /\ req.pc \in Calls
  /\ \E code \in {"502", "503"} : req' = [req EXCEPT !.pc = "answered", !.code = code]
  /\ Call

(* _check_responsibility resolves the service unit, then the department,   *)
(* then the faculty.                                                       *)
Rank(k) == CASE k = "service_unit" -> 1 [] k = "department" -> 2 [] k = "faculty" -> 3

(* resolve_unit_id: an unknown unit ends it.                               *)
ResolveUnit ==
  /\ req.pc = "resolve"
  /\ \E k \in req.todo :
       /\ \A j \in req.todo : Rank(k) <= Rank(j)
       /\ LET left == req.todo \ {k}
          IN IF k \in units
             THEN req' = [req EXCEPT !.todo = left, !.pc = IF left = {} THEN "responsibilities" ELSE @]
             ELSE req' = [req EXCEPT !.pc = "answered", !.reasons = {"NO_MATCHING_RESPONSIBILITY"}]
  /\ Call

(* Faulty variant: an inactive responsibility is as good as an active one. *)
AnyOutcome(found) == IF found = {} THEN {"NO_MATCHING_RESPONSIBILITY"} ELSE {}

(* The Directory answers 404 RESPONSIBILITY_NOT_FOUND, 403                 *)
(* RESPONSIBILITY_INACTIVE or 200 with the records.                        *)
Outcome(found) ==
  IF found = {} THEN {"NO_MATCHING_RESPONSIBILITY"}
  ELSE IF \A r \in found : ~r.active THEN {"RESPONSIBILITY_INACTIVE"} ELSE {}

(* get_user_responsibilities with every unit asked for.                    *)
GetResponsibilities ==
  /\ req.pc = "responsibilities"
  /\ req' = [req EXCEPT !.pc = "answered", !.reasons = Outcome(Matching(req.query.units))]
  /\ Call

(* find_user_affiliations.                                                 *)
FindAffiliations ==
  /\ req.pc = "affiliations"
  /\ req' = [req EXCEPT !.pc = IF Affiliated(req.query.units) THEN "answered" ELSE "primary"]
  /\ Call

(* Faulty variant: the two reasons are mixed up.                           *)
PrimaryMixedUp == {IF affiliations = {} THEN "AFFILIATION_MISMATCH" ELSE "NO_AFFILIATION"}

PrimaryReason == {IF affiliations = {} THEN "NO_AFFILIATION" ELSE "AFFILIATION_MISMATCH"}

(* Faulty variant: with an affiliation elsewhere the search starts again.  *)
LookAgain ==
  /\ req.pc = "primary"
  /\ req' = IF affiliations = {} THEN [req EXCEPT !.pc = "answered", !.reasons = {"NO_AFFILIATION"}]
                                 ELSE [req EXCEPT !.pc = "affiliations"]
  /\ Call

(* get_user_affiliation: a call of its own, after the one that matched     *)
(* nothing.                                                                *)
GetPrimary ==
  /\ req.pc = "primary"
  /\ req' = [req EXCEPT !.pc = "answered", !.reasons = PrimaryReason]
  /\ Call

Evaluate == Load \/ DirectoryFails \/ ResolveUnit \/ GetResponsibilities \/ FindAffiliations \/ GetPrimary

(* Administrators of either service change what it stores.  A change while *)
(* no request is on its way is another initial state.                      *)
Change(database) ==
  /\ req.pc \in {"load"} \cup Calls
  /\ seen.changes < MaxChanges
  /\ UNCHANGED req
  /\ seen' = [seen EXCEPT !.passed = @ \cup {Passing(req.query)'}, !.reasons = @ \cup Failing(req.query)',
                          !.changed = @ \cup {database}, !.changes = @ + 1]

ChangeIdentity ==
  /\ \/ active' = ~active /\ UNCHANGED roles
     \/ roles' \in SUBSET Roles /\ UNCHANGED active
  /\ UNCHANGED directory
  /\ Change("identity")

ChangeDirectory ==
  /\ \/ units' \in Catalogues /\ UNCHANGED <<responsibilities, affiliations>>
     \/ responsibilities' \in Portfolios /\ UNCHANGED <<units, affiliations>>
     \/ affiliations' \in Memberships /\ UNCHANGED <<units, responsibilities>>
  /\ UNCHANGED identity
  /\ Change("directory")

Next ==
  \/ \E q \in Query : Begin(q)
  \/ Evaluate
  \/ ChangeIdentity
  \/ ChangeDirectory

Spec == Init /\ [][Next]_vars

(* Every call has the client's timeout, and the request's thread runs on.  *)
FairSpec == Spec /\ WF_vars(Evaluate)

-----------------------------------------------------------------------------
(* Every variable stays in its range; a call for affiliations asks for a   *)
(* department, a faculty or both.                                          *)
TypeOK ==
  /\ active \in BOOLEAN
  /\ roles \subseteq Roles
  /\ units \in Catalogues
  /\ responsibilities \in Portfolios
  /\ affiliations \in Memberships
  /\ req \in Request
  /\ req.todo \subseteq req.query.units
  /\ req.pc = "load" => Valid(req.query) /\ req.todo = req.query.units
  /\ req.pc = "resolve" => req.todo # {}
  /\ req.pc \in {"affiliations", "primary"} => req.query.units \subseteq {"department", "faculty"}
  /\ seen \in History

Eligible == req.pc = "answered" /\ req.code = "200" /\ req.reasons = {}

(* "eligible" is never a guess: every check that was asked for passed at   *)
(* some moment of the request, and all of them at one moment unless both   *)
(* services changed on the way (the account is read before the Directory). *)
EligibleWasTrue ==
  Eligible =>
    /\ Asked(req.query) \subseteq UNION seen.passed
    /\ seen.changed # {"identity", "directory"} =>
         \E p \in seen.passed : Asked(req.query) \subseteq p

(* Each reason given was a reason at some moment of the request, whichever *)
(* of the Directory's answers it comes from.                               *)
ReasonsWereTrue ==
  req.pc = "answered" => req.reasons \subseteq seen.reasons

(* An ineligible account never depends on the Directory: with a reason of  *)
(* stage 1 no call is made, and 502 or 503 says that stage 1 was passed.   *)
IdentityFirst ==
  /\ req.reasons \cap {"ACCOUNT_INACTIVE", "ROLE_NOT_HELD"} # {} => ~seen.calls
  /\ req.code \in {"502", "503"} =>
       \E p \in seen.passed : Asked(req.query) \ {"relationship"} \subseteq p

(* Whatever the Directory does, the caller gets an answer.                 *)
AlwaysAnswered == req.pc = "load" ~> req.pc = "answered"
=============================================================================
