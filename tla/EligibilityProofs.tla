-------------------------- MODULE EligibilityProofs --------------------------
(***************************************************************************)
(* What Eligibility keeps for every role, Directory content and number of  *)
(* changes: an eligible answer was true, a reason given was a reason, and  *)
(* an account that fails stage 1 never depends on the Directory.           *)
(* Its end: every step brings the answer nearer, and five bring it.        *)
(*                                                                         *)
(* The invariant says what a request on its way may rely on: the present   *)
(* moment is among those seen; past stage 1 the identity checks passed at  *)
(* one of them, and still do unless the Identity database changed; while   *)
(* the Directory is unchanged, every moment agrees about the relationship. *)
(***************************************************************************)
EXTENDS Eligibility, FiniteSetTheorems, TLAPS

OnItsWay == {"load"} \cup Calls

IdentityAsked(q) == Asked(q) \ {"relationship"}

(* The present moment is one of those seen.                                *)
Watched ==
  req.pc \in OnItsWay =>
    /\ Passing(req.query) \in seen.passed
    /\ Failing(req.query) \subseteq seen.reasons

(* No reason and no failure before the answer; no call before stage 2.     *)
NothingSaid ==
  /\ req.pc \in OnItsWay => req.reasons = {} /\ req.code = "200"
  /\ req.pc = "load" => ~seen.calls

(* Stage 1 was passed, and is passed until the Identity database changes.  *)
StageOne ==
  req.pc \in Calls =>
    /\ \E p \in seen.passed : IdentityAsked(req.query) \subseteq p
    /\ "identity" \notin seen.changed => IdentityAsked(req.query) \subseteq Passing(req.query)

(* Until the Directory changes the relationship stays what it was.         *)
DirectoryKept ==
  req.pc \in OnItsWay /\ "directory" \notin seen.changed =>
    \A p \in seen.passed : "relationship" \in p <=> "relationship" \in Passing(req.query)

(* Each call belongs to its kind of query; before the second call for      *)
(* affiliations the first found no match.                                  *)
RightCall ==
  /\ req.pc \in {"resolve", "responsibilities"} => req.query.relationship = "RESPONSIBILITY"
  /\ req.pc \in {"affiliations", "primary"} => req.query.relationship = "AFFILIATION"
  /\ req.pc = "primary" => "AFFILIATION_MISMATCH" \in seen.reasons

Sound == EligibleWasTrue /\ ReasonsWereTrue /\ IdentityFirst

IInv == TypeOK /\ Watched /\ NothingSaid /\ StageOne /\ DirectoryKept /\ RightCall /\ Sound

-----------------------------------------------------------------------------
(* What a moment shows lies in the ranges of the history.                  *)
LEMMA MomentTyped ==
  ASSUME NEW q
  PROVE  Passing(q) \in SUBSET Checks /\ Failing(q) \in SUBSET Reasons
BY DEF Passing, Failing

(* Without a reason of stage 1 its checks pass.                            *)
LEMMA NoReasonPasses ==
  ASSUME NEW q \in Query, IdentityReasons(q) = {}
  PROVE  IdentityAsked(q) \subseteq Passing(q)
BY DEF IdentityReasons, IdentityAsked, Asked, Passing, Failing, Checks, Reasons, Query

(* Load, the calls and a failing call, in the ranges.                      *)
LEMMA TypedEvaluate ==
  ASSUME TypeOK, Evaluate
  PROVE  TypeOK'
<1> USE DEF TypeOK, Request, Calls
<1>s. req \in Request /\ seen \in History /\ [seen EXCEPT !.calls = TRUE] \in History
  BY DEF History
<1>1. CASE Load
  <2>1. IdentityReasons(req.query) \in SUBSET Reasons BY DEF IdentityReasons, Reasons, Failing
  <2>2. UNCHANGED <<active, roles, units, responsibilities, affiliations, seen>>
    BY <1>1 DEF Load, identity, directory
  <2>3. req.pc = "load" /\ Valid(req.query) /\ req.todo = req.query.units
    BY <1>1 DEF Load
  <2>4. CASE IdentityReasons(req.query) = {}
    <3>1. req' = [req EXCEPT !.pc = FirstCall(req.query), !.reasons = {}] BY <1>1, <2>4 DEF Load
    <3>2. CASE req.query.relationship = "NONE"
      <4>1. FirstCall(req.query) = "answered" BY <3>2 DEF FirstCall
      <4> QED BY <3>1, <4>1, <1>s, <2>2, <2>3
    <3>3. CASE req.query.relationship = "RESPONSIBILITY"
      <4>1. FirstCall(req.query) = "resolve" BY <3>3 DEF FirstCall
      <4>2. req.query.units # {} BY <3>3, <2>3 DEF Valid
      <4> QED BY <3>1, <4>1, <4>2, <1>s, <2>2, <2>3
    <3>4. CASE req.query.relationship = "AFFILIATION"
      <4>1. FirstCall(req.query) = "affiliations" BY <3>4 DEF FirstCall
      <4>2. req.query.units \subseteq {"department", "faculty"}
        BY <3>4, <2>3, <1>s DEF Valid, Query, Kinds
      <4> QED BY <3>1, <4>1, <4>2, <1>s, <2>2, <2>3
    <3> QED BY <3>2, <3>3, <3>4, <1>s DEF Query
  <2>5. CASE IdentityReasons(req.query) # {}
    <3>1. req' = [req EXCEPT !.pc = "answered", !.reasons = IdentityReasons(req.query)]
      BY <1>1, <2>5 DEF Load
    <3> QED BY <3>1, <1>s, <2>1, <2>2
  <2> QED BY <2>4, <2>5
<1>c. ASSUME Call
      PROVE  seen' \in History /\ UNCHANGED <<active, roles, units, responsibilities, affiliations>>
  BY <1>c, <1>s DEF Call, identity, directory
<1>2. CASE DirectoryFails
  <2>1. PICK code \in {"502", "503"} : req' = [req EXCEPT !.pc = "answered", !.code = code]
    BY <1>2 DEF DirectoryFails
  <2> QED BY <2>1, <1>2, <1>c, <1>s DEF DirectoryFails
<1>3. CASE ResolveUnit
  <2>1. PICK k \in req.todo :
          LET left == req.todo \ {k}
          IN  IF k \in units
              THEN req' = [req EXCEPT !.todo = left, !.pc = IF left = {} THEN "responsibilities" ELSE @]
              ELSE req' = [req EXCEPT !.pc = "answered", !.reasons = {"NO_MATCHING_RESPONSIBILITY"}]
    BY <1>3 DEF ResolveUnit
  <2>2. req.pc = "resolve" BY <1>3 DEF ResolveUnit
  <2>3. seen' \in History /\ UNCHANGED <<active, roles, units, responsibilities, affiliations>>
    BY <1>3, <1>c DEF ResolveUnit
  <2>4. CASE k \notin units
    <3>1. req' = [req EXCEPT !.pc = "answered", !.reasons = {"NO_MATCHING_RESPONSIBILITY"}]
      BY <2>1, <2>4
    <3>2. req' \in Request /\ req'.pc = "answered" /\ req'.todo = req.todo /\ req'.query = req.query
      BY <3>1, <1>s DEF Reasons
    <3> QED BY <3>2, <2>3
  <2>5. CASE k \in units
    <3> DEFINE left == req.todo \ {k}
               pc == IF left = {} THEN "responsibilities" ELSE "resolve"
    <3>1. req' = [req EXCEPT !.todo = left, !.pc = pc] BY <2>1, <2>2, <2>5
    <3>2. /\ req' \in Request /\ req'.pc = pc /\ req'.query = req.query
          /\ req'.todo = left /\ left \subseteq req.todo
      BY <3>1, <1>s
    <3> QED BY <3>2, <2>3
  <2> QED BY <2>4, <2>5
<1>4. CASE GetResponsibilities
  <2>1. Outcome(Matching(req.query.units)) \in SUBSET Reasons BY DEF Outcome, Reasons
  <2> QED BY <1>4, <2>1, <1>c, <1>s DEF GetResponsibilities
<1>5. CASE FindAffiliations BY <1>5, <1>c, <1>s DEF FindAffiliations
<1>6. CASE GetPrimary
  <2>1. PrimaryReason \in SUBSET Reasons BY DEF PrimaryReason, Reasons
  <2> QED BY <1>6, <2>1, <1>c, <1>s DEF GetPrimary
<1> QED BY <1>1, <1>2, <1>3, <1>4, <1>5, <1>6 DEF Evaluate

(* The ranges hold from the start and after every step.                    *)
LEMMA TypedInit == Init => TypeOK
<1> SUFFICES ASSUME Init PROVE TypeOK OBVIOUS
<1>1. NoQuery \in Query BY DEF NoQuery, Query, Kinds
<1>2. req \in Request BY <1>1 DEF Init, Request, Calls, Reasons
<1>3. seen \in History BY EligibilityAssumption DEF Init, History
<1> QED BY <1>2, <1>3 DEF Init, TypeOK, NoQuery

(* A new request is in the ranges, valid or not.                           *)
LEMMA TypedBegin ==
  ASSUME TypeOK, NEW q \in Query, Begin(q)
  PROVE  TypeOK'
<1>1. Passing(q) \in SUBSET Checks /\ Failing(q) \in SUBSET Reasons BY MomentTyped
<1>2. seen' \in History BY <1>1, EligibilityAssumption DEF Begin, History
<1>3. UNCHANGED <<active, roles, units, responsibilities, affiliations>>
  BY DEF Begin, identity, directory
<1>4. CASE Valid(q)
  <2>1. req' = [pc |-> "load", query |-> q, todo |-> q.units, reasons |-> {}, code |-> "200"]
    BY <1>4 DEF Begin
  <2> QED BY <2>1, <1>2, <1>3, <1>4 DEF TypeOK, Request, Query, Calls
<1>5. CASE ~Valid(q)
  <2>1. req' = [pc |-> "answered", query |-> q, todo |-> q.units, reasons |-> {}, code |-> "422"]
    BY <1>5 DEF Begin
  <2> QED BY <2>1, <1>2, <1>3 DEF TypeOK, Request, Query, Calls
<1> QED BY <1>4, <1>5

(* A change of either database is a moment more for the history.           *)
LEMMA TypedChange ==
  ASSUME TypeOK, ChangeIdentity \/ ChangeDirectory
  PROVE  TypeOK'
<1>1. PICK d \in {"identity", "directory"} : Change(d) BY DEF ChangeIdentity, ChangeDirectory
<1>2. Passing(req.query)' \in SUBSET Checks /\ Failing(req.query)' \in SUBSET Reasons
  BY DEF Passing, Failing
<1>3. seen' \in History
  <2>1. seen.changes < MaxChanges /\ seen \in History BY <1>1 DEF Change, TypeOK
  <2>2. seen.changes + 1 \in 0..MaxChanges BY <2>1, EligibilityAssumption DEF History
  <2>3. seen' = [seen EXCEPT !.passed = @ \cup {Passing(req.query)'}, !.reasons = @ \cup Failing(req.query)',
                             !.changed = @ \cup {d}, !.changes = @ + 1]
    BY <1>1 DEF Change
  <2> QED BY <2>1, <2>2, <2>3, <1>2 DEF History
<1>4. active' \in BOOLEAN /\ roles' \subseteq Roles
  BY DEF TypeOK, ChangeIdentity, ChangeDirectory, identity
<1>5. units' \in Catalogues /\ responsibilities' \in Portfolios /\ affiliations' \in Memberships
  BY DEF TypeOK, ChangeIdentity, ChangeDirectory, directory
<1>6. req' = req BY <1>1 DEF Change
<1>7. Valid(req.query)' <=> Valid(req.query) BY <1>6 DEF Valid
<1> QED BY <1>3, <1>4, <1>5, <1>6, <1>7 DEF TypeOK

(* Every step keeps the ranges.                                            *)
LEMMA TypedNext == TypeOK /\ [Next]_vars => TypeOK'
<1> SUFFICES ASSUME TypeOK, [Next]_vars PROVE TypeOK' OBVIOUS
<1>1. CASE UNCHANGED vars
  BY <1>1 DEF TypeOK, vars, identity, directory, Valid
<1>2. CASE Next BY <1>2, TypedBegin, TypedEvaluate, TypedChange DEF Next
<1> QED BY <1>1, <1>2

(* Every variable stays in its range (routes/validation.py's one request   *)
(* and the two databases it reads), for any roles and any Directory.       *)
THEOREM TypeCorrect == Spec => []TypeOK
BY TypedInit, TypedNext, PTL DEF Spec

-----------------------------------------------------------------------------
(* A step that changes neither database nor the query changes nothing of   *)
(* what the moment shows.                                                  *)
LEMMA SameMoment ==
  ASSUME UNCHANGED <<identity, directory>>, req'.query = req.query
  PROVE  /\ Passing(req.query)' = Passing(req.query)
         /\ Failing(req.query)' = Failing(req.query)
         /\ Asked(req.query)' = Asked(req.query)
         /\ IdentityAsked(req.query)' = IdentityAsked(req.query)
BY DEF identity, directory, Passing, Failing, Matching, Affiliated, Asked, IdentityAsked

(* At the start no request is on its way and nothing has been said.        *)
LEMMA SoundInit == Init => IInv
BY TypedInit
   DEF Init, IInv, Watched, NothingSaid, StageOne, DirectoryKept, RightCall, Sound, OnItsWay, Calls,
       EligibleWasTrue, Eligible, ReasonsWereTrue, IdentityFirst

(* Nothing has been said or asked of a request that begins; one that is    *)
(* invalid is answered without a reason.                                   *)
LEMMA SoundBegin ==
  ASSUME IInv, NEW q \in Query, Begin(q)
  PROVE  IInv'
<1>1. TypeOK' BY TypedBegin DEF IInv
<1>2. /\ req'.query = q /\ req'.reasons = {}
      /\ req'.pc = (IF Valid(q) THEN "load" ELSE "answered")
      /\ req'.code = (IF Valid(q) THEN "200" ELSE "422")
      /\ seen' = [passed |-> {Passing(q)}, reasons |-> Failing(q), changed |-> {}, changes |-> 0,
                  calls |-> FALSE]
  BY DEF Begin
<1>3. Passing(req.query)' = Passing(q) /\ Failing(req.query)' = Failing(q)
  BY <1>2 DEF Begin, identity, directory, Passing, Failing, Matching, Affiliated
<1>4. Watched' /\ NothingSaid' /\ StageOne' /\ DirectoryKept' /\ RightCall'
  BY <1>2, <1>3 DEF Watched, NothingSaid, StageOne, DirectoryKept, RightCall, OnItsWay, Calls
<1>5. Sound'
  BY <1>2 DEF Sound, EligibleWasTrue, Eligible, ReasonsWereTrue, IdentityFirst
<1> QED BY <1>1, <1>4, <1>5 DEF IInv

(* Stage 1 is decided on what the moment shows: its reasons are of the     *)
(* history, and without one its checks pass now.                           *)
LEMMA SoundLoad ==
  ASSUME IInv, Load
  PROVE  IInv'
<1> DEFINE q == req.query
           found == IdentityReasons(q)
<1>1. TypeOK' BY TypedEvaluate DEF IInv, Evaluate
<1>2. /\ req.pc = "load" /\ req.reasons = {} /\ req.code = "200" /\ ~seen.calls
      /\ q \in Query /\ Passing(q) \in seen.passed /\ Failing(q) \subseteq seen.reasons
  BY DEF IInv, Load, NothingSaid, Watched, OnItsWay, TypeOK, Request
<1>3. found \subseteq seen.reasons BY <1>2 DEF IdentityReasons
<1>4. /\ req'.query = q /\ req'.code = "200" /\ req'.reasons = found /\ seen' = seen
      /\ req'.pc = (IF found = {} THEN FirstCall(q) ELSE "answered")
  BY <1>2 DEF Load, IInv, TypeOK, Request
<1>5. Passing(q)' = Passing(q) /\ Failing(q)' = Failing(q) /\ Asked(q)' = Asked(q)
      /\ IdentityAsked(q)' = IdentityAsked(q)
  BY <1>4, SameMoment DEF Load
<1>6. found = {} => IdentityAsked(q) \subseteq Passing(q) BY <1>2, NoReasonPasses
<1>7. /\ FirstCall(q) \in {"answered", "resolve", "affiliations"}
      /\ FirstCall(q) = "answered" => q.relationship = "NONE"
      /\ FirstCall(q) = "resolve" => q.relationship = "RESPONSIBILITY"
      /\ FirstCall(q) = "affiliations" => q.relationship = "AFFILIATION"
  BY <1>2 DEF FirstCall, Query
<1>8. Watched' BY <1>2, <1>4, <1>5 DEF Watched
<1>9. NothingSaid' BY <1>2, <1>4, <1>7 DEF NothingSaid, OnItsWay, Calls
<1>10. StageOne' BY <1>2, <1>4, <1>5, <1>6 DEF StageOne, Calls
<1>11. DirectoryKept' BY <1>2, <1>4, <1>5 DEF DirectoryKept, IInv, OnItsWay
<1>12. RightCall' BY <1>4, <1>7 DEF RightCall
<1>13. EligibleWasTrue'
  <2> SUFFICES ASSUME Eligible'
               PROVE  Asked(q) \subseteq Passing(q)
    BY <1>2, <1>4, <1>5 DEF EligibleWasTrue
  <2>1. found = {} /\ q.relationship = "NONE" BY <1>4, <1>7 DEF Eligible
  <2>2. Asked(q) = IdentityAsked(q) BY <2>1 DEF Asked, IdentityAsked
  <2> QED BY <1>6, <2>1, <2>2
<1>14. ReasonsWereTrue' BY <1>3, <1>4 DEF ReasonsWereTrue
<1>15. IdentityFirst' BY <1>2, <1>4 DEF IdentityFirst
<1> QED BY <1>1, <1>8, <1>9, <1>10, <1>11, <1>12, <1>13, <1>14, <1>15 DEF IInv, Sound

(* If the relationship is so now, all that was asked for was so at some    *)
(* moment: now, unless the Identity database has changed since stage 1; at *)
(* stage 1's moment, unless the Directory has changed.                     *)
LEMMA EligibleNow ==
  ASSUME IInv, req.pc \in Calls, "relationship" \in Passing(req.query)
  PROVE  /\ Asked(req.query) \subseteq UNION seen.passed
         /\ seen.changed # {"identity", "directory"} =>
              \E p \in seen.passed : Asked(req.query) \subseteq p
<1> DEFINE q == req.query
<1>1. Asked(q) \subseteq IdentityAsked(q) \cup {"relationship"} BY DEF IdentityAsked
<1>2. Passing(q) \in seen.passed BY DEF IInv, Watched, OnItsWay
<1>3. PICK p \in seen.passed : IdentityAsked(q) \subseteq p BY DEF IInv, StageOne
<1>4. CASE "identity" \notin seen.changed
  <2>1. IdentityAsked(q) \subseteq Passing(q) BY <1>4 DEF IInv, StageOne
  <2> QED BY <1>1, <1>2, <2>1
<1>5. CASE "directory" \notin seen.changed
  <2>1. "relationship" \in p BY <1>3, <1>5 DEF IInv, DirectoryKept, OnItsWay
  <2> QED BY <1>1, <1>3, <2>1
<1>6. CASE "identity" \in seen.changed /\ "directory" \in seen.changed
  <2>1. seen.changed = {"identity", "directory"} BY <1>6 DEF IInv, TypeOK, History
  <2> QED BY <1>1, <1>2, <1>3, <2>1
<1> QED BY <1>4, <1>5, <1>6

(* What any call leaves as it was.                                         *)
LEMMA Called ==
  ASSUME IInv, Call, req'.query = req.query
  PROVE  /\ seen'.passed = seen.passed /\ seen'.reasons = seen.reasons /\ seen'.changed = seen.changed
         /\ Passing(req.query)' = Passing(req.query)
         /\ Failing(req.query)' = Failing(req.query)
         /\ Asked(req.query)' = Asked(req.query)
         /\ IdentityAsked(req.query)' = IdentityAsked(req.query)
<1>1. seen'.passed = seen.passed /\ seen'.reasons = seen.reasons /\ seen'.changed = seen.changed
  BY DEF IInv, TypeOK, History, Call
<1> QED BY <1>1, SameMoment DEF Call

(* A call that leads to another call says nothing.                         *)
LEMMA NextCall ==
  ASSUME IInv, Call, req.pc \in Calls, req'.pc \in Calls, TypeOK', RightCall',
         req'.query = req.query, req'.reasons = req.reasons, req'.code = req.code
  PROVE  IInv'
<1>1. req.reasons = {} /\ req.code = "200" BY DEF IInv, NothingSaid, OnItsWay
<1>2. Watched' BY Called DEF IInv, Watched, OnItsWay
<1>3. NothingSaid' BY <1>1 DEF NothingSaid, Calls
<1>4. StageOne' BY Called DEF IInv, StageOne
<1>5. DirectoryKept' BY Called DEF IInv, DirectoryKept, OnItsWay
<1>6. Sound' BY <1>1 DEF Sound, EligibleWasTrue, ReasonsWereTrue, IdentityFirst, Eligible, Calls
<1> QED BY <1>2, <1>3, <1>4, <1>5, <1>6 DEF IInv

(* A call that ends the request: with a code that is no verdict, with      *)
(* reasons of stage 2 that are so now, or with the relationship found.     *)
LEMMA LastCall ==
  ASSUME IInv, Call, req.pc \in Calls, req'.pc = "answered", TypeOK', req'.query = req.query,
         req'.reasons \subseteq seen.reasons \ {"ACCOUNT_INACTIVE", "ROLE_NOT_HELD"},
         req'.reasons = {} /\ req'.code = "200" => "relationship" \in Passing(req.query)
  PROVE  IInv'
<1>1. Watched' /\ NothingSaid' /\ StageOne' /\ DirectoryKept' /\ RightCall'
  BY DEF Watched, NothingSaid, StageOne, DirectoryKept, RightCall, OnItsWay, Calls
<1>2. EligibleWasTrue'
  <2> SUFFICES ASSUME Eligible'
               PROVE  /\ Asked(req.query) \subseteq UNION seen.passed
                      /\ seen.changed # {"identity", "directory"} =>
                           \E p \in seen.passed : Asked(req.query) \subseteq p
    BY Called DEF EligibleWasTrue
  <2> QED BY EligibleNow DEF Eligible
<1>3. ReasonsWereTrue' BY Called DEF ReasonsWereTrue
<1>4. \E p \in seen.passed : IdentityAsked(req.query) \subseteq p BY DEF IInv, StageOne
<1>5. IdentityFirst' BY <1>4, Called DEF IdentityFirst, IdentityAsked
<1> QED BY <1>1, <1>2, <1>3, <1>5 DEF IInv, Sound

(* Each step of the evaluation keeps the invariant.                        *)
LEMMA SoundEvaluate ==
  ASSUME IInv, Evaluate
  PROVE  IInv'
<1> DEFINE q == req.query
           Stage2 == {"NO_MATCHING_RESPONSIBILITY", "RESPONSIBILITY_INACTIVE", "NO_AFFILIATION",
                      "AFFILIATION_MISMATCH"}
<1>t. TypeOK' BY TypedEvaluate DEF IInv
<1>s. req \in Request /\ q \in Query BY DEF IInv, TypeOK, Request
<1>c. ASSUME req.pc \in Calls
      PROVE  req.reasons = {} /\ req.code = "200" /\ Failing(q) \subseteq seen.reasons
  BY <1>c DEF IInv, NothingSaid, Watched, OnItsWay
<1>1. CASE Load BY <1>1, SoundLoad
<1>2. CASE DirectoryFails
  <2>1. PICK code \in {"502", "503"} : req' = [req EXCEPT !.pc = "answered", !.code = code]
    BY <1>2 DEF DirectoryFails
  <2>2. req.pc \in Calls /\ Call BY <1>2 DEF DirectoryFails
  <2>3. req'.pc = "answered" /\ req'.query = q /\ req'.reasons = {} /\ req'.code # "200"
    BY <2>1, <2>2, <1>c, <1>s DEF Request
  <2> QED BY <2>2, <2>3, <1>t, LastCall
<1>3. CASE ResolveUnit
  <2>1. PICK k \in req.todo :
          LET left == req.todo \ {k}
          IN  IF k \in units
              THEN req' = [req EXCEPT !.todo = left, !.pc = IF left = {} THEN "responsibilities" ELSE @]
              ELSE req' = [req EXCEPT !.pc = "answered", !.reasons = {"NO_MATCHING_RESPONSIBILITY"}]
    BY <1>3 DEF ResolveUnit
  <2>2. req.pc = "resolve" /\ req.pc \in Calls /\ Call BY <1>3 DEF ResolveUnit, Calls
  <2>3. q.relationship = "RESPONSIBILITY" BY <2>2 DEF IInv, RightCall
  <2>4. CASE k \in units
    <3>1. /\ req'.pc \in {"resolve", "responsibilities"} /\ req'.query = q
          /\ req'.reasons = req.reasons /\ req'.code = req.code
      BY <2>1, <2>2, <2>4, <1>s DEF Request
    <3>2. RightCall' BY <3>1, <2>3 DEF RightCall
    <3> QED BY <3>1, <3>2, <2>2, <1>t, NextCall DEF Calls
  <2>5. CASE k \notin units
    <3>1. req'.pc = "answered" /\ req'.query = q /\ req'.reasons = {"NO_MATCHING_RESPONSIBILITY"}
      BY <2>1, <2>5, <1>s DEF Request
    <3>2. "NO_MATCHING_RESPONSIBILITY" \in Failing(q)
      BY <2>1, <2>3, <2>5 DEF IInv, TypeOK, Failing, Reasons
    <3> QED BY <3>1, <3>2, <2>2, <1>c, <1>t, LastCall
  <2> QED BY <2>4, <2>5
<1>4. CASE GetResponsibilities
  <2> DEFINE found == Matching(q.units)
  <2>1. req.pc = "responsibilities" /\ req.pc \in Calls /\ Call
    BY <1>4 DEF GetResponsibilities, Calls
  <2>2. req'.pc = "answered" /\ req'.query = q /\ req'.reasons = Outcome(found)
    BY <1>4, <1>s DEF GetResponsibilities, Request
  <2>3. q.relationship = "RESPONSIBILITY" BY <2>1 DEF IInv, RightCall
  <2>4. Outcome(found) \subseteq Failing(q) BY <2>3 DEF Outcome, Failing, Reasons
  <2>5. Outcome(found) \subseteq Stage2 BY DEF Outcome
  <2>6. Outcome(found) = {} => \E r \in found : r.active BY DEF Outcome
  <2>7. Outcome(found) = {} => "relationship" \in Passing(q) BY <2>3, <2>6 DEF Passing, Checks
  <2>8. req'.reasons \subseteq seen.reasons \ {"ACCOUNT_INACTIVE", "ROLE_NOT_HELD"}
    BY <2>1, <2>2, <2>4, <2>5, <1>c
  <2> QED BY <2>1, <2>2, <2>7, <2>8, <1>t, LastCall
<1>5. CASE FindAffiliations
  <2>1. req.pc = "affiliations" /\ req.pc \in Calls /\ Call BY <1>5 DEF FindAffiliations, Calls
  <2>2. q.relationship = "AFFILIATION" BY <2>1 DEF IInv, RightCall
  <2>3. req'.query = q /\ req'.reasons = req.reasons /\ req'.code = req.code
    BY <1>5, <1>s DEF FindAffiliations, Request
  <2>4. CASE Affiliated(q.units)
    <3>1. req'.pc = "answered" BY <1>5, <1>s, <2>4 DEF FindAffiliations, Request
    <3>2. "relationship" \in Passing(q) BY <2>2, <2>4 DEF Passing, Checks
    <3> QED BY <3>1, <3>2, <2>1, <2>3, <1>c, <1>t, LastCall
  <2>5. CASE ~Affiliated(q.units)
    <3>1. req'.pc = "primary" BY <1>5, <1>s, <2>5 DEF FindAffiliations, Request
    <3>2. "AFFILIATION_MISMATCH" \in Failing(q) BY <2>2, <2>5 DEF Failing, Reasons
    <3>3. RightCall' BY <3>1, <3>2, <2>1, <2>2, <2>3, <1>c, Called DEF RightCall
    <3> QED BY <3>1, <3>3, <2>1, <2>3, <1>t, NextCall DEF Calls
  <2> QED BY <2>4, <2>5
<1>6. CASE GetPrimary
  <2>1. req.pc = "primary" /\ req.pc \in Calls /\ Call BY <1>6 DEF GetPrimary, Calls
  <2>2. q.relationship = "AFFILIATION" /\ "AFFILIATION_MISMATCH" \in seen.reasons
    BY <2>1 DEF IInv, RightCall
  <2>3. req'.pc = "answered" /\ req'.query = q /\ req'.reasons = PrimaryReason
    BY <1>6, <1>s DEF GetPrimary, Request
  <2>4. affiliations = {} => "NO_AFFILIATION" \in Failing(q)
    BY <2>2 DEF Failing, Affiliated, Reasons
  <2>5. PrimaryReason \subseteq seen.reasons /\ PrimaryReason \subseteq Stage2 /\ PrimaryReason # {}
    BY <2>1, <2>2, <2>4, <1>c DEF PrimaryReason
  <2> QED BY <2>1, <2>3, <2>5, <1>t, LastCall
<1> QED BY <1>1, <1>2, <1>3, <1>4, <1>5, <1>6 DEF Evaluate

(* A change adds its moment to the history.  One of the Identity database  *)
(* leaves the relationship as it was, one of the Directory stage 1.        *)
LEMMA SoundChange ==
  ASSUME IInv, ChangeIdentity \/ ChangeDirectory
  PROVE  IInv'
<1> DEFINE q == req.query
           now == Passing(q)'
<1>1. PICK d \in {"identity", "directory"} : Change(d) BY DEF ChangeIdentity, ChangeDirectory
<1>2. TypeOK' BY TypedChange DEF IInv
<1>3. req.pc \in OnItsWay /\ req' = req BY <1>1 DEF Change, OnItsWay
<1>4. /\ seen'.passed = seen.passed \cup {now}
      /\ seen'.reasons = seen.reasons \cup Failing(q)'
      /\ seen'.changed \subseteq {"identity", "directory"}
      /\ seen.changed \subseteq seen'.changed
      /\ seen'.calls = seen.calls
  BY <1>1, <1>2 DEF Change, IInv, TypeOK, History
<1>5. Asked(q)' = Asked(q) /\ IdentityAsked(q)' = IdentityAsked(q) BY <1>3 DEF Asked, IdentityAsked
<1>6. CASE ChangeIdentity
  <2>1. "identity" \in seen'.changed BY <1>6 DEF ChangeIdentity, Change, IInv, TypeOK, History
  <2>2. "relationship" \in now <=> "relationship" \in Passing(q)
    BY <1>3, <1>6 DEF ChangeIdentity, directory, Passing, Matching, Affiliated
  <2>3. StageOne' BY <1>3, <1>4, <1>5, <2>1 DEF IInv, StageOne
  <2>4. DirectoryKept' BY <1>3, <1>4, <2>2 DEF IInv, DirectoryKept
  <2> QED BY <2>3, <2>4, <1>2, <1>3, <1>4
          DEF IInv, Watched, NothingSaid, RightCall, Sound, EligibleWasTrue, Eligible, ReasonsWereTrue,
              IdentityFirst, OnItsWay, Calls
<1>7. CASE ChangeDirectory
  <2>1. "directory" \in seen'.changed BY <1>7 DEF ChangeDirectory, Change, IInv, TypeOK, History
  <2>2. IdentityAsked(q) \subseteq Passing(q) => IdentityAsked(q) \subseteq now
    BY <1>3, <1>7 DEF ChangeDirectory, identity, IdentityAsked, Asked, Passing, Checks
  <2>3. StageOne' BY <1>3, <1>4, <1>5, <2>2 DEF IInv, StageOne
  <2>4. DirectoryKept' BY <2>1 DEF DirectoryKept
  <2> QED BY <2>3, <2>4, <1>2, <1>3, <1>4
          DEF IInv, Watched, NothingSaid, RightCall, Sound, EligibleWasTrue, Eligible, ReasonsWereTrue,
              IdentityFirst, OnItsWay, Calls
<1> QED BY <1>6, <1>7

(* Every step keeps the invariant.                                         *)
LEMMA SoundNext == IInv /\ [Next]_vars => IInv'
<1> SUFFICES ASSUME IInv, [Next]_vars PROVE IInv' OBVIOUS
<1>1. CASE UNCHANGED vars
  <2>1. req' = req /\ seen' = seen /\ UNCHANGED <<identity, directory>> BY <1>1 DEF vars
  <2>2. TypeOK' BY TypedNext DEF IInv
  <2> QED BY <2>1, <2>2, SameMoment
          DEF IInv, Watched, NothingSaid, StageOne, DirectoryKept, RightCall, Sound, EligibleWasTrue,
              Eligible, ReasonsWereTrue, IdentityFirst
<1>2. CASE Next BY <1>2, SoundBegin, SoundEvaluate, SoundChange DEF Next
<1> QED BY <1>1, <1>2

(* The invariant holds at every moment.                                    *)
LEMMA AlwaysSound == Spec => []IInv
BY SoundInit, SoundNext, PTL DEF Spec

(* An eligible answer (eligibility_service.py's eligible=not reasons) was  *)
(* true of every check asked for, and of all at once unless both services  *)
(* changed while it was worked out.                                        *)
THEOREM EligibleIsTrue == Spec => []EligibleWasTrue
<1>1. IInv => EligibleWasTrue BY DEF IInv, Sound
<1> QED BY <1>1, AlwaysSound, PTL

(* Each reason of an answer was one at some moment of the request.         *)
THEOREM ReasonsAreTrue == Spec => []ReasonsWereTrue
<1>1. IInv => ReasonsWereTrue BY DEF IInv, Sound
<1> QED BY <1>1, AlwaysSound, PTL

(* Stage 1 decides without the Directory, and 502 or 503 is only answered  *)
(* where stage 1 found nothing.                                            *)
THEOREM IdentityComesFirst == Spec => []IdentityFirst
<1>1. IInv => IdentityFirst BY DEF IInv, Sound
<1> QED BY <1>1, AlwaysSound, PTL
-----------------------------------------------------------------------------
(* How long a request can take, whatever the Directory answers: what the   *)
(* liveness of AlwaysAnswered rests on.                                    *)

(* The calls stage 2 makes at most, and with the query of stage 1 the      *)
(* steps a request has still to make.                                      *)
StageTwo(r) ==
  CASE r.query.relationship = "NONE" -> 0
    [] r.query.relationship = "RESPONSIBILITY" -> Cardinality(r.todo) + 1
    [] r.query.relationship = "AFFILIATION" -> 2

Remaining(r) ==
  CASE r.pc = "load" -> StageTwo(r) + 1
    [] r.pc = "resolve" -> Cardinality(r.todo) + 1
    [] r.pc = "affiliations" -> 2
    [] r.pc \in {"responsibilities", "primary"} -> 1
    [] r.pc \in {"idle", "answered"} -> 0

ComesToAnEnd ==
  [][/\ Evaluate => Remaining(req') < Remaining(req)
     /\ ~Evaluate => req' = req \/ Remaining(req) = 0]_vars

InFive == Remaining(req) <= 5

(* There are three kinds of units to resolve.                              *)
LEMMA FewUnits ==
  ASSUME NEW S \in SUBSET Kinds
  PROVE  /\ IsFiniteSet(S) /\ Cardinality(S) \in 0 .. 3
         /\ \A k \in S : Cardinality(S \ {k}) = Cardinality(S) - 1
<1>1. Kinds = ({"service_unit"} \cup {"department"}) \cup {"faculty"}
  BY DEF Kinds
<1>2. IsFiniteSet({"service_unit"}) /\ Cardinality({"service_unit"}) = 1
  BY FS_Singleton
<1>3. /\ IsFiniteSet({"service_unit"} \cup {"department"})
      /\ Cardinality({"service_unit"} \cup {"department"}) = 2
  BY <1>2, FS_AddElement
<1>4. IsFiniteSet(Kinds) /\ Cardinality(Kinds) = 3
  BY <1>1, <1>3, FS_AddElement
<1>5. IsFiniteSet(S) /\ Cardinality(S) <= 3
  BY <1>4, FS_Subset
<1>6. \A k \in S : Cardinality(S \ {k}) = Cardinality(S) - 1
  BY <1>5, FS_RemoveElement
<1> QED
  BY <1>5, <1>6, FS_CardinalityType

(* Every statement and every call leaves fewer to make.                    *)
LEMMA EvaluateAdvances ==
  ASSUME IInv, Evaluate
  PROVE  Remaining(req') < Remaining(req)
<1> USE DEF Remaining, StageTwo
<1>1. req \in Request /\ req.todo \in SUBSET Kinds /\ Cardinality(req.todo) \in 0 .. 3
  BY FewUnits DEF IInv, TypeOK, Request
<1>2. CASE Load
  <2>1. req.pc = "load" /\ req'.query = req.query /\ req'.todo = req.todo
    BY <1>1, <1>2 DEF Load, Request
  <2>2. req'.pc = "answered" \/ req'.pc = FirstCall(req.query)
    BY <1>1, <1>2 DEF Load, Request
  <2>3. req.query.relationship \in {"NONE", "AFFILIATION", "RESPONSIBILITY"}
    BY <1>1 DEF Request, Query
  <2>4. CASE req.query.relationship = "NONE"
    BY <2>1, <2>2, <2>4 DEF FirstCall
  <2>5. CASE req.query.relationship = "AFFILIATION"
    BY <2>1, <2>2, <2>5 DEF FirstCall
  <2>6. CASE req.query.relationship = "RESPONSIBILITY"
    BY <1>1, <2>1, <2>2, <2>6 DEF FirstCall
  <2> QED
    BY <2>3, <2>4, <2>5, <2>6
<1>3. CASE DirectoryFails
  <2>1. req.pc \in Calls /\ req'.pc = "answered"
    BY <1>1, <1>3 DEF DirectoryFails, Request
  <2> QED
    BY <1>1, <2>1 DEF Calls
<1>4. CASE ResolveUnit
  <2>1. PICK k \in req.todo :
          LET left == req.todo \ {k}
          IN  IF k \in units
              THEN req' = [req EXCEPT !.todo = left, !.pc = IF left = {} THEN "responsibilities" ELSE @]
              ELSE req' = [req EXCEPT !.pc = "answered", !.reasons = {"NO_MATCHING_RESPONSIBILITY"}]
    BY <1>4 DEF ResolveUnit
  <2>2. req.pc = "resolve"
    BY <1>4 DEF ResolveUnit
  <2>3. Cardinality(req.todo \ {k}) = Cardinality(req.todo) - 1
    BY <1>1, FewUnits
  <2>4. \/ req'.pc = "answered"
        \/ req'.pc = "responsibilities"
        \/ req'.pc = "resolve" /\ req'.todo = req.todo \ {k}
    BY <1>1, <2>1, <2>2 DEF Request
  <2>5. Cardinality(req.todo) >= 1
    <3>1. Cardinality(req.todo \ {k}) \in 0 .. 3
      BY <1>1, FewUnits
    <3> QED
      BY <1>1, <2>3, <3>1
  <2> QED
    BY <1>1, <2>2, <2>3, <2>4, <2>5
<1>5. CASE GetResponsibilities \/ GetPrimary
  <2>1. req.pc \in {"responsibilities", "primary"} /\ req'.pc = "answered"
    BY <1>1, <1>5 DEF GetResponsibilities, GetPrimary, Request
  <2> QED
    BY <2>1
<1>6. CASE FindAffiliations
  <2>1. req.pc = "affiliations" /\ req'.pc \in {"answered", "primary"}
    BY <1>1, <1>6 DEF FindAffiliations, Request
  <2> QED
    BY <2>1
<1> QED
  BY <1>2, <1>3, <1>4, <1>5, <1>6 DEF Evaluate

(* Every step of a request, whatever the Directory answers and whatever    *)
(* changes meanwhile, brings it nearer to its answer, and nothing else     *)
(* sets it back (eligibility_service.py, evaluate).                        *)
THEOREM RequestsComeToAnEnd == Spec => ComesToAnEnd
<1>1. ASSUME IInv, [Next]_vars, ~Evaluate PROVE req' = req \/ Remaining(req) = 0
  BY <1>1 DEF Next, vars, Begin, ChangeIdentity, ChangeDirectory, Change, Remaining
<1>2. IInv /\ [Next]_vars =>
        [/\ Evaluate => Remaining(req') < Remaining(req)
         /\ ~Evaluate => req' = req \/ Remaining(req) = 0]_vars
  BY <1>1, EvaluateAdvances
<1> QED
  BY <1>2, AlwaysSound, PTL DEF Spec, ComesToAnEnd

(* So an answer takes at most one statement and four calls, each with the  *)
(* client's timeout (directory_client.py, _get).                           *)
THEOREM AnsweredInFive == Spec => []InFive
<1>1. IInv => InFive
  <2> SUFFICES ASSUME IInv PROVE InFive
    OBVIOUS
  <2>1. req \in Request /\ req.todo \in SUBSET Kinds /\ Cardinality(req.todo) \in 0 .. 3
    BY FewUnits DEF IInv, TypeOK, Request
  <2> QED
    BY <2>1 DEF InFive, Remaining, StageTwo, Request, Calls, Query
<1> QED
  BY <1>1, AlwaysSound, PTL
=============================================================================
