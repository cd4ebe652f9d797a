---------------------------- MODULE MCEligibility ----------------------------
(* Small Directories for Eligibility: no responsibility, an active one, an  *)
(* inactive one, and both for overlapping units; no affiliation, one that   *)
(* a query can match in part only, and two.                                 *)
EXTENDS Eligibility

Rec(us, on) == [units |-> us, active |-> on]

MCCatalogues == {Kinds, {"service_unit", "faculty"}}

MCPortfolios ==
  {{}, {Rec({"service_unit"}, TRUE)},
   {Rec({"service_unit", "department"}, FALSE), Rec({"department", "faculty"}, TRUE)}}

MCMemberships == {{}, {{"department"}}, {{}, {"department", "faculty"}}}
==============================================================================
