------------------------------ MODULE MCAccess ------------------------------
(* Accounts in states that cover each way to be let in: by a role, by the  *)
(* account's type, and not at all; d is a demo account.                    *)
EXTENDS Access

With(active, roles, type) ==
  [there |-> TRUE, active |-> active, roles |-> roles, name |-> "first", type |-> type]

MCStartAccounts ==
  {[a |-> With(TRUE, {"ADMIN"}, "STUDENT"), b |-> With(FALSE, {}, "STAFF"),
    d |-> With(TRUE, {}, "STUDENT")],
   [a |-> With(TRUE, {}, "STUDENT"), b |-> With(TRUE, {"ADMIN", "TECHNICIAN"}, "STAFF"),
    d |-> With(TRUE, {"STAFF"}, "STUDENT")]}

MCNewGrants == {<<"TECHNICIAN", "audit:read">>, <<"STAFF", "audit:read">>}
=============================================================================
