----------------------- MODULE MCAccountAdministration -----------------------
(***************************************************************************)
(* Four accounts: a and b are administrators, c is staff and its           *)
(* university id is spelled like b's internal id, d is a demo account.     *)
(***************************************************************************)
EXTENDS AccountAdministration, TLC

Symmetric == Permutations(Requests)

MCUsers == {"a", "b", "c", "d"}

MCRoles == {"ADMIN", "STAFF"}

MCIdOf == [u \in MCUsers |-> u]

MCUidOf == [u \in MCUsers |->
  CASE u = "a" -> "UA" [] u = "b" -> "UB" [] u = "c" -> "b" [] u = "d" -> "UD"]

MCNames == {"a", "UA", "b", "c", "UD", "ud"}

MCLower(n) ==
  CASE n = "UA" -> "ua" [] n = "UB" -> "ub" [] n = "UD" -> "ud" [] OTHER -> n

MCStartStatus == [u \in MCUsers |-> "ACTIVE"]

Row(i, u, x) == [id |-> i, user |-> u, role |-> x]

MCStartLinks == {Row(1, "d", "STAFF"), Row(2, "a", "ADMIN"), Row(3, "b", "ADMIN"), Row(4, "c", "STAFF")}
=============================================================================
