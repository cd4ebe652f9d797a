--------------------------- MODULE AtomicDirectory ---------------------------
(***************************************************************************)
(* What the administrator endpoints promise: every command is one step on  *)
(* the accounts and their roles, taken by somebody who is an active        *)
(* administrator at that very moment, and never the step that would leave  *)
(* nobody in charge.  AccountAdministration is shown to implement it when  *)
(* requests do not overlap.                                                *)
(***************************************************************************)
CONSTANTS
  Users, Roles, Admin,
  Demo,           \* accounts no command may change
  StartStatus,    \* the accounts' status at the start
  StartPairs      \* the pairs <<account, role>> at the start

VARIABLES
  status,         \* the status of each account
  pairs           \* who holds which role

directory == <<status, pairs>>

IsActiveAdmin(u) == status[u] = "ACTIVE" /\ <<u, Admin>> \in pairs

(* Taking ADMIN, or the account, away from u leaves an administrator.      *)
Spared(u) == IsActiveAdmin(u) => \E v \in Users : v # u /\ IsActiveAdmin(v)

MayChange(a, u) == IsActiveAdmin(a) /\ u \notin Demo /\ status[u] # "DELETED"

Init == status = StartStatus /\ pairs = StartPairs

(* update_user_status.                                                     *)
Activate(a, u) ==
  /\ MayChange(a, u)
  /\ status' = [status EXCEPT ![u] = "ACTIVE"]
  /\ UNCHANGED pairs

Deactivate(a, u) ==
  /\ MayChange(a, u)
  /\ a # u /\ Spared(u)
  /\ status' = [status EXCEPT ![u] = "INACTIVE"]
  /\ UNCHANGED pairs

(* delete_user: the account takes its roles with it.                       *)
Remove(a, u) ==
  /\ MayChange(a, u)
  /\ a # u /\ Spared(u)
  /\ status' = [status EXCEPT ![u] = "DELETED"]
  /\ pairs' = {p \in pairs : p[1] # u}

(* assign_role.                                                            *)
Assign(a, u, x) ==
  /\ MayChange(a, u)
  /\ pairs' = pairs \cup {<<u, x>>}
  /\ UNCHANGED status

(* revoke_role.                                                            *)
Revoke(a, u, x) ==
  /\ MayChange(a, u)
  /\ <<u, x>> \in pairs
  /\ x = Admin => Spared(u)
  /\ pairs' = pairs \ {<<u, x>>}
  /\ UNCHANGED status

(* update_user_role.                                                       *)
Replace(a, u, x, y) ==
  /\ MayChange(a, u)
  /\ <<u, x>> \in pairs
  /\ x = Admin /\ y # Admin => Spared(u)
  /\ pairs' = (pairs \ {<<u, x>>}) \cup {<<u, y>>}
  /\ UNCHANGED status

Command(a, u) ==
  \/ Activate(a, u) \/ Deactivate(a, u) \/ Remove(a, u)
  \/ \E x \in Roles : Assign(a, u, x) \/ Revoke(a, u, x)
  \/ \E x, y \in Roles : Replace(a, u, x, y)

Next == \E a, u \in Users : Command(a, u)

Spec == Init /\ [][Next]_directory
=============================================================================
