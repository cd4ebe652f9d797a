------------------------------- MODULE Startup -------------------------------
(***************************************************************************)
(* What a container does before it serves (scripts/start.py): the seed     *)
(* (seed.py, reference_data.py) in one process of its own, then the API.   *)
(* A deploy starts the new container beside the old one, and anybody may   *)
(* run the seed by hand, so several run at once, each with the lists of    *)
(* its own release, while administrators work on the accounts.             *)
(*                                                                         *)
(* The database is PostgreSQL at READ COMMITTED: a query sees what is      *)
(* committed and what its own transaction has flushed; an INSERT waits     *)
(* for another transaction that has flushed a row with the same key and    *)
(* fails if that one commits.  A flush is one step: the lists are in one   *)
(* order in every release, so flushes cannot wait for each other.          *)
(***************************************************************************)
EXTENDS Naturals, Sequences

CONSTANTS
  Containers,     \* the processes that seed and then serve
  Names,          \* role names and permission codes
  Reference,      \* a container's ROLES and PERMISSIONS, in order
  Grants,         \* a container's ROLE_PERMISSIONS, as pairs, in order
  DemoIds,        \* ids of demo accounts
  DemoUsers,      \* a container's DEMO_USERS, by id, in order
  DemoUser,       \* the account a demo id stands for
  DemoRole,       \* the role a demo account is given
  OtherIds,       \* ids of the accounts administrators create
  Uids, Emails,   \* university ids and email addresses in use
  ProtectedDemo,  \* demo accounts the serving release protects; none when
                  \* PROTECT_DEMO_USERS is false
  MaxCrashes      \* bound on how often containers die

AccountStatus == {"ACTIVE", "INACTIVE"}

Account ==
  [table : {"users"}, id : DemoIds \cup OtherIds, uid : Uids, email : Emails,
   status : AccountStatus]

NameRow(n) == [table |-> "names", key |-> n]
GrantRow(g) == [table |-> "grants", key |-> g]
LinkRow(u, n) == [table |-> "links", key |-> <<u, n>>]

Rows ==
  {NameRow(n) : n \in Names} \cup {GrantRow(g) : g \in Names \X Names}
    \cup {LinkRow(u, n) : u \in DemoIds \cup OtherIds, n \in Names} \cup Account

Lists(f, S) == \A c \in Containers : f[c] \in Seq(S)

ASSUME StartupAssumption ==
  /\ Lists(Reference, Names)
  /\ Lists(Grants, Names \X Names)
  /\ Lists(DemoUsers, DemoIds)
  /\ DemoUser \in [DemoIds -> Account]
  /\ \A d \in DemoIds : DemoUser[d].id = d
  /\ DemoRole \in [DemoIds -> Names]
  /\ DemoIds \cap OtherIds = {}
  /\ ProtectedDemo \subseteq DemoIds /\ MaxCrashes \in Nat

VARIABLES
  rows,        \* the committed rows of roles, permissions, role_permissions,
               \* user_roles and users
  container,   \* what each container is doing
  crashes      \* how many containers have died

vars == <<rows, container, crashes>>

-----------------------------------------------------------------------------
(* at is the place in the list being gone through, flushed the rows its    *)
(* transaction has written, add those its session will write next.         *)

Down == [pc |-> "down"]

Ready == [pc |-> "ready"]

Seeding ==
  [pc : {"reference", "grants", "demo", "insert"}, at : Nat \ {0},
   flushed : SUBSET Rows, add : SUBSET Rows]

Running(c) == container[c].pc \notin {"down", "ready"}

Flushed(c) == IF Running(c) THEN container[c].flushed ELSE {}

Visible(c) == rows \cup Flushed(c)

(* The PRIMARY KEY and UNIQUE constraints.                                 *)
SameKey(x, y) ==
  /\ x.table = y.table
  /\ IF x.table = "users" THEN x.id = y.id \/ x.uid = y.uid \/ x.email = y.email
                          ELSE x.key = y.key

Clash(S, T) == \E x \in S, y \in T : SameKey(x, y)

(* No other transaction makes an INSERT of these rows wait.                *)
Free(c, S) == \A o \in Containers : o # c => ~Clash(S, Flushed(o))

HasAccount(S, i) == \E x \in S : x.table = "users" /\ x.id = i

Init ==
  /\ rows = {}
  /\ container = [c \in Containers |-> Down]
  /\ crashes = 0

Become(c, p) == container' = [container EXCEPT ![c] = p]

(* Faulty variant: start.py does not check the seed.                       *)
ExitAndServe(c) == Become(c, IF Running(c) THEN Ready ELSE Down) /\ UNCHANGED rows

(* A command of start.py failed, check=True, and the container exits; its  *)
(* transaction is rolled back, and it will be restarted.                   *)
Exit(c) == Become(c, Down) /\ UNCHANGED rows

(* Faulty variant: the account is committed before its role is added.      *)
FlushAndCommit(c, S, p) ==
  /\ Free(c, S)
  /\ IF Clash(S, rows) THEN Exit(c)
     ELSE /\ rows' = rows \cup Flushed(c) \cup S
          /\ Become(c, [p EXCEPT !.flushed = {}])

(* The session writes S and goes on as p, unless a row is there already.   *)
Flush(c, S, p) ==
  /\ Free(c, S)
  /\ IF Clash(S, rows) THEN Exit(c) ELSE Become(c, p) /\ UNCHANGED rows

Commit(c, p) ==
  LET S == container[c].add
  IN /\ Free(c, S)
     /\ IF Clash(S, rows) THEN Exit(c)
        ELSE rows' = rows \cup Flushed(c) \cup S /\ Become(c, p)

Phase(step, flushed) == [pc |-> step, at |-> 1, flushed |-> flushed, add |-> {}]

At(c, step) == Running(c) /\ container[c].pc = step

Advance(q) == [q EXCEPT !.at = @ + 1]

-----------------------------------------------------------------------------
Start(c) ==
  /\ container[c] = Down
  /\ Become(c, Phase("reference", {}))
  /\ UNCHANGED <<rows, crashes>>

(* if not db.query(...).first(): db.add(...)                               *)
AddMissing(c, q, row) ==
  Become(c, IF row \in Visible(c) THEN Advance(q)
            ELSE [Advance(q) EXCEPT !.add = @ \cup {row}])

(* ensure_reference_data, first two loops, one query a step.               *)
CheckReference(c) ==
  /\ At(c, "reference")
  /\ LET q == container[c]
     IN q.at <= Len(Reference[c]) /\ AddMissing(c, q, NameRow(Reference[c][q.at]))
  /\ UNCHANGED <<rows, crashes>>

(* Faulty variant: no flush before the third loop, which sees no new rows. *)
FlushReferenceLater(c) ==
  /\ At(c, "reference")
  /\ container[c].at > Len(Reference[c])
  /\ Become(c, [container[c] EXCEPT !.pc = "grants", !.at = 1])
  /\ UNCHANGED <<rows, crashes>>

(* db.flush(): the session has no autoflush.                               *)
FlushReference(c) ==
  /\ At(c, "reference")
  /\ LET q == container[c]
     IN q.at > Len(Reference[c]) /\ Flush(c, q.add, Phase("grants", q.flushed \cup q.add))
  /\ UNCHANGED crashes

(* The third loop: .one() raises when the role or permission is missing.   *)
CheckGrant(c) ==
  /\ At(c, "grants")
  /\ LET q == container[c]
         g == Grants[c][q.at]
     IN /\ q.at <= Len(Grants[c])
        /\ IF {NameRow(g[1]), NameRow(g[2])} \subseteq Visible(c)
           THEN AddMissing(c, q, GrantRow(g))
           ELSE Become(c, Down)
  /\ UNCHANGED <<rows, crashes>>

(* The seed ends here without --demo; DemoUsers is then empty.             *)
CommitReference(c) ==
  /\ At(c, "grants")
  /\ container[c].at > Len(Grants[c])
  /\ Commit(c, Phase("demo", {}))
  /\ UNCHANGED crashes

(* Faulty variant: an account that is there is set back to the demo's data.*)
ResetDemo(c) ==
  /\ At(c, "demo")
  /\ LET q == container[c]
         d == DemoUsers[c][q.at]
     IN /\ q.at <= Len(DemoUsers[c])
        /\ IF HasAccount(Visible(c), d)
           THEN /\ rows' = {x \in rows : x.table # "users" \/ x.id # d} \cup {DemoUser[d]}
                /\ Become(c, Advance(q))
           ELSE Become(c, [q EXCEPT !.pc = "insert"]) /\ UNCHANGED rows
  /\ UNCHANGED crashes

(* seed_demo_users: an account that is there is left as it is.             *)
CheckDemo(c) ==
  /\ At(c, "demo")
  /\ LET q == container[c]
     IN /\ q.at <= Len(DemoUsers[c])
        /\ Become(c, IF HasAccount(Visible(c), DemoUsers[c][q.at]) THEN Advance(q)
                     ELSE [q EXCEPT !.pc = "insert"])
  /\ UNCHANGED <<rows, crashes>>

(* The new account is flushed, with the role of the one before, and its    *)
(* own role looked up (NULL fails) and added to the session.               *)
InsertDemo(c) ==
  /\ At(c, "insert")
  /\ LET q == container[c]
         d == DemoUsers[c][q.at]
         new == q.add \cup {DemoUser[d]}
     IN /\ q.at <= Len(DemoUsers[c])
        /\ IF NameRow(DemoRole[d]) \in Visible(c)
           THEN Flush(c, new, [pc |-> "demo", at |-> q.at + 1, flushed |-> q.flushed \cup new,
                               add |-> {LinkRow(d, DemoRole[d])}])
           ELSE Exit(c)
  /\ UNCHANGED crashes

CommitDemo(c) ==
  /\ At(c, "demo")
  /\ container[c].at > Len(DemoUsers[c])
  /\ Commit(c, Ready)
  /\ UNCHANGED crashes

Step(c) ==
  \/ Start(c)
  \/ CheckReference(c) \/ FlushReference(c) \/ CheckGrant(c) \/ CommitReference(c)
  \/ CheckDemo(c) \/ InsertDemo(c) \/ CommitDemo(c)

Crash(c) ==
  /\ crashes < MaxCrashes
  /\ container[c] # Down
  /\ Exit(c)
  /\ crashes' = crashes + 1

-----------------------------------------------------------------------------
(* Administrators, on a container of an earlier release that still serves, *)
(* and protects the demo accounts of that release only.                    *)

(* is_protected_demo_account, by either identifier.                        *)
Protected(x) ==
  x.id \in ProtectedDemo \/ \E d \in ProtectedDemo : x.uid = DemoUser[d].uid

Unblocked(x) == ~Clash({x}, rows) /\ \A c \in Containers : ~Clash({x}, Flushed(c))

(* POST /users; the endpoint does not ask the protection.                  *)
CreateAccount(x) ==
  /\ x.id \in OtherIds
  /\ Unblocked(x)
  /\ rows' = rows \cup {x}

(* DELETE /users/{id}, with the roles by ON DELETE CASCADE.                *)
DeleteAccount(x) ==
  /\ ~Protected(x)
  /\ rows' = {y \in rows \ {x} : y.table # "links" \/ y.key[1] # x.id}

(* PATCH /users/{id}/status                                                *)
ChangeStatus(x, s) ==
  /\ ~Protected(x)
  /\ rows' = (rows \ {x}) \cup {[x EXCEPT !.status = s]}

(* POST and DELETE /users/{id}/roles                                       *)
AssignRole(x, n) ==
  /\ ~Protected(x)
  /\ NameRow(n) \in rows
  /\ rows' = rows \cup {LinkRow(x.id, n)}

RevokeRole(x, n) ==
  /\ ~Protected(x)
  /\ rows' = rows \ {LinkRow(x.id, n)}

Administer ==
  /\ \/ \E x \in Account : CreateAccount(x)
     \/ \E x \in rows :
          /\ x.table = "users"
          /\ \/ DeleteAccount(x)
             \/ \E s \in AccountStatus : ChangeStatus(x, s)
             \/ \E n \in Names : AssignRole(x, n) \/ RevokeRole(x, n)
  /\ UNCHANGED <<container, crashes>>

Next ==
  \/ \E c \in Containers : Step(c) \/ Crash(c)
  \/ Administer

(* Docker and Render restart a container that exits, and a process that    *)
(* can go on does; nobody has to administer.                               *)
Fairness == \A c \in Containers : WF_vars(Step(c))

Spec == Init /\ [][Next]_vars /\ Fairness

-----------------------------------------------------------------------------
(* Every variable stays in its range (models/*.py).                        *)
TypeOK ==
  /\ rows \subseteq Rows
  /\ container \in [Containers -> Seeding \cup {Down, Ready}]
  /\ crashes \in 0 .. MaxCrashes

Elements(s) == {s[i] : i \in 1 .. Len(s)}

(* start.py: the API is served only after the seed, so a container that    *)
(* serves has every role, permission and grant of its release, and each of *)
(* its demo accounts that is protected, whatever the others have been      *)
(* doing.                                                                  *)
ReadyHasData ==
  \A c \in Containers : container[c] = Ready =>
    /\ \A n \in Elements(Reference[c]) : NameRow(n) \in rows
    /\ \A g \in Elements(Grants[c]) : GrantRow(g) \in rows
    /\ \A d \in Elements(DemoUsers[c]) \cap ProtectedDemo : HasAccount(rows, d)

(* A protected demo account is never seen without its role: a seed that    *)
(* dies half way, or loses a race, leaves no account that a later one      *)
(* would skip (seed_demo_users, one commit).                               *)
DemoHasRole ==
  \A d \in ProtectedDemo : HasAccount(rows, d) => LinkRow(d, DemoRole[d]) \in rows

(* seed.py: "existing rows are never modified or deleted", even when an    *)
(* administrator has changed a demo account meanwhile.                     *)
SeedOnlyAdds == [][\A c \in Containers : Step(c) => rows \subseteq rows']_vars

(* Nobody else's account has a university id or email of a demo account.   *)
NoneTaken ==
  \A x \in rows, d \in DemoIds : x.table = "users" /\ SameKey(x, DemoUser[d]) => x.id = d

(* docs/DEPLOY_RENDER.md, "On every start the container ... seeds ... and  *)
(* starts the API": a container that dies a bounded number of times serves *)
(* in the end, provided the demo accounts' identifiers are left to them.   *)
ServesIfNoneTaken == []NoneTaken => \A c \in Containers : <>(container[c] = Ready)
=============================================================================
