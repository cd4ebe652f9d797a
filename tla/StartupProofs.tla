---------------------------- MODULE StartupProofs ----------------------------
(***************************************************************************)
(* Theorems about Startup for any number of containers, whatever lists     *)
(* their releases hold.                                                    *)
(***************************************************************************)
EXTENDS Startup, TLAPS

(* The rows of a phase just entered.                                       *)
LEMMA PhaseType ==
  ASSUME NEW S \in SUBSET Rows, NEW p \in {"grants", "demo", "reference"}
  PROVE  Phase(p, S) \in Seeding
BY DEF Phase, Seeding

(* A container that seeds holds a place in a list and two sets of rows.    *)
LEMMA BusyType ==
  ASSUME TypeOK, NEW c \in Containers, Running(c)
  PROVE  /\ container[c] \in Seeding
         /\ container[c].at \in Nat \ {0}
         /\ container[c].flushed \in SUBSET Rows /\ container[c].add \in SUBSET Rows
<1>1. container[c] \in Seeding
  BY DEF TypeOK, Running, Down, Ready
<1> QED
  BY <1>1 DEF Seeding

(* Moving on in a list, with or without a row to add.                      *)
LEMMA AddMissingType ==
  ASSUME NEW q \in Seeding, NEW row \in Rows
  PROVE  Advance(q) \in Seeding /\ [Advance(q) EXCEPT !.add = @ \cup {row}] \in Seeding
<1>1. Advance(q) \in Seeding
  BY DEF Advance, Seeding
<1> QED
  BY <1>1 DEF Seeding

(* What a list holds at a place within it.                                 *)
LEMMA ListItem ==
  ASSUME NEW c \in Containers, NEW i \in Nat \ {0}
  PROVE  /\ i <= Len(Reference[c]) => Reference[c][i] \in Names
         /\ i <= Len(Grants[c]) => Grants[c][i] \in Names \X Names
         /\ i <= Len(DemoUsers[c]) => DemoUsers[c][i] \in DemoIds
BY StartupAssumption DEF Lists

(* Flushing and committing keep the ranges.                                *)
LEMMA FlushType ==
  ASSUME TypeOK, NEW c \in Containers, NEW S \in SUBSET Rows, NEW p \in Seeding,
         Flush(c, S, p), UNCHANGED crashes
  PROVE  TypeOK'
BY DEF Flush, Exit, Become, TypeOK, Down

LEMMA CommitType ==
  ASSUME TypeOK, NEW c \in Containers, Running(c), NEW p \in Seeding \cup {Ready},
         Commit(c, p), UNCHANGED crashes
  PROVE  TypeOK'
<1>1. rows' \subseteq Rows
  <2>1. Flushed(c) \subseteq Rows /\ container[c].add \subseteq Rows
    BY BusyType DEF Flushed
  <2> QED
    BY <2>1 DEF Commit, Exit, TypeOK
<1>2. container' \in [Containers -> Seeding \cup {Down, Ready}]
  BY DEF Commit, Exit, Become, TypeOK
<1> QED
  BY <1>1, <1>2 DEF TypeOK

(* Every step of a container keeps the ranges.                             *)
LEMMA StepType ==
  ASSUME TypeOK, NEW c \in Containers, Step(c)
  PROVE  TypeOK'
<1> DEFINE q == container[c]
<1>1. CASE Start(c)
  BY <1>1, PhaseType DEF Start, Become, TypeOK
<1>2. CASE CheckReference(c)
  <2>1. q \in Seeding /\ NameRow(Reference[c][q.at]) \in Rows
    BY <1>2, BusyType, ListItem DEF CheckReference, At, Rows
  <2> QED
    BY <1>2, <2>1, AddMissingType DEF CheckReference, AddMissing, Become, TypeOK
<1>3. CASE FlushReference(c)
  <2>1. Running(c) /\ Flush(c, q.add, Phase("grants", q.flushed \cup q.add)) /\ UNCHANGED crashes
    BY <1>3 DEF FlushReference, At
  <2> QED
    BY <2>1, BusyType, PhaseType, FlushType
<1>4. CASE CheckGrant(c)
  <2>1. q \in Seeding /\ GrantRow(Grants[c][q.at]) \in Rows
    BY <1>4, BusyType, ListItem DEF CheckGrant, At, Rows
  <2> QED
    BY <1>4, <2>1, AddMissingType DEF CheckGrant, AddMissing, Become, TypeOK
<1>5. CASE CommitReference(c)
  <2>1. Running(c) /\ Commit(c, Phase("demo", {})) /\ UNCHANGED crashes
    BY <1>5 DEF CommitReference, At
  <2> QED
    BY <2>1, PhaseType, CommitType
<1>6. CASE CheckDemo(c)
  <2>1. q \in Seeding
    BY <1>6, BusyType DEF CheckDemo, At
  <2>2. Advance(q) \in Seeding /\ [q EXCEPT !.pc = "insert"] \in Seeding
    BY <2>1 DEF Advance, Seeding
  <2> QED
    BY <1>6, <2>2 DEF CheckDemo, Become, TypeOK
<1>7. CASE InsertDemo(c)
  <2> DEFINE d == DemoUsers[c][q.at]
             new == q.add \cup {DemoUser[d]}
             next == [pc |-> "demo", at |-> q.at + 1, flushed |-> q.flushed \cup new,
                      add |-> {LinkRow(d, DemoRole[d])}]
  <2>1. CASE Exit(c)
    BY <1>7, <2>1 DEF InsertDemo, Exit, Become, TypeOK
  <2>2. CASE Flush(c, new, next) /\ d \in DemoIds
    <3>1. q.at \in Nat \ {0} /\ q.flushed \subseteq Rows /\ q.add \subseteq Rows
      BY <1>7, BusyType DEF InsertDemo, At
    <3>2. DemoUser[d] \in Rows /\ LinkRow(d, DemoRole[d]) \in Rows
      BY <2>2, StartupAssumption DEF Rows
    <3>3. next \in Seeding /\ new \in SUBSET Rows
      BY <3>1, <3>2 DEF Seeding
    <3> QED
      BY <1>7, <2>2, <3>3, FlushType DEF InsertDemo
  <2>3. d \in DemoIds
    BY <1>7, BusyType, ListItem DEF InsertDemo, At
  <2> QED
    BY <1>7, <2>1, <2>2, <2>3 DEF InsertDemo
<1>8. CASE CommitDemo(c)
  BY <1>8, CommitType DEF CommitDemo, At
<1> QED
  BY <1>1, <1>2, <1>3, <1>4, <1>5, <1>6, <1>7, <1>8 DEF Step

(* Administrators keep the ranges of the tables.                           *)
LEMMA AdministerType ==
  ASSUME TypeOK, Administer
  PROVE  TypeOK'
<1>1. ASSUME NEW x \in rows, x.table = "users" PROVE x \in Account
  BY <1>1 DEF TypeOK, Rows, NameRow, GrantRow, LinkRow
<1>2. rows' \subseteq Rows
  <2>1. ASSUME NEW x \in Account, CreateAccount(x) PROVE rows' \subseteq Rows
    BY <2>1 DEF CreateAccount, TypeOK, Rows
  <2>2. ASSUME NEW x \in rows, DeleteAccount(x) PROVE rows' \subseteq Rows
    BY <2>2 DEF DeleteAccount, TypeOK
  <2>3. ASSUME NEW x \in rows, x.table = "users", NEW s \in AccountStatus, ChangeStatus(x, s)
        PROVE  rows' \subseteq Rows
    <3>1. [x EXCEPT !.status = s] \in Account
      BY <1>1, <2>3 DEF Account
    <3> QED
      BY <2>3, <3>1 DEF ChangeStatus, TypeOK, Rows
  <2>4. ASSUME NEW x \in rows, x.table = "users", NEW n \in Names, AssignRole(x, n) \/ RevokeRole(x, n)
        PROVE  rows' \subseteq Rows
    <3>1. LinkRow(x.id, n) \in Rows
      BY <1>1, <2>4 DEF Account, Rows
    <3> QED
      BY <2>4, <3>1 DEF AssignRole, RevokeRole, TypeOK
  <2> QED
    BY <2>1, <2>2, <2>3, <2>4 DEF Administer
<1> QED
  BY <1>2 DEF Administer, TypeOK

(* Every step keeps the ranges.                                            *)
LEMMA NextType == TypeOK /\ [Next]_vars => TypeOK'
<1> SUFFICES ASSUME TypeOK, [Next]_vars PROVE TypeOK'
  OBVIOUS
<1>1. ASSUME NEW c \in Containers, Crash(c) PROVE TypeOK'
  BY <1>1, StartupAssumption DEF Crash, Exit, Become, TypeOK
<1>2. CASE UNCHANGED vars
  BY <1>2 DEF vars, TypeOK
<1> QED
  BY <1>1, <1>2, StepType, AdministerType DEF Next

(* Every state is well typed.                                              *)
THEOREM TypeCorrect == Spec => []TypeOK
<1>1. Init => TypeOK
  BY StartupAssumption DEF Init, TypeOK
<1> QED
  BY <1>1, NextType, PTL DEF Spec

-----------------------------------------------------------------------------
(* The seed only adds rows.                                                *)

LEMMA StepAdds ==
  ASSUME NEW c \in Containers, Step(c)
  PROVE  rows \subseteq rows'
BY DEF Step, Start, CheckReference, FlushReference, CheckGrant, CommitReference, CheckDemo,
   InsertDemo, CommitDemo, Flush, Commit, Exit

(* No step of a container changes or removes a row that is committed.      *)
THEOREM SeedAddsOnly == Spec => SeedOnlyAdds
<1>1. [Next]_vars => \A c \in Containers : Step(c) => rows \subseteq rows'
  BY StepAdds
<1> QED
  BY <1>1, PTL DEF Spec, SeedOnlyAdds

-----------------------------------------------------------------------------
(* What other processes leave alone.                                       *)

(* Rows nobody takes away: reference data, and protected demo accounts     *)
(* with their roles.                                                       *)
Lasting ==
  /\ \A n : NameRow(n) \in rows => NameRow(n) \in rows'
  /\ \A g : GrantRow(g) \in rows => GrantRow(g) \in rows'
  /\ \A d \in ProtectedDemo :
       /\ HasAccount(rows, d) => HasAccount(rows', d)
       /\ \A n : LinkRow(d, n) \in rows => LinkRow(d, n) \in rows'

(* Rows that only grow last.                                               *)
LEMMA GrowingLasts == rows \subseteq rows' => Lasting
BY DEF Lasting, HasAccount

(* An unprotected account is none of the protected ones.                   *)
LEMMA ProtectedIds ==
  ASSUME NEW x, ~Protected(x)
  PROVE  x.id \notin ProtectedDemo
BY DEF Protected

(* Administrators leave the reference data and the protected accounts.     *)
LEMMA AdministerLasts ==
  ASSUME Administer
  PROVE  Lasting
<1>1. ASSUME NEW x \in Account, CreateAccount(x) PROVE Lasting
  BY <1>1, GrowingLasts DEF CreateAccount
<1>2. ASSUME NEW x \in rows, x.table = "users", DeleteAccount(x) PROVE Lasting
  <2>1. \A y \in rows : y # x /\ y.table # "links" => y \in rows'
    BY <1>2 DEF DeleteAccount
  <2>2. \A n : NameRow(n).table = "names"
    BY DEF NameRow
  <2>3. \A g : GrantRow(g).table = "grants"
    BY DEF GrantRow
  <2>4. ASSUME NEW d \in ProtectedDemo, HasAccount(rows, d) PROVE HasAccount(rows', d)
    BY <1>2, <2>1, <2>4, ProtectedIds DEF DeleteAccount, HasAccount
  <2>5. ASSUME NEW d \in ProtectedDemo, NEW n, LinkRow(d, n) \in rows PROVE LinkRow(d, n) \in rows'
    BY <1>2, <2>5, ProtectedIds DEF DeleteAccount, LinkRow
  <2> QED
    BY <1>2, <2>1, <2>2, <2>3, <2>4, <2>5 DEF Lasting
<1>3. ASSUME NEW x \in rows, x.table = "users", NEW s \in AccountStatus, ChangeStatus(x, s)
      PROVE  Lasting
  <2>1. \A y \in rows : y # x => y \in rows'
    BY <1>3 DEF ChangeStatus
  <2>2. \A n, u : NameRow(n).table # "users" /\ GrantRow(n).table # "users" /\ LinkRow(u, n).table # "users"
    BY DEF NameRow, GrantRow, LinkRow
  <2>3. ASSUME NEW d \in ProtectedDemo, HasAccount(rows, d) PROVE HasAccount(rows', d)
    BY <1>3, <2>1, <2>3, ProtectedIds DEF ChangeStatus, HasAccount
  <2> QED
    BY <1>3, <2>1, <2>2, <2>3 DEF Lasting
<1>4. ASSUME NEW x \in rows, x.table = "users", NEW n \in Names, AssignRole(x, n)
      PROVE  Lasting
  BY <1>4, GrowingLasts DEF AssignRole
<1>5. ASSUME NEW x \in rows, x.table = "users", NEW n \in Names, RevokeRole(x, n)
      PROVE  Lasting
  <2>1. \A y \in rows : y # LinkRow(x.id, n) => y \in rows'
    BY <1>5 DEF RevokeRole
  <2>2. \A m : NameRow(m).table # "links" /\ GrantRow(m).table # "links"
    BY DEF NameRow, GrantRow
  <2>3. LinkRow(x.id, n).table = "links"
    BY DEF LinkRow
  <2>4. ASSUME NEW d \in ProtectedDemo, NEW m, LinkRow(d, m) \in rows PROVE LinkRow(d, m) \in rows'
    BY <1>5, <2>1, <2>4, ProtectedIds DEF RevokeRole, LinkRow
  <2>5. ASSUME NEW d, HasAccount(rows, d) PROVE HasAccount(rows', d)
    BY <2>1, <2>3, <2>5 DEF HasAccount
  <2> QED
    BY <2>1, <2>2, <2>3, <2>4, <2>5 DEF Lasting
<1> QED
  BY <1>1, <1>2, <1>3, <1>4, <1>5 DEF Administer

(* So does every step.                                                     *)
LEMMA NextLasts == [Next]_vars => Lasting
<1> SUFFICES ASSUME [Next]_vars PROVE Lasting
  OBVIOUS
<1>1. ASSUME NEW c \in Containers, Step(c) PROVE Lasting
  BY <1>1, StepAdds, GrowingLasts
<1>2. ASSUME NEW c \in Containers, Crash(c) PROVE Lasting
  BY <1>2, GrowingLasts DEF Crash, Exit
<1>3. CASE UNCHANGED vars
  BY <1>3, GrowingLasts DEF vars
<1> QED
  BY <1>1, <1>2, <1>3, AdministerLasts DEF Next

-----------------------------------------------------------------------------
(* What a container holds: what is committed, and what its own transaction *)
(* and session will commit.                                                *)

Held(c) == IF Running(c) THEN rows \cup container[c].flushed \cup container[c].add ELSE rows

HasNames(c) ==
  \A i \in 1 .. Len(Reference[c]) :
    (At(c, "reference") => i < container[c].at) => NameRow(Reference[c][i]) \in Held(c)

HasGrants(c) ==
  ~At(c, "reference") =>
    \A i \in 1 .. Len(Grants[c]) :
      (At(c, "grants") => i < container[c].at) => GrantRow(Grants[c][i]) \in Held(c)

HasDemos(c) ==
  ~At(c, "reference") /\ ~At(c, "grants") =>
    \A i \in 1 .. Len(DemoUsers[c]) :
      DemoUsers[c][i] \in ProtectedDemo /\ (Running(c) => i < container[c].at) =>
        HasAccount(Held(c), DemoUsers[c][i])

Prepared(c) == container[c] # Down => HasNames(c) /\ HasGrants(c) /\ HasDemos(c)

AllPrepared == \A c \in Containers : Prepared(c)

(* A container that stays as it is keeps what it has gone through.         *)
LEMMA StaysPrepared ==
  ASSUME NEW c \in Containers, Prepared(c), Lasting, container'[c] = container[c]
  PROVE  Prepared(c)'
<1>1. /\ Running(c)' <=> Running(c)
      /\ At(c, "reference")' <=> At(c, "reference")
      /\ At(c, "grants")' <=> At(c, "grants")
      /\ container'[c].at = container[c].at
  BY DEF Running, At
<1>2. \A n : NameRow(n) \in Held(c) => NameRow(n) \in Held(c)'
  BY <1>1 DEF Lasting, Held
<1>3. \A g : GrantRow(g) \in Held(c) => GrantRow(g) \in Held(c)'
  BY <1>1 DEF Lasting, Held
<1>4. \A i \in 1 .. Len(DemoUsers[c]) :
        DemoUsers[c][i] \in ProtectedDemo /\ HasAccount(Held(c), DemoUsers[c][i]) =>
          HasAccount(Held(c)', DemoUsers[c][i])
  <2> SUFFICES ASSUME NEW i \in 1 .. Len(DemoUsers[c]), DemoUsers[c][i] \in ProtectedDemo,
                      HasAccount(Held(c), DemoUsers[c][i])
               PROVE  HasAccount(Held(c)', DemoUsers[c][i])
    OBVIOUS
  <2>2. CASE HasAccount(rows, DemoUsers[c][i])
    BY <1>1, <2>2 DEF Lasting, HasAccount, Held
  <2>3. CASE ~HasAccount(rows, DemoUsers[c][i])
    BY <1>1, <2>3 DEF HasAccount, Held
  <2> QED
    BY <2>2, <2>3
<1>5. HasNames(c) => HasNames(c)'
  BY <1>1, <1>2 DEF HasNames
<1>6. HasGrants(c) => HasGrants(c)'
  BY <1>1, <1>3 DEF HasGrants
<1>7. HasDemos(c) => HasDemos(c)'
  BY <1>1, <1>4 DEF HasDemos
<1> QED
  BY <1>5, <1>6, <1>7 DEF Prepared

(* A container that exits promises nothing.                                *)
LEMMA ExitPrepared ==
  ASSUME TypeOK, NEW c \in Containers, container' = [container EXCEPT ![c] = Down]
  PROVE  Prepared(c)'
BY DEF Prepared, TypeOK

(* A container that holds no less and is in the same phase keeps its names.*)
LEMMA HeldNames ==
  ASSUME NEW c \in Containers, HasNames(c), ~At(c, "reference"), Held(c) \subseteq Held(c)'
  PROVE  HasNames(c)'
BY DEF HasNames

LEMMA HeldGrants ==
  ASSUME NEW c \in Containers, HasGrants(c), ~At(c, "reference"), ~At(c, "grants"),
         Held(c) \subseteq Held(c)'
  PROVE  HasGrants(c)'
BY DEF HasGrants

LEMMA HeldAccount ==
  ASSUME NEW S, NEW T, S \subseteq T, NEW i, HasAccount(S, i)
  PROVE  HasAccount(T, i)
BY DEF HasAccount

(* Each step of a container leaves it with what it has gone through.       *)
LEMMA StepPrepared ==
  ASSUME TypeOK, NEW c \in Containers, Prepared(c), Step(c)
  PROVE  Prepared(c)'
<1> DEFINE q == container[c]
<1>1. ASSUME NEW p, Become(c, p) PROVE container'[c] = p
  BY <1>1 DEF Become, TypeOK
<1>2. ASSUME Exit(c) PROVE Prepared(c)'
  BY <1>2, ExitPrepared DEF Exit, Become
<1>3. CASE Start(c)
  <2>1. container'[c] = Phase("reference", {})
    BY <1>1, <1>3 DEF Start
  <2>2. At(c, "reference")' /\ container'[c].at = 1 /\ Running(c)'
    BY <2>1 DEF Phase, At, Running
  <2> QED
    BY <2>2 DEF Prepared, HasNames, HasGrants, HasDemos, At
<1>4. CASE CheckReference(c)
  <2> DEFINE row == NameRow(Reference[c][q.at])
  <2>1. /\ q \in Seeding /\ q.at \in Nat \ {0} /\ q.at <= Len(Reference[c])
        /\ q.pc = "reference" /\ Running(c) /\ UNCHANGED rows
    BY <1>4, BusyType DEF CheckReference, At
  <2>2. /\ container'[c].pc = "reference" /\ container'[c].at = q.at + 1
        /\ container'[c].flushed = q.flushed
        /\ \/ container'[c].add = q.add /\ row \in Visible(c)
           \/ container'[c].add = q.add \cup {row}
    <3>1. CASE row \in Visible(c)
      <4>1. container'[c] = Advance(q)
        BY <1>1, <1>4, <3>1 DEF CheckReference, AddMissing
      <4> QED
        BY <2>1, <3>1, <4>1 DEF Advance, Seeding
    <3>2. CASE row \notin Visible(c)
      <4>1. container'[c] = [Advance(q) EXCEPT !.add = @ \cup {row}]
        BY <1>1, <1>4, <3>2 DEF CheckReference, AddMissing
      <4> QED
        BY <2>1, <4>1 DEF Advance, Seeding
    <3> QED
      BY <3>1, <3>2
  <2>3. Running(c)' /\ At(c, "reference") /\ At(c, "reference")'
    BY <2>1, <2>2 DEF Running, At
  <2>4. row \in Held(c)' /\ Held(c) \subseteq Held(c)'
    BY <2>1, <2>2, <2>3 DEF Held, Visible, Flushed
  <2>5. \A i \in 1 .. Len(Reference[c]) : i < q.at => NameRow(Reference[c][i]) \in Held(c)
    BY <2>1, <2>3 DEF Prepared, HasNames, Down
  <2>6. \A i \in 1 .. Len(Reference[c]) : i < q.at + 1 => i < q.at \/ i = q.at
    BY <2>1
  <2>7. HasNames(c)'
    BY <2>2, <2>3, <2>4, <2>5, <2>6 DEF HasNames
  <2> QED
    BY <2>3, <2>7 DEF Prepared, HasGrants, HasDemos
<1>5. CASE FlushReference(c)
  <2>1. q.pc = "reference" /\ Running(c) /\ q.at > Len(Reference[c]) /\ UNCHANGED rows
    BY <1>5 DEF FlushReference, Flush, Exit, At
  <2>2. CASE Become(c, Phase("grants", q.flushed \cup q.add))
    <3>1. container'[c] = Phase("grants", q.flushed \cup q.add)
      BY <1>1, <2>2
    <3>2. /\ container'[c].pc = "grants" /\ container'[c].at = 1
          /\ container'[c].flushed = q.flushed \cup q.add /\ container'[c].add = {}
      BY <3>1 DEF Phase
    <3>3. Running(c)' /\ At(c, "reference") /\ ~At(c, "reference")' /\ At(c, "grants")'
      BY <2>1, <3>2 DEF Running, At
    <3>4. Held(c)' = Held(c)
      BY <2>1, <3>2, <3>3 DEF Held
    <3>5. q.at \in Nat \ {0} /\ Len(Reference[c]) \in Nat
      BY <2>1, BusyType, StartupAssumption DEF Lists
    <3>6. \A i \in 1 .. Len(Reference[c]) : NameRow(Reference[c][i]) \in Held(c)
      BY <2>1, <3>3, <3>5 DEF Prepared, HasNames, Down
    <3>7. HasNames(c)'
      BY <3>4, <3>6 DEF HasNames
    <3>8. HasGrants(c)'
      BY <3>2, <3>3 DEF HasGrants
    <3> QED
      BY <3>3, <3>7, <3>8 DEF Prepared, HasDemos
  <2> QED
    BY <1>2, <1>5, <2>2 DEF FlushReference, Flush
<1>6. CASE CheckGrant(c)
  <2> DEFINE row == GrantRow(Grants[c][q.at])
  <2>1. /\ q \in Seeding /\ q.at \in Nat \ {0} /\ q.at <= Len(Grants[c])
        /\ q.pc = "grants" /\ Running(c) /\ UNCHANGED rows
    BY <1>6, BusyType DEF CheckGrant, At
  <2>2. CASE Become(c, Down)
    BY <2>2, ExitPrepared DEF Become
  <2>3. CASE AddMissing(c, q, row)
    <3>1. /\ container'[c].pc = "grants" /\ container'[c].at = q.at + 1
          /\ container'[c].flushed = q.flushed
          /\ \/ container'[c].add = q.add /\ row \in Visible(c)
             \/ container'[c].add = q.add \cup {row}
      <4>1. CASE row \in Visible(c)
        <5>1. container'[c] = Advance(q)
          BY <1>1, <2>3, <4>1 DEF AddMissing
        <5> QED
          BY <2>1, <4>1, <5>1 DEF Advance, Seeding
      <4>2. CASE row \notin Visible(c)
        <5>1. container'[c] = [Advance(q) EXCEPT !.add = @ \cup {row}]
          BY <1>1, <2>3, <4>2 DEF AddMissing
        <5> QED
          BY <2>1, <5>1 DEF Advance, Seeding
      <4> QED
        BY <4>1, <4>2
    <3>2. Running(c)' /\ At(c, "grants") /\ At(c, "grants")' /\ ~At(c, "reference") /\ ~At(c, "reference")'
      BY <2>1, <3>1 DEF Running, At
    <3>3. row \in Held(c)' /\ Held(c) \subseteq Held(c)'
      BY <2>1, <3>1, <3>2 DEF Held, Visible, Flushed
    <3>4. HasNames(c) /\ \A i \in 1 .. Len(Grants[c]) : i < q.at => GrantRow(Grants[c][i]) \in Held(c)
      BY <2>1, <3>2 DEF Prepared, HasGrants, Down
    <3>5. \A i \in 1 .. Len(Grants[c]) : i < q.at + 1 => i < q.at \/ i = q.at
      BY <2>1
    <3>6. HasGrants(c)'
      BY <3>1, <3>2, <3>3, <3>4, <3>5 DEF HasGrants
    <3>7. HasNames(c)'
      BY <3>2, <3>3, <3>4, HeldNames
    <3> QED
      BY <3>2, <3>6, <3>7 DEF Prepared, HasDemos
  <2> QED
    BY <1>6, <2>2, <2>3 DEF CheckGrant
<1>7. CASE CommitReference(c)
  <2>1. /\ q.pc = "grants" /\ Running(c) /\ q.at > Len(Grants[c])
        /\ At(c, "grants") /\ ~At(c, "reference")
    BY <1>7 DEF CommitReference, At
  <2>2. CASE rows' = rows \cup Flushed(c) \cup q.add /\ Become(c, Phase("demo", {}))
    <3>1. container'[c] = Phase("demo", {})
      BY <1>1, <2>2
    <3>2. container'[c].pc = "demo" /\ container'[c].at = 1
      BY <3>1 DEF Phase
    <3>3. Running(c)' /\ ~At(c, "reference")' /\ ~At(c, "grants")'
      BY <3>2 DEF Running, At
    <3>4. Held(c) \subseteq Held(c)'
      BY <2>1, <2>2, <3>3 DEF Held, Flushed
    <3>5. q.at \in Nat \ {0} /\ Len(Grants[c]) \in Nat
      BY <2>1, BusyType, StartupAssumption DEF Lists
    <3>6. HasNames(c) /\ \A i \in 1 .. Len(Grants[c]) : GrantRow(Grants[c][i]) \in Held(c)
      BY <2>1, <3>5 DEF Prepared, HasGrants, Down
    <3>7. HasNames(c)' /\ HasGrants(c)'
      BY <2>1, <3>4, <3>6, HeldNames DEF HasGrants
    <3>8. HasDemos(c)'
      BY <3>2, <3>3 DEF HasDemos
    <3> QED
      BY <3>7, <3>8 DEF Prepared
  <2> QED
    BY <1>2, <1>7, <2>2 DEF CommitReference, Commit
<1>8. CASE CheckDemo(c)
  <2>1. /\ q \in Seeding /\ q.at \in Nat \ {0} /\ q.at <= Len(DemoUsers[c])
        /\ q.pc = "demo" /\ Running(c) /\ UNCHANGED rows
        /\ ~At(c, "reference") /\ ~At(c, "grants")
    BY <1>8, BusyType DEF CheckDemo, At
  <2>2. /\ container'[c].flushed = q.flushed /\ container'[c].add = q.add
        /\ \/ /\ container'[c].pc = "insert" /\ container'[c].at = q.at
           \/ /\ container'[c].pc = "demo" /\ container'[c].at = q.at + 1
              /\ HasAccount(Visible(c), DemoUsers[c][q.at])
    <3>1. CASE HasAccount(Visible(c), DemoUsers[c][q.at])
      <4>1. container'[c] = Advance(q)
        BY <1>1, <1>8, <3>1 DEF CheckDemo
      <4> QED
        BY <2>1, <3>1, <4>1 DEF Advance, Seeding
    <3>2. CASE ~HasAccount(Visible(c), DemoUsers[c][q.at])
      <4>1. container'[c] = [q EXCEPT !.pc = "insert"]
        BY <1>1, <1>8, <3>2 DEF CheckDemo
      <4> QED
        BY <2>1, <4>1 DEF Seeding
    <3> QED
      BY <3>1, <3>2
  <2>3. Running(c)' /\ ~At(c, "reference")' /\ ~At(c, "grants")'
    BY <2>2 DEF Running, At
  <2>4. Held(c)' = Held(c) /\ Visible(c) \subseteq Held(c)
    BY <2>1, <2>2, <2>3 DEF Held, Visible, Flushed
  <2>5. HasNames(c) /\ HasGrants(c) /\ HasDemos(c)
    BY <2>1 DEF Prepared, Down
  <2>6. HasNames(c)' /\ HasGrants(c)'
    BY <2>1, <2>4, <2>5, HeldNames, HeldGrants
  <2>7. \A i \in 1 .. Len(DemoUsers[c]) : i < q.at + 1 => i < q.at \/ i = q.at
    BY <2>1
  <2>8. container'[c].pc = "demo" => HasAccount(Held(c), DemoUsers[c][q.at])
    BY <2>2, <2>4, HeldAccount
  <2>9. \A i \in 1 .. Len(DemoUsers[c]) :
             DemoUsers[c][i] \in ProtectedDemo /\ i < q.at => HasAccount(Held(c), DemoUsers[c][i])
    BY <2>1, <2>5 DEF HasDemos
  <2>10. HasDemos(c)'
    BY <2>2, <2>3, <2>4, <2>7, <2>8, <2>9 DEF HasDemos
  <2> QED
    BY <2>6, <2>10 DEF Prepared
<1>9. CASE InsertDemo(c)
  <2> DEFINE d == DemoUsers[c][q.at]
             new == q.add \cup {DemoUser[d]}
             next == [pc |-> "demo", at |-> q.at + 1, flushed |-> q.flushed \cup new,
                      add |-> {LinkRow(d, DemoRole[d])}]
  <2>1. /\ q \in Seeding /\ q.at \in Nat \ {0} /\ q.at <= Len(DemoUsers[c])
        /\ q.pc = "insert" /\ Running(c)
        /\ ~At(c, "reference") /\ ~At(c, "grants")
    BY <1>9, BusyType DEF InsertDemo, At
  <2>2. CASE Become(c, next) /\ UNCHANGED rows
    <3>1. container'[c] = next
      BY <1>1, <2>2
    <3>2. /\ container'[c].pc = "demo" /\ container'[c].at = q.at + 1
          /\ container'[c].flushed = q.flushed \cup new
      BY <3>1
    <3>3. Running(c)' /\ ~At(c, "reference")' /\ ~At(c, "grants")'
      BY <3>2 DEF Running, At
    <3>4. Held(c) \subseteq Held(c)' /\ DemoUser[d] \in Held(c)'
      BY <2>1, <2>2, <3>2, <3>3 DEF Held
    <3>5. HasNames(c) /\ HasGrants(c) /\ HasDemos(c)
      BY <2>1 DEF Prepared, Down
    <3>6. HasNames(c)' /\ HasGrants(c)'
      BY <2>1, <3>4, <3>5, HeldNames, HeldGrants
    <3>7. HasAccount(Held(c)', d)
      <4>1. DemoUser[d].id = d /\ DemoUser[d].table = "users"
        BY <2>1, ListItem, StartupAssumption DEF Account
      <4> QED
        BY <3>4, <4>1 DEF HasAccount
    <3>8. \A i \in 1 .. Len(DemoUsers[c]) : i < q.at + 1 => i < q.at \/ i = q.at
      BY <2>1
    <3>9. \A i \in 1 .. Len(DemoUsers[c]) :
             DemoUsers[c][i] \in ProtectedDemo /\ i < q.at => HasAccount(Held(c)', DemoUsers[c][i])
      BY <2>1, <3>4, <3>5, HeldAccount DEF HasDemos
    <3>10. HasDemos(c)'
      BY <3>2, <3>3, <3>7, <3>8, <3>9 DEF HasDemos
    <3> QED
      BY <3>6, <3>10 DEF Prepared
  <2> QED
    BY <1>2, <1>9, <2>2 DEF InsertDemo, Flush
<1>10. CASE CommitDemo(c)
  <2>1. /\ q.pc = "demo" /\ Running(c) /\ q.at > Len(DemoUsers[c])
        /\ ~At(c, "reference") /\ ~At(c, "grants")
    BY <1>10 DEF CommitDemo, At
  <2>2. CASE rows' = rows \cup Flushed(c) \cup q.add /\ Become(c, Ready)
    <3>1. ~Running(c)' /\ ~At(c, "reference")' /\ ~At(c, "grants")'
      BY <1>1, <2>2 DEF Running, At, Ready
    <3>2. Held(c) \subseteq Held(c)'
      BY <2>1, <2>2, <3>1 DEF Held, Flushed
    <3>3. HasNames(c) /\ HasGrants(c) /\ HasDemos(c)
      BY <2>1 DEF Prepared, Down
    <3>4. HasNames(c)' /\ HasGrants(c)'
      BY <2>1, <3>2, <3>3, HeldNames, HeldGrants
    <3>5. q.at \in Nat \ {0} /\ Len(DemoUsers[c]) \in Nat
      BY <2>1, BusyType, StartupAssumption DEF Lists
    <3>6. \A i \in 1 .. Len(DemoUsers[c]) :
             DemoUsers[c][i] \in ProtectedDemo => HasAccount(Held(c), DemoUsers[c][i])
      BY <2>1, <3>3, <3>5 DEF HasDemos
    <3>7. HasDemos(c)'
      BY <3>2, <3>6, HeldAccount DEF HasDemos
    <3> QED
      BY <3>4, <3>7 DEF Prepared
  <2> QED
    BY <1>2, <1>10, <2>2 DEF CommitDemo, Commit
<1> QED
  BY <1>3, <1>4, <1>5, <1>6, <1>7, <1>8, <1>9, <1>10 DEF Step

(* A container changes no other.                                           *)
LEMMA StepAlone ==
  ASSUME TypeOK, NEW o \in Containers, Step(o) \/ Crash(o), NEW c \in Containers, o # c
  PROVE  container'[c] = container[c]
<1>1. \E p : container' = [container EXCEPT ![o] = p]
  <2>1. CASE Crash(o)
    BY <2>1 DEF Crash, Exit, Become
  <2>2. CASE Step(o)
    BY <2>2 DEF Step, Start, CheckReference, FlushReference, CheckGrant, CommitReference,
      CheckDemo, InsertDemo, CommitDemo, AddMissing, Flush, Commit, Exit, Become
  <2> QED
    BY <2>1, <2>2
<1> QED
  BY <1>1 DEF TypeOK

(* No step of any process takes from a container what it has gone through. *)
LEMMA NextPrepared == TypeOK /\ AllPrepared /\ [Next]_vars => AllPrepared'
<1> SUFFICES ASSUME TypeOK, AllPrepared, [Next]_vars, NEW c \in Containers
             PROVE  Prepared(c)'
  BY DEF AllPrepared
<1>1. Prepared(c) /\ Lasting
  BY NextLasts DEF AllPrepared
<1>2. CASE Step(c)
  BY <1>1, <1>2, StepPrepared
<1>3. CASE Crash(c)
  BY <1>3, ExitPrepared DEF Crash, Exit, Become
<1>4. ASSUME NEW o \in Containers, Step(o) \/ Crash(o), o # c PROVE Prepared(c)'
  <2>1. container'[c] = container[c]
    BY <1>4, StepAlone
  <2> QED
    BY <1>1, <2>1, StaysPrepared
<1>5. CASE UNCHANGED container
  BY <1>1, <1>5, StaysPrepared
<1> QED
  BY <1>2, <1>3, <1>4, <1>5 DEF Next, Administer, vars

(* A container that serves has the data of its release.                    *)
THEOREM ReadyMeansSeeded == Spec => []ReadyHasData
<1>1. Init => TypeOK /\ AllPrepared
  BY StartupAssumption DEF Init, TypeOK, AllPrepared, Prepared
<1>2. TypeOK /\ AllPrepared => ReadyHasData
  <2> SUFFICES ASSUME TypeOK, AllPrepared, NEW c \in Containers, container[c] = Ready
               PROVE  /\ \A n \in Elements(Reference[c]) : NameRow(n) \in rows
                      /\ \A g \in Elements(Grants[c]) : GrantRow(g) \in rows
                      /\ \A d \in Elements(DemoUsers[c]) \cap ProtectedDemo : HasAccount(rows, d)
    BY DEF ReadyHasData
  <2>1. ~Running(c) /\ ~At(c, "reference") /\ ~At(c, "grants") /\ Held(c) = rows
    BY DEF Running, At, Held, Ready
  <2>2. HasNames(c) /\ HasGrants(c) /\ HasDemos(c)
    BY DEF AllPrepared, Prepared, Ready, Down
  <2>3. \A n \in Elements(Reference[c]) : NameRow(n) \in rows
    BY <2>1, <2>2 DEF HasNames, Elements
  <2>4. \A g \in Elements(Grants[c]) : GrantRow(g) \in rows
    BY <2>1, <2>2 DEF HasGrants, Elements
  <2>5. \A d \in Elements(DemoUsers[c]) \cap ProtectedDemo : HasAccount(rows, d)
    BY <2>1, <2>2 DEF HasDemos, Elements
  <2> QED
    BY <2>3, <2>4, <2>5
<1> QED
  BY <1>1, <1>2, NextType, NextPrepared, PTL DEF Spec

-----------------------------------------------------------------------------
(* A protected demo account and its role go together, in the tables and in *)
(* what each transaction is about to commit.                               *)

Paired(S) == \A d \in ProtectedDemo : HasAccount(S, d) => LinkRow(d, DemoRole[d]) \in S

Pending(c) == container[c].flushed \cup container[c].add

PendingPaired(c) == Running(c) => Paired(Pending(c))

AllPaired == Paired(rows) /\ \A c \in Containers : PendingPaired(c)

LEMMA PairedUnion ==
  ASSUME NEW S, NEW T, Paired(S), Paired(T)
  PROVE  Paired(S \cup T)
BY DEF Paired, HasAccount

(* A row that is no account needs no other.                                *)
LEMMA PairedAdd ==
  ASSUME NEW S, Paired(S), NEW x, x.table # "users"
  PROVE  Paired(S \cup {x})
BY DEF Paired, HasAccount

(* A step of a container keeps its own rows paired, and commits no other.  *)
LEMMA StepPaired ==
  ASSUME TypeOK, NEW c \in Containers, Step(c), PendingPaired(c), Paired(rows)
  PROVE  PendingPaired(c)' /\ Paired(rows)'
<1> DEFINE q == container[c]
<1>1. ASSUME NEW p, Become(c, p) PROVE container'[c] = p
  BY <1>1 DEF Become, TypeOK
<1>2. ASSUME container'[c] = Down, UNCHANGED rows PROVE PendingPaired(c)' /\ Paired(rows)'
  BY <1>2 DEF PendingPaired, Running, Down, Paired
<1>3. ASSUME NEW p \in {"reference", "grants", "demo"}, Become(c, Phase(p, {}))
      PROVE  PendingPaired(c)'
  <2>1. container'[c].flushed = {} /\ container'[c].add = {}
    BY <1>1, <1>3 DEF Phase
  <2> QED
    BY <2>1 DEF PendingPaired, Pending, Paired, HasAccount
<1>4. ASSUME Running(c), NEW S, UNCHANGED rows, container'[c].flushed \cup container'[c].add = S, Paired(S)
      PROVE  PendingPaired(c)' /\ Paired(rows)'
  BY <1>4 DEF PendingPaired, Pending, Paired
<1>5. ASSUME Running(c), NEW row, row.table # "users", AddMissing(c, q, row), UNCHANGED rows
      PROVE  PendingPaired(c)' /\ Paired(rows)'
  <2>1. q \in Seeding /\ Paired(Pending(c))
    BY <1>5, BusyType DEF PendingPaired
  <2>2. container'[c] = Advance(q) \/ container'[c] = [Advance(q) EXCEPT !.add = @ \cup {row}]
    BY <1>1, <1>5 DEF AddMissing
  <2>3. /\ container'[c].flushed = q.flushed
        /\ container'[c].add = q.add \/ container'[c].add = q.add \cup {row}
    BY <2>1, <2>2 DEF Advance, Seeding
  <2>4. CASE container'[c].add = q.add
    BY <1>4, <1>5, <2>1, <2>3, <2>4 DEF Pending
  <2>5. CASE container'[c].add = q.add \cup {row}
    <3>1. container'[c].flushed \cup container'[c].add = Pending(c) \cup {row}
      BY <2>3, <2>5 DEF Pending
    <3> QED
      BY <1>4, <1>5, <2>1, <3>1, PairedAdd
  <2> QED
    BY <2>3, <2>4, <2>5
<1>6. ASSUME Running(c), Commit(c, Ready) \/ Commit(c, Phase("demo", {}))
      PROVE  PendingPaired(c)' /\ Paired(rows)'
  <2>1. CASE Exit(c)
    BY <1>1, <1>2, <2>1 DEF Exit
  <2>2. CASE /\ rows' = rows \cup Flushed(c) \cup q.add
             /\ Become(c, Ready) \/ Become(c, Phase("demo", {}))
    <3>1. rows' = rows \cup Pending(c) /\ Paired(Pending(c))
      BY <1>6, <2>2 DEF Pending, Flushed, PendingPaired
    <3>2. Paired(rows)'
      BY <3>1, PairedUnion DEF Paired
    <3>3. Become(c, Ready) => PendingPaired(c)'
      BY <1>1 DEF PendingPaired, Running, Ready
    <3> QED
      BY <1>3, <2>2, <3>2, <3>3
  <2> QED
    BY <1>6, <2>1, <2>2 DEF Commit
<1>7. CASE Start(c)
  BY <1>3, <1>7 DEF Start, Paired
<1>8. CASE CheckReference(c)
  BY <1>5, <1>8 DEF CheckReference, At, NameRow
<1>9. CASE FlushReference(c)
  <2>1. CASE Exit(c)
    BY <1>1, <1>2, <2>1 DEF Exit
  <2>2. CASE Become(c, Phase("grants", q.flushed \cup q.add)) /\ UNCHANGED rows
    <3>1. container'[c].flushed \cup container'[c].add = Pending(c)
      BY <1>1, <2>2 DEF Phase, Pending
    <3> QED
      BY <1>4, <1>9, <2>2, <3>1 DEF FlushReference, At, PendingPaired
  <2> QED
    BY <1>9, <2>1, <2>2 DEF FlushReference, Flush
<1>10. CASE CheckGrant(c)
  <2>1. Running(c) /\ UNCHANGED rows /\ GrantRow(Grants[c][q.at]).table # "users"
    BY <1>10 DEF CheckGrant, At, GrantRow
  <2>2. CASE Become(c, Down)
    BY <1>1, <1>2, <2>1, <2>2
  <2>3. CASE AddMissing(c, q, GrantRow(Grants[c][q.at]))
    BY <1>5, <2>1, <2>3
  <2> QED
    BY <1>10, <2>2, <2>3 DEF CheckGrant
<1>11. CASE CommitReference(c)
  BY <1>6, <1>11 DEF CommitReference, At
<1>12. CASE CheckDemo(c)
  <2>1. q \in Seeding /\ Running(c) /\ UNCHANGED rows
    BY <1>12, BusyType DEF CheckDemo, At
  <2>2. container'[c] = Advance(q) \/ container'[c] = [q EXCEPT !.pc = "insert"]
    BY <1>1, <1>12 DEF CheckDemo
  <2>3. container'[c].flushed = q.flushed /\ container'[c].add = q.add
    BY <2>1, <2>2 DEF Advance, Seeding
  <2> QED
    BY <1>4, <2>1, <2>3 DEF Pending, PendingPaired
<1>13. CASE InsertDemo(c)
  <2> DEFINE d == DemoUsers[c][q.at]
             new == q.add \cup {DemoUser[d]}
             next == [pc |-> "demo", at |-> q.at + 1, flushed |-> q.flushed \cup new,
                      add |-> {LinkRow(d, DemoRole[d])}]
  <2>1. q.at \in Nat \ {0} /\ q.at <= Len(DemoUsers[c]) /\ Running(c)
    BY <1>13, BusyType DEF InsertDemo, At
  <2>2. CASE Exit(c)
    BY <1>1, <1>2, <2>2 DEF Exit
  <2>3. CASE Become(c, next) /\ UNCHANGED rows
    <3> DEFINE both == {DemoUser[d], LinkRow(d, DemoRole[d])}
    <3>1. d \in DemoIds /\ DemoUser[d].id = d
      BY <2>1, ListItem, StartupAssumption
    <3>2. \A e \in DemoIds : HasAccount(both, e) => e = d
      BY <3>1 DEF HasAccount, LinkRow
    <3>3. Paired(both)
      BY <3>2, StartupAssumption DEF Paired
    <3>4. Paired(Pending(c) \cup both)
      BY <2>1, <3>3, PairedUnion DEF PendingPaired
    <3>5. container'[c].flushed = q.flushed \cup new /\ container'[c].add = {LinkRow(d, DemoRole[d])}
      BY <1>1, <2>3
    <3>6. container'[c].flushed \cup container'[c].add = Pending(c) \cup both
      BY <3>5 DEF Pending
    <3> QED
      BY <1>4, <2>1, <2>3, <3>4, <3>6
  <2> QED
    BY <1>13, <2>2, <2>3 DEF InsertDemo, Flush
<1>14. CASE CommitDemo(c)
  BY <1>6, <1>14 DEF CommitDemo, At
<1> QED
  BY <1>7, <1>8, <1>9, <1>10, <1>11, <1>12, <1>13, <1>14 DEF Step

(* Nor does an administrator part them.                                    *)
LEMMA AdministerPaired ==
  ASSUME TypeOK, Paired(rows), Administer
  PROVE  Paired(rows)'
<1>1. ASSUME NEW d \in ProtectedDemo, HasAccount(rows', d) PROVE HasAccount(rows, d)
  <2>1. ASSUME NEW x \in Account, CreateAccount(x) PROVE HasAccount(rows, d)
    BY <1>1, <2>1, StartupAssumption DEF CreateAccount, HasAccount
  <2>2. ASSUME NEW x \in rows, x.table = "users", DeleteAccount(x) PROVE HasAccount(rows, d)
    BY <1>1, <2>2 DEF DeleteAccount, HasAccount
  <2>3. ASSUME NEW x \in rows, x.table = "users", NEW s \in AccountStatus, ChangeStatus(x, s)
        PROVE  HasAccount(rows, d)
    <3>1. x \in Account
      BY <2>3 DEF TypeOK, Rows, NameRow, GrantRow, LinkRow
    <3>2. [x EXCEPT !.status = s].id = x.id
      BY <3>1 DEF Account
    <3> QED
      BY <1>1, <2>3, <3>2 DEF ChangeStatus, HasAccount
  <2>4. ASSUME NEW x \in rows, NEW n \in Names, AssignRole(x, n) \/ RevokeRole(x, n)
        PROVE  HasAccount(rows, d)
    BY <1>1, <2>4 DEF AssignRole, RevokeRole, HasAccount, LinkRow
  <2> QED
    BY <2>1, <2>2, <2>3, <2>4 DEF Administer
<1> QED
  BY <1>1, AdministerLasts DEF Lasting, Paired

(* No step of any process parts a demo account from its role.              *)
LEMMA NextPaired == TypeOK /\ AllPaired /\ [Next]_vars => AllPaired'
<1> SUFFICES ASSUME TypeOK, Paired(rows), \A c \in Containers : PendingPaired(c), [Next]_vars
             PROVE  Paired(rows)' /\ \A c \in Containers : PendingPaired(c)'
  BY DEF AllPaired
<1>1. ASSUME NEW o \in Containers, Step(o) PROVE Paired(rows)' /\ PendingPaired(o)'
  BY <1>1, StepPaired
<1>2. ASSUME NEW o \in Containers, Crash(o) PROVE Paired(rows)' /\ PendingPaired(o)'
  BY <1>2 DEF Crash, Exit, Become, TypeOK, PendingPaired, Running, Down, Paired
<1>3. ASSUME NEW c \in Containers, container'[c] = container[c] PROVE PendingPaired(c)'
  BY <1>3 DEF PendingPaired, Running, Pending
<1>4. ASSUME NEW o \in Containers, Step(o) \/ Crash(o) PROVE \A c \in Containers : PendingPaired(c)'
  <2>1. \A c \in Containers : c # o => container'[c] = container[c]
    BY <1>4, StepAlone
  <2> QED
    BY <1>1, <1>2, <1>3, <1>4, <2>1
<1>5. CASE Administer
  <2>1. UNCHANGED container
    BY <1>5 DEF Administer
  <2> QED
    BY <1>3, <1>5, <2>1, AdministerPaired
<1>6. CASE UNCHANGED vars
  BY <1>3, <1>6 DEF vars, Paired
<1> QED
  BY <1>1, <1>2, <1>4, <1>5, <1>6 DEF Next

(* A protected demo account is never without its role.                     *)
THEOREM DemoKeepsRole == Spec => []DemoHasRole
<1>1. Init => TypeOK /\ AllPaired
  BY StartupAssumption
    DEF Init, TypeOK, AllPaired, Paired, HasAccount, PendingPaired, Running, Down
<1>2. AllPaired => DemoHasRole
  BY DEF AllPaired, Paired, DemoHasRole
<1> QED
  BY <1>1, <1>2, NextType, NextPaired, PTL DEF Spec

-----------------------------------------------------------------------------
(* Why a seed fails.                                                       *)

(* The lists refer to nothing but themselves (reference_data.py, seed.py). *)
Closed(c) ==
  /\ \A g \in Elements(Grants[c]) : {g[1], g[2]} \subseteq Elements(Reference[c])
  /\ \A d \in Elements(DemoUsers[c]) : DemoRole[d] \in Elements(Reference[c])

(* After its flush a container sees every role and permission of its lists.*)
SeesNames(c) ==
  Running(c) /\ ~At(c, "reference") => \A n \in Elements(Reference[c]) : NameRow(n) \in Visible(c)

(* No account waits in a session: each is flushed as it is added.          *)
NoAccountWaits(c) == Running(c) => \A x \in container[c].add : x.table # "users"

AllSeeing == \A c \in Containers : SeesNames(c) /\ NoAccountWaits(c)

(* The rows the next flush or commit of a container inserts.               *)
Writes(c) ==
  container[c].add \cup
    (IF At(c, "insert") THEN {DemoUser[DemoUsers[c][container[c].at]]} ELSE {})

There(x) == IF x.table = "users" THEN HasAccount(rows, x.id) ELSE x \in rows

Fails(c) == Step(c) /\ Running(c) /\ container'[c] = Down

(* A seed whose lookups found something missing ends early only because    *)
(* somebody else has meanwhile committed a row it was about to insert,     *)
(* which its next attempt will therefore find (seed.py, reference_data.py).*)
LosesRacesOnly ==
  [][\A c \in Containers :
       Closed(c) /\ NoneTaken /\ Fails(c) => \E x \in Writes(c) : There(x)]_vars

(* A container that sees no less and is past its flush keeps its names.    *)
LEMMA SeesMore ==
  ASSUME NEW c \in Containers, SeesNames(c), Running(c), ~At(c, "reference"),
         Visible(c) \subseteq Visible(c)'
  PROVE  SeesNames(c)'
BY DEF SeesNames

(* A container that fails, or has just started, promises nothing.          *)
LEMMA DownSees ==
  ASSUME NEW c \in Containers, container'[c] = Down
  PROVE  SeesNames(c)' /\ NoAccountWaits(c)'
BY DEF SeesNames, NoAccountWaits, Running, Down

(* A container that stays as it is sees what it saw.                       *)
LEMMA StaysSeeing ==
  ASSUME NEW c \in Containers, SeesNames(c), NoAccountWaits(c), Lasting, container'[c] = container[c]
  PROVE  SeesNames(c)' /\ NoAccountWaits(c)'
<1>1. Running(c)' = Running(c) /\ At(c, "reference")' = At(c, "reference") /\ Flushed(c)' = Flushed(c)
  BY DEF Running, At, Flushed
<1>2. \A n : NameRow(n) \in Visible(c) => NameRow(n) \in Visible(c)'
  BY <1>1 DEF Lasting, Visible
<1> QED
  BY <1>1, <1>2 DEF SeesNames, NoAccountWaits

(* Each step of a container leaves it seeing its names.                    *)
LEMMA StepSees ==
  ASSUME TypeOK, NEW c \in Containers, Prepared(c), SeesNames(c), NoAccountWaits(c), Step(c)
  PROVE  SeesNames(c)' /\ NoAccountWaits(c)'
<1> DEFINE q == container[c]
<1>1. ASSUME NEW p, Become(c, p) PROVE container'[c] = p
  BY <1>1 DEF Become, TypeOK
<1>2. ASSUME Exit(c) PROVE SeesNames(c)' /\ NoAccountWaits(c)'
  BY <1>1, <1>2, DownSees DEF Exit
<1>3. ASSUME NEW p, NEW f, Become(c, Phase(p, f)) PROVE NoAccountWaits(c)'
  <2>1. container'[c].add = {}
    BY <1>1, <1>3 DEF Phase
  <2> QED
    BY <2>1 DEF NoAccountWaits
<1>4. ASSUME Running(c), NEW row, row.table # "users", AddMissing(c, q, row), UNCHANGED rows
      PROVE  SeesNames(c)' /\ NoAccountWaits(c)'
  <2>1. q \in Seeding
    BY <1>4, BusyType
  <2>2. container'[c] = Advance(q) \/ container'[c] = [Advance(q) EXCEPT !.add = @ \cup {row}]
    BY <1>1, <1>4 DEF AddMissing
  <2>3. /\ container'[c].pc = q.pc /\ container'[c].flushed = q.flushed
        /\ container'[c].add = q.add \/ container'[c].add = q.add \cup {row}
    BY <2>1, <2>2 DEF Advance, Seeding
  <2>4. Running(c)' /\ At(c, "reference")' = At(c, "reference") /\ Visible(c)' = Visible(c)
    BY <1>4, <2>3 DEF Running, At, Visible, Flushed
  <2>5. SeesNames(c)'
    BY <1>4, <2>4 DEF SeesNames
  <2>6. NoAccountWaits(c)'
    BY <1>4, <2>3 DEF NoAccountWaits
  <2> QED
    BY <2>5, <2>6
<1>5. CASE Start(c)
  <2>1. container'[c].pc = "reference"
    BY <1>1, <1>5 DEF Start, Phase
  <2>2. SeesNames(c)'
    BY <2>1 DEF SeesNames, At, Running
  <2> QED
    BY <1>3, <1>5, <2>2 DEF Start
<1>6. CASE CheckReference(c)
  BY <1>4, <1>6 DEF CheckReference, At, NameRow
<1>7. CASE FlushReference(c)
  <2>1. At(c, "reference") /\ Running(c) /\ q.at > Len(Reference[c]) /\ q.at \in Nat \ {0}
    BY <1>7, BusyType DEF FlushReference, At
  <2>2. CASE Become(c, Phase("grants", q.flushed \cup q.add)) /\ UNCHANGED rows
    <3>1. container'[c].pc = "grants" /\ container'[c].flushed = q.flushed \cup q.add
      BY <1>1, <2>2 DEF Phase
    <3>2. Held(c) \subseteq Visible(c)'
      BY <2>1, <2>2, <3>1 DEF Held, Visible, Flushed, Running
    <3>3. Len(Reference[c]) \in Nat
      BY StartupAssumption DEF Lists
    <3>4. \A n \in Elements(Reference[c]) : NameRow(n) \in Held(c)
      BY <2>1, <3>3 DEF Prepared, HasNames, Elements, Running, Down
    <3>5. SeesNames(c)'
      BY <3>2, <3>4 DEF SeesNames
    <3> QED
      BY <1>3, <2>2, <3>5
  <2> QED
    BY <1>2, <1>7, <2>2 DEF FlushReference, Flush
<1>8. CASE CheckGrant(c)
  <2>1. Running(c) /\ UNCHANGED rows /\ GrantRow(Grants[c][q.at]).table # "users"
    BY <1>8 DEF CheckGrant, At, GrantRow
  <2>2. CASE Become(c, Down)
    BY <1>1, <2>2, DownSees
  <2>3. CASE AddMissing(c, q, GrantRow(Grants[c][q.at]))
    BY <1>4, <2>1, <2>3
  <2> QED
    BY <1>8, <2>2, <2>3 DEF CheckGrant
<1>9. CASE CommitReference(c)
  <2>1. Running(c) /\ ~At(c, "reference")
    BY <1>9 DEF CommitReference, At
  <2>2. CASE rows' = rows \cup Flushed(c) \cup q.add /\ Become(c, Phase("demo", {}))
    <3>1. Visible(c) \subseteq Visible(c)'
      BY <2>2 DEF Visible
    <3> QED
      BY <1>3, <2>1, <2>2, <3>1, SeesMore
  <2> QED
    BY <1>2, <1>9, <2>2 DEF CommitReference, Commit
<1>10. CASE CheckDemo(c)
  <2>1. q \in Seeding /\ Running(c) /\ ~At(c, "reference") /\ UNCHANGED rows
    BY <1>10, BusyType DEF CheckDemo, At
  <2>2. container'[c] = Advance(q) \/ container'[c] = [q EXCEPT !.pc = "insert"]
    BY <1>1, <1>10 DEF CheckDemo
  <2>3. /\ container'[c].flushed = q.flushed /\ container'[c].add = q.add
        /\ container'[c].pc \in {q.pc, "insert"}
    BY <2>1, <2>2 DEF Advance, Seeding
  <2>4. Visible(c)' = Visible(c)
    BY <2>1, <2>3 DEF Visible, Flushed, Running
  <2>5. NoAccountWaits(c)'
    BY <2>1, <2>3 DEF NoAccountWaits
  <2> QED
    BY <2>1, <2>4, <2>5, SeesMore
<1>11. CASE InsertDemo(c)
  <2> DEFINE d == DemoUsers[c][q.at]
             new == q.add \cup {DemoUser[d]}
             next == [pc |-> "demo", at |-> q.at + 1, flushed |-> q.flushed \cup new,
                      add |-> {LinkRow(d, DemoRole[d])}]
  <2>1. Running(c) /\ ~At(c, "reference")
    BY <1>11 DEF InsertDemo, At
  <2>2. CASE Become(c, next) /\ UNCHANGED rows
    <3>1. /\ container'[c].pc = "demo" /\ container'[c].flushed = q.flushed \cup new
          /\ container'[c].add = {LinkRow(d, DemoRole[d])}
      BY <1>1, <2>2
    <3>2. Visible(c) \subseteq Visible(c)'
      BY <2>1, <2>2, <3>1 DEF Visible, Flushed, Running
    <3>3. NoAccountWaits(c)'
      BY <3>1 DEF NoAccountWaits, LinkRow
    <3> QED
      BY <2>1, <3>2, <3>3, SeesMore
  <2> QED
    BY <1>2, <1>11, <2>2 DEF InsertDemo, Flush
<1>12. CASE CommitDemo(c)
  <2>1. CASE Become(c, Ready)
    BY <1>1, <2>1 DEF SeesNames, NoAccountWaits, Running, Ready
  <2> QED
    BY <1>2, <1>12, <2>1 DEF CommitDemo, Commit
<1> QED
  BY <1>5, <1>6, <1>7, <1>8, <1>9, <1>10, <1>11, <1>12 DEF Step

(* Nobody takes from a container what it sees.                             *)
LEMMA NextSees == TypeOK /\ AllPrepared /\ AllSeeing /\ [Next]_vars => AllSeeing'
<1> SUFFICES ASSUME TypeOK, AllPrepared, AllSeeing, [Next]_vars, NEW c \in Containers
             PROVE  SeesNames(c)' /\ NoAccountWaits(c)'
  BY DEF AllSeeing
<1>1. Prepared(c) /\ SeesNames(c) /\ NoAccountWaits(c) /\ Lasting
  BY NextLasts DEF AllPrepared, AllSeeing
<1>2. CASE Step(c)
  BY <1>1, <1>2, StepSees
<1>3. CASE Crash(c)
  BY <1>3, DownSees DEF Crash, Exit, Become, TypeOK
<1>4. ASSUME NEW o \in Containers, Step(o) \/ Crash(o), o # c PROVE SeesNames(c)' /\ NoAccountWaits(c)'
  <2>1. container'[c] = container[c]
    BY <1>4, StepAlone
  <2> QED
    BY <1>1, <2>1, StaysSeeing
<1>5. CASE UNCHANGED container
  BY <1>1, <1>5, StaysSeeing
<1> QED
  BY <1>2, <1>3, <1>4, <1>5 DEF Next, Administer, vars

(* A row that clashes with a committed one is itself there, provided the   *)
(* demo accounts' identifiers are left to them.                            *)
LEMMA ClashIsThere ==
  ASSUME TypeOK, NoneTaken, NEW x \in Rows, NEW y \in rows, SameKey(x, y),
         x.table # "users" \/ \E d \in DemoIds : x = DemoUser[d]
  PROVE  There(x)
<1>1. CASE x.table = "users"
  <2>1. PICK d \in DemoIds : x = DemoUser[d]
    BY <1>1
  <2>2. y.table = "users" /\ SameKey(y, DemoUser[d]) /\ x.id = d
    BY <1>1, <2>1, StartupAssumption DEF SameKey
  <2>3. y.id = d
    BY <2>2 DEF NoneTaken
  <2> QED
    BY <1>1, <2>2, <2>3 DEF There, HasAccount
<1>2. CASE x.table # "users"
  <2>1. x.table = y.table /\ x.key = y.key /\ y \in Rows
    BY <1>2 DEF SameKey, TypeOK
  <2>2. \A z \in Rows : z.table # "users" => z = [table |-> z.table, key |-> z.key]
    BY DEF Rows, NameRow, GrantRow, LinkRow, Account
  <2>3. x = y
    BY <1>2, <2>1, <2>2
  <2> QED
    BY <1>2, <2>3 DEF There
<1> QED
  BY <1>1, <1>2

(* The lookups of a closed list succeed, so only an insert can fail.       *)
LEMMA FailsAtInsert ==
  ASSUME TypeOK, NEW c \in Containers, SeesNames(c), Closed(c), Fails(c)
  PROVE  Clash(Writes(c), rows)
<1> DEFINE q == container[c]
<1>1. Running(c) /\ container'[c] = Down /\ q \in Seeding /\ q.at \in Nat \ {0}
  BY BusyType DEF Fails
<1>2. ASSUME NEW p, Become(c, p) PROVE p.pc = "down"
  BY <1>1, <1>2 DEF Become, TypeOK, Down
<1>3. ASSUME NEW S, NEW p, Flush(c, S, p), p.pc # "down" PROVE Clash(S, rows)
  BY <1>2, <1>3 DEF Flush
<1>4. ASSUME NEW p, Commit(c, p), p.pc # "down" PROVE Clash(q.add, rows)
  BY <1>2, <1>4 DEF Commit
<1>5. ASSUME NEW row, AddMissing(c, q, row) PROVE FALSE
  <2>1. Advance(q).pc = q.pc /\ [Advance(q) EXCEPT !.add = @ \cup {row}].pc = q.pc
    BY <1>1 DEF Advance, Seeding
  <2> QED
    BY <1>1, <1>2, <1>5, <2>1 DEF AddMissing, Running
<1>6. q.add \subseteq Writes(c)
  BY DEF Writes
<1>7. ~Start(c)
  BY <1>1 DEF Start, Running, Down
<1>8. ~CheckReference(c)
  BY <1>5 DEF CheckReference
<1>9. CASE FlushReference(c)
  BY <1>3, <1>6, <1>9 DEF FlushReference, Phase, Clash
<1>10. ~CheckGrant(c)
  <2> SUFFICES ASSUME CheckGrant(c) PROVE FALSE
    OBVIOUS
  <2> DEFINE g == Grants[c][q.at]
  <2>1. g \in Elements(Grants[c]) /\ ~At(c, "reference")
    BY <1>1, StartupAssumption DEF CheckGrant, At, Elements, Lists
  <2>2. {NameRow(g[1]), NameRow(g[2])} \subseteq Visible(c)
    BY <1>1, <2>1 DEF Closed, SeesNames
  <2> QED
    BY <1>5, <2>2 DEF CheckGrant
<1>11. CASE CommitReference(c)
  BY <1>4, <1>6, <1>11 DEF CommitReference, Phase, Clash
<1>12. ~CheckDemo(c)
  <2>1. Advance(q).pc = q.pc /\ [q EXCEPT !.pc = "insert"].pc = "insert"
    BY <1>1 DEF Advance, Seeding
  <2> QED
    BY <1>1, <1>2, <2>1 DEF CheckDemo, Running
<1>13. CASE InsertDemo(c)
  <2> DEFINE d == DemoUsers[c][q.at]
  <2>1. At(c, "insert") /\ ~At(c, "reference") /\ q.at <= Len(DemoUsers[c])
    BY <1>13 DEF InsertDemo, At
  <2>2. d \in Elements(DemoUsers[c])
    BY <1>1, <2>1, StartupAssumption DEF Elements, Lists
  <2>3. NameRow(DemoRole[d]) \in Visible(c)
    BY <1>1, <2>1, <2>2 DEF Closed, SeesNames
  <2>4. Writes(c) = q.add \cup {DemoUser[d]}
    BY <2>1 DEF Writes
  <2> QED
    BY <1>3, <1>13, <2>3, <2>4 DEF InsertDemo
<1>14. CASE CommitDemo(c)
  BY <1>4, <1>6, <1>14 DEF CommitDemo, Ready, Clash
<1> QED
  BY <1>7, <1>8, <1>9, <1>10, <1>11, <1>12, <1>13, <1>14 DEF Fails, Step

(* What a container writes next is in range, and its accounts are demo     *)
(* accounts.                                                               *)
LEMMA WritesKnown ==
  ASSUME TypeOK, NEW c \in Containers, NoAccountWaits(c), Fails(c), NEW x \in Writes(c)
  PROVE  x \in Rows /\ (x.table # "users" \/ \E d \in DemoIds : x = DemoUser[d])
<1>1. Running(c) /\ container[c].at \in Nat \ {0} /\ container[c].add \in SUBSET Rows
  BY BusyType DEF Fails
<1>2. CASE x \in container[c].add
  BY <1>1, <1>2 DEF NoAccountWaits
<1>3. CASE At(c, "insert") /\ x = DemoUser[DemoUsers[c][container[c].at]]
  <2>1. InsertDemo(c)
    BY <1>1, <1>3 DEF Fails, Step, Start, CheckReference, FlushReference, CheckGrant,
      CommitReference, CheckDemo, CommitDemo, At, Running, Down
  <2>2. DemoUsers[c][container[c].at] \in DemoIds
    BY <1>1, <2>1, ListItem DEF InsertDemo
  <2> QED
    BY <1>3, <2>2, StartupAssumption DEF Rows
<1> QED
  BY <1>2, <1>3 DEF Writes

(* A seed fails only because another has been faster.                      *)
THEOREM SeedLosesRacesOnly == Spec => LosesRacesOnly
<1>1. Init => TypeOK /\ AllPrepared /\ AllSeeing
  BY StartupAssumption
    DEF Init, TypeOK, AllPrepared, Prepared, AllSeeing, SeesNames, NoAccountWaits, Running, Down
<1>2. TypeOK /\ AllSeeing =>
        \A c \in Containers : Closed(c) /\ NoneTaken /\ Fails(c) => \E x \in Writes(c) : There(x)
  <2> SUFFICES ASSUME TypeOK, AllSeeing, NEW c \in Containers, Closed(c), NoneTaken, Fails(c)
               PROVE  \E x \in Writes(c) : There(x)
    OBVIOUS
  <2>1. SeesNames(c) /\ NoAccountWaits(c)
    BY DEF AllSeeing
  <2>2. PICK x \in Writes(c), y \in rows : SameKey(x, y)
    BY <2>1, FailsAtInsert DEF Clash
  <2>3. x \in Rows /\ (x.table # "users" \/ \E d \in DemoIds : x = DemoUser[d])
    BY <2>1, WritesKnown
  <2> QED
    BY <2>2, <2>3, ClashIsThere
<1> QED
  BY <1>1, <1>2, NextType, NextPrepared, NextSees, PTL DEF Spec, LosesRacesOnly

=============================================================================
