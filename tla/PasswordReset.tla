---------------------------- MODULE PasswordReset ----------------------------
(***************************************************************************)
(* The forgot-password flow of one unprotected account                     *)
(* (services/password_reset_service.py): one-time links, the limit on how  *)
(* many are issued, and the reset that spends them.                        *)
(*                                                                         *)
(* A request_reset is four steps (find the user, count the recent links,   *)
(* UPDATE the open ones, INSERT and commit) and a reset_password three     *)
(* (check the link, UPDATE, commit).  The UPDATE spends the links its      *)
(* statement saw, and only its commit shows that to the others, as READ    *)
(* COMMITTED has it.                                                       *)
(***************************************************************************)
EXTENDS Naturals, FiniteSets

CONSTANTS
  Workers,                    \* threads serving this account's requests
  MAX_REQUESTS_PER_WINDOW,
  WindowTicks,                \* REQUEST_WINDOW, in ticks of the model's clock
  LinkTicks,                  \* PASSWORD_RESET_TOKEN_MINUTES, in ticks
  MaxLinks                    \* bound on the links of a behaviour

ASSUME ResetAssumption ==
  /\ IsFiniteSet(Workers)
  /\ MAX_REQUESTS_PER_WINDOW \in Nat /\ MAX_REQUESTS_PER_WINDOW > 0
  /\ WindowTicks \in Nat /\ LinkTicks \in Nat
  /\ MaxLinks \in Nat

VARIABLES
  active,      \* users.status = 'ACTIVE'
  issued,      \* rows of password_reset_tokens, with ids 1 .. issued
  age,         \* ticks since created_at, up to OldAge
  spent,       \* links with used_at set
  uses,        \* history: how many passwords were set with a link
  worker,      \* what each thread is doing, with what its session has read
  overlapped   \* history: two requests have been served at the same time

vars == <<active, issued, age, spent, uses, worker, overlapped>>

LinkIds == 1 .. MaxLinks

OldAge == IF WindowTicks < LinkTicks THEN LinkTicks ELSE WindowTicks

(* link is the link a reset is made with, 0 in a request for a new one;    *)
(* since the age of the transaction's now; spends what its UPDATE matched; *)
(* history: older, what was open when the link was checked.                *)
Serving ==
  [pc : {"count", "spend", "commit"}, link : LinkIds \cup {0}, since : 0 .. OldAge,
   spends : SUBSET LinkIds, older : SUBSET LinkIds]

Idle == [pc |-> "idle"]

Links == 1 .. issued

Open == Links \ spent

Recent == {l \in Links : age[l] < WindowTicks}

-----------------------------------------------------------------------------
Init ==
  /\ active \in BOOLEAN
  /\ issued = 0
  /\ age = [l \in LinkIds |-> 0]
  /\ spent = {}
  /\ uses = [l \in LinkIds |-> 0]
  /\ worker = [w \in Workers |-> Idle]
  /\ overlapped = FALSE

table == <<issued, age, spent, uses>>

Start(w, step, l, seen) ==
  /\ worker[w] = Idle
  /\ worker' = [worker EXCEPT ![w] =
       [pc |-> step, link |-> l, since |-> 0, spends |-> {}, older |-> seen]]
  /\ overlapped' = (overlapped \/ \E v \in Workers : worker[v] # Idle)

Done(w) == worker' = [worker EXCEPT ![w] = Idle]

(* request_reset of an account that is not ACTIVE does nothing.            *)
RequestReset(w) ==
  /\ active
  /\ Start(w, "count", 0, {})
  /\ UNCHANGED <<active, table>>

(* Faulty variant: > for >=.                                               *)
CountRecentLate(w) ==
  /\ worker[w].pc = "count"
  /\ IF Cardinality(Recent) > MAX_REQUESTS_PER_WINDOW
     THEN Done(w)
     ELSE worker' = [worker EXCEPT ![w].pc = "spend", ![w].since = 0]
  /\ UNCHANGED <<active, table, overlapped>>

CountRecent(w) ==
  /\ worker[w].pc = "count"
  /\ IF Cardinality(Recent) >= MAX_REQUESTS_PER_WINDOW
     THEN Done(w)
     ELSE worker' = [worker EXCEPT ![w].pc = "spend", ![w].since = 0]
  /\ UNCHANGED <<active, table, overlapped>>

(* reset_password: the link is known, open and not expired, and its user   *)
(* is ACTIVE; any other gets INVALID_RESET_TOKEN.                          *)
CheckLink(w, l) ==
  /\ l \in Open
  /\ age[l] < LinkTicks
  /\ active
  /\ Start(w, "spend", l, Open)
  /\ UNCHANGED <<active, table>>

Spends(w, links) ==
  /\ worker[w].pc = "spend"
  /\ worker' = [worker EXCEPT ![w].pc = "commit", ![w].spends = links]
  /\ UNCHANGED <<active, table, overlapped>>

(* Faulty variants: a request spends nothing; a reset all but its own      *)
(* link; a reset its own link only.                                        *)
SpendInResetOnly(w) == Spends(w, IF worker[w].link = 0 THEN {} ELSE Open)

SpendOthers(w) == Spends(w, Open \ {worker[w].link})

SpendOwn(w) == Spends(w, IF worker[w].link = 0 THEN Open ELSE {worker[w].link})

(* UPDATE ... SET used_at WHERE user_id = ... AND used_at IS NULL.         *)
Spend(w) == Spends(w, Open)

(* INSERT of the new link, and the commit of both statements.              *)
IssueLink(w) ==
  /\ worker[w].pc = "commit"
  /\ worker[w].link = 0
  /\ issued < MaxLinks
  /\ issued' = issued + 1
  /\ age' = [age EXCEPT ![issued + 1] = worker[w].since]
  /\ spent' = spent \cup worker[w].spends
  /\ Done(w)
  /\ UNCHANGED <<active, uses, overlapped>>

(* The commit of a reset: the new password and the spent links.            *)
ResetPassword(w) ==
  /\ worker[w].pc = "commit"
  /\ worker[w].link # 0
  /\ uses' = [uses EXCEPT ![worker[w].link] = @ + 1]
  /\ spent' = spent \cup worker[w].spends
  /\ Done(w)
  /\ UNCHANGED <<active, issued, age, overlapped>>

(* An administrator activates or deactivates the account.                  *)
ChangeStatus ==
  /\ active' = ~active
  /\ UNCHANGED <<table, worker, overlapped>>

Older(a) == IF a < OldAge THEN a + 1 ELSE a

Tick ==
  /\ age' = [l \in LinkIds |-> IF l \in Links THEN Older(age[l]) ELSE age[l]]
  /\ worker' = [w \in Workers |->
       IF worker[w] = Idle THEN Idle ELSE [worker[w] EXCEPT !.since = Older(@)]]
  /\ UNCHANGED <<active, issued, spent, uses, overlapped>>

Next ==
  \/ \E w \in Workers :
       \/ RequestReset(w) \/ CountRecent(w) \/ Spend(w) \/ IssueLink(w) \/ ResetPassword(w)
       \/ \E l \in LinkIds : CheckLink(w, l)
  \/ ChangeStatus
  \/ Tick

Spec == Init /\ [][Next]_vars

-----------------------------------------------------------------------------
(* Only issued links are spent or used, ages are within their range, and   *)
(* no thread keeps a session after its request (models/password_reset.py). *)
TypeOK ==
  /\ active \in BOOLEAN
  /\ issued \in 0 .. MaxLinks
  /\ age \in [LinkIds -> 0 .. OldAge]
  /\ spent \subseteq Links
  /\ uses \in [LinkIds -> Nat]
  /\ worker \in [Workers -> Serving \cup {Idle}]
  /\ overlapped \in BOOLEAN

(* password_reset_service.py: "Only the newest link works": as long as no  *)
(* two requests overlap, a link that is not spent is the latest issued.    *)
OnlyNewestOpen == ~overlapped => \A l \in Open : l = issued

(* "A token works once": no link ever set two passwords.                   *)
UsedOnce == \A l \in LinkIds : uses[l] <= 1

(* So it is as long as no two requests overlap.                            *)
UsedOnceInTurn == ~overlapped => UsedOnce

(* "At most this many links per account in the window", without overlap.   *)
WithinLimit == ~overlapped => Cardinality(Recent) <= MAX_REQUESTS_PER_WINDOW

(* The three promises at once: the row of links as it is committed is      *)
(* ResetLink.                                                              *)
Promise == INSTANCE ResetLink WITH open <- Open, recent <- Cardinality(Recent)

(* As long as no two requests have overlapped, the statements of a request *)
(* amount to one step of ResetLink or to none: an issued link takes the    *)
(* place of all the others, within the limit, and a reset uses the open    *)
(* one for the first time and closes it (password_reset_service.py).       *)
LinksInTurn ==
  Promise!Init /\ [][~overlapped => Promise!Next \/ UNCHANGED Promise!links]_vars

(* What is left of the promises when requests overlap: one link open per   *)
(* thread, one link too many in the window per additional thread, and one  *)
(* password per link and thread: resets that all checked a link before the *)
(* first of them committed, and none that comes later.                     *)
FewOpen == Cardinality(Open) <= Cardinality(Workers)

NearLimit == Cardinality(Recent) < MAX_REQUESTS_PER_WINDOW + Cardinality(Workers)

FewUses == \A l \in LinkIds : uses[l] <= Cardinality(Workers)

(* reset_password, "Spend this link and any other open one": none of the   *)
(* links that were open when a reset began works after it, whatever other  *)
(* requests did in between.                                                *)
ResetClosesOlder ==
  [][\A w \in Workers : ResetPassword(w) => worker[w].older \cap Open' = {}]_vars
=============================================================================
