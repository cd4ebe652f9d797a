----------------------------- MODULE ResetLink -----------------------------
(***************************************************************************)
(* What the forgot-password flow promises for one account: one link is     *)
(* open at a time, the newest; it sets one password; and a new one is      *)
(* issued only while the window holds fewer than the limit.  PasswordReset *)
(* is shown to implement it as long as no two requests overlap.            *)
(***************************************************************************)
EXTENDS Naturals

CONSTANTS LinkIds, MAX_REQUESTS_PER_WINDOW

VARIABLES
  open,     \* the links that work
  uses,     \* how many passwords each link has set
  recent    \* how many links the window holds

links == <<open, uses, recent>>

Init ==
  /\ open = {}
  /\ uses = [l \in LinkIds |-> 0]
  /\ recent = 0

(* A link that never worked takes the place of the one that was open.  It  *)
(* is recent, unless serving the request took the whole window.            *)
Issue(l) ==
  /\ uses[l] = 0 /\ l \notin open
  /\ recent < MAX_REQUESTS_PER_WINDOW
  /\ open' = {l}
  /\ recent' \in {recent, recent + 1}
  /\ UNCHANGED uses

(* The open link sets its only password, and none is left.                 *)
Use(l) ==
  /\ l \in open /\ uses[l] = 0
  /\ open' = {}
  /\ uses' = [uses EXCEPT ![l] = 1]
  /\ UNCHANGED recent

(* The window moves on.                                                    *)
Move ==
  /\ recent' \in 0 .. recent - 1
  /\ UNCHANGED <<open, uses>>

Next == Move \/ \E l \in LinkIds : Issue(l) \/ Use(l)

Spec == Init /\ [][Next]_links
=============================================================================
