--------------------------- MODULE MCRegistration ---------------------------
(***************************************************************************)
(* Two accounts at the start, room for one more; each value has a spelling *)
(* that is stored otherwise.                                               *)
(***************************************************************************)
EXTENDS Registration, TLC

Symmetric == Permutations(Requests)

MCStrip(n) == IF n = " s1" THEN "s1" ELSE n

MCLower(e) == IF e = "A@x" THEN "a@x" ELSE e

MCStartUsers == {[id |-> "i1", uid |-> "s1", email |-> "a@x", kind |-> "STUDENT"],
                 [id |-> "i2", uid |-> "s2", email |-> "b@x", kind |-> "STAFF"]}
=============================================================================
