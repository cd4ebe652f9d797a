----------------------------- MODULE MCSessions -----------------------------
(* Two containers with a thread each, and the settings that differ in what *)
(* they make of the keys: production and development with key files, with  *)
(* two files that are no pair, without files, and with a shared secret.    *)
EXTENDS Sessions, TLC

CONSTANTS w1, w2, c1, c2

MCContainerOf == w1 :> c1 @@ w2 :> c2

With(production, algorithm, private, public, secret) ==
  [production |-> production, algorithm |-> algorithm, private |-> private,
   public |-> public, secret |-> secret, others |-> TRUE]

MCStartSettings ==
  {With(p, "RS256", "a", "a", "development") : p \in BOOLEAN}
    \cup {With(p, "RS256", f, "unset", "development") : p \in BOOLEAN, f \in {"unset", "a"}}
    \cup {With(p, "HS256", "unset", "unset", s) : p \in BOOLEAN, s \in {"development", "own"}}
    \cup {With(TRUE, "RS256", "a", "b", "development")}
=============================================================================
