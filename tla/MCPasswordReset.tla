--------------------------- MODULE MCPasswordReset ---------------------------
(* Two threads are interchangeable: none is named in a property.           *)
EXTENDS PasswordReset, TLC

Symmetric == Permutations(Workers)
=============================================================================
