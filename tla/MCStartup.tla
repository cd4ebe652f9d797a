------------------------------ MODULE MCStartup ------------------------------
(* A small instance of Startup: a release with one demo account, and the   *)
(* next one with a role, a grant and a demo account more.                  *)
EXTENDS Startup

Old(c) == c = "old"

MCReference ==
  [c \in Containers |-> IF Old(c) THEN <<"ADMIN", "read">> ELSE <<"ADMIN", "STUDENT", "read">>]

MCGrants ==
  [c \in Containers |-> IF Old(c) THEN <<<<"ADMIN", "read">>>>
                                  ELSE <<<<"ADMIN", "read">>, <<"STUDENT", "read">>>>]

MCDemoUsers == [c \in Containers |-> IF Old(c) THEN <<"d1">> ELSE <<"d1", "d2">>]

MCDemoRole == [d \in DemoIds |-> IF d = "d1" THEN "ADMIN" ELSE "STUDENT"]

MCDemoUser ==
  [d \in DemoIds |->
     [table |-> "users", id |-> d, uid |-> IF d = "d1" THEN "ADM001" ELSE "STU001",
      email |-> IF d = "d1" THEN "adm001@" ELSE "stu001@", status |-> "ACTIVE"]]
=============================================================================
