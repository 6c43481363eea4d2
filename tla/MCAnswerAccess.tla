--------------------------- MODULE MCAnswerAccess ---------------------------
(* A TLC instance of AnswerAccess: an admin and a member of one tenant, and *)
(* an admin of another tenant with the email of the first.                  *)
EXTENDS AnswerAccess, TLC

CONSTANTS d1, d2
DocSymmetry == Permutations(Docs)

MCUsers == {"boss", "clerk", "boss2"}
MCTenantOf == [u \in MCUsers |-> IF u = "boss2" THEN "t2" ELSE "t1"]
MCEmailOf == [u \in MCUsers |-> IF u = "clerk" THEN "c@t" ELSE "b@t"]
MCHashOf == [d \in {d1, d2} |-> "same"]
MCHomeOf == [c \in {"c1"} |-> "t1"]
MCFirstRole == [u \in MCUsers |-> IF u = "clerk" THEN "member" ELSE "admin"]
=============================================================================
