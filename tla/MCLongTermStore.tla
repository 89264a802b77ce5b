--------------------------- MODULE MCLongTermStore ---------------------------
(* Values for model-checking LongTermStore: two users, a memory each.      *)
EXTENDS LongTermStore, TLC

CONSTANTS m1, m2, u1, u2, r1, r2

MCOwnerOf == (m1 :> u1) @@ (m2 :> u2)
=============================================================================
