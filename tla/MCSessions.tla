------------------------------ MODULE MCSessions ------------------------------
(* One tenant with two accounts (one may not exist yet), two requests at a  *)
(* time, one address, five requests in all, two failures to a lock or block. *)
EXTENDS Sessions, TLC

CONSTANTS t1, u1, u2, i1, r1, r2

MCTenantOf == u1 :> t1 @@ u2 :> t1
MCSymmetry == Permutations(Request) \cup Permutations(User)
=============================================================================
