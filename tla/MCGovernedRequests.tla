------------------------- MODULE MCGovernedRequests -------------------------
(* Instances of GovernedRequests for TLC: two requests of one run and one of a
   sibling that shares the account. *)
EXTENDS GovernedRequests, TLC
CONSTANTS r1, r2, q1, q2, q3
MCRunOf == q1 :> r1 @@ q2 :> r1 @@ q3 :> r2
MCLiability == r1 :> 1 @@ r2 :> 2
MCMaxClaims == r1 :> 2 @@ r2 :> 1
MCRunOfOne == q1 :> r1
MCLiabilityOne == r1 :> 2
MCMaxClaimsOne == r1 :> 2
Symmetry == Permutations(Callers)
=============================================================================
