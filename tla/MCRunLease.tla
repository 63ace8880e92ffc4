---------------------------- MODULE MCRunLease ----------------------------
(* Instances of RunLease for TLC. *)
EXTENDS RunLease, TLC
MCTicketOf == [r \in Runs |-> "t1"]
Symmetry == Permutations(Procs)
===========================================================================
