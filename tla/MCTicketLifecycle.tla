------------------------ MODULE MCTicketLifecycle ------------------------
(* Instances of TicketLifecycle for TLC. *)
EXTENDS TicketLifecycle, TLC
Symmetry == Permutations(Requests) \cup Permutations(Agents)
==========================================================================
