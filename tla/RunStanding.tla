---------------------------- MODULE RunStanding ----------------------------
(***************************************************************************)
(* How a run stands, for those who look at its lease only.                 *)
(*                                                                         *)
(* A run is free (pending, in nobody's hands), held (somebody has a live   *)
(* lease of it), lapsed (running, and nobody has) or ended.  A free run is *)
(* held only after a claim; a lapsed one is recovered, by a lease too, and *)
(* never becomes free by itself.  Held runs may come free again (a claim   *)
(* is returned or runs out before the start, a recovery sends the run      *)
(* back), and an ended run stays ended.                                    *)
(*                                                                         *)
(* GovernedRequests is built over this module; RunLease implements it, and *)
(* so do the rows that TargetOperations and RuntimeCapacity keep of a run. *)
(***************************************************************************)
CONSTANT Runs

VARIABLE standing

Standings == {"free", "held", "lapsed", "ended"}

\* Where a run may go from where it stands.
After ==
    [s \in Standings |->
        CASE s = "free"   -> {"held", "ended"}
          [] s = "held"   -> {"free", "lapsed", "ended"}
          [] s = "lapsed" -> {"held", "ended"}
          [] OTHER        -> {}]

Init == standing = [r \in Runs |-> "free"]

Move(r, s) ==
    /\ s \in After[standing[r]]
    /\ standing' = [standing EXCEPT ![r] = s]

\* The one move that makes a claim.
Claims(r) == standing[r] = "free" /\ standing'[r] = "held"

Next == \E r \in Runs : \E s \in Standings : Move(r, s)

Spec == Init /\ [][Next]_standing
=============================================================================
