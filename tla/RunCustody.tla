----------------------------- MODULE RunCustody -----------------------------
(***************************************************************************)
(* What the rest of the program may assume of a run: its custody.          *)
(*                                                                         *)
(* A run is in the custody of one process or of nobody.  Custody is taken  *)
(* from nobody only, never from its holder.  The custodian starts the run, *)
(* sends it back to pending and gives the verdict; only a run in nobody's  *)
(* custody, or one that has not begun, may be ended from outside, and      *)
(* never as completed.  A verdict is final, except that a run whose        *)
(* evidence proves damaged is condemned, once, as failed.                  *)
(*                                                                         *)
(* The module says nothing of leases, clocks, processes' memory, recovery, *)
(* crashes or transactions: RunLease implements it with those.             *)
(***************************************************************************)
CONSTANTS Runs, Procs, NoProc

VARIABLES
    status,     \* status of each run
    holder,     \* the process a run is in the custody of
    condemned   \* the run was ended because its evidence is damaged

custodyVars == <<status, holder, condemned>>

Ends   == {"completed", "failed", "interrupted"}
Ended(r) == status[r] \in Ends

Init ==
    /\ status = [r \in Runs |-> "pending"]
    /\ holder = [r \in Runs |-> NoProc]
    /\ condemned = [r \in Runs |-> FALSE]

\* A claim, or the recovery of a run that was left running.
Take(p, r) ==
    /\ ~Ended(r)
    /\ holder[r] = NoProc
    /\ holder' = [holder EXCEPT ![r] = p]
    /\ UNCHANGED <<status, condemned>>

\* Custody lapses or is given up.
Lose(r) ==
    /\ holder[r] # NoProc
    /\ holder' = [holder EXCEPT ![r] = NoProc]
    /\ UNCHANGED <<status, condemned>>

Begin(p, r) ==
    /\ status[r] = "pending"
    /\ holder[r] = p
    /\ status' = [status EXCEPT ![r] = "running"]
    /\ UNCHANGED <<holder, condemned>>

Requeue(p, r) ==
    /\ status[r] = "running"
    /\ holder[r] = p
    /\ status' = [status EXCEPT ![r] = "pending"]
    /\ holder' = [holder EXCEPT ![r] = NoProc]
    /\ UNCHANGED condemned

\* The verdict of the custodian, or an end from outside.
MayEnd(p, r, end) ==
    \/ status[r] = "running" /\ holder[r] = p
    \/ status[r] = "running" /\ holder[r] = NoProc /\ end # "completed"
    \/ status[r] = "pending" /\ end # "completed"

End(p, r, end) ==
    /\ MayEnd(p, r, end)
    /\ status' = [status EXCEPT ![r] = end]
    /\ holder' = [holder EXCEPT ![r] = NoProc]
    /\ UNCHANGED condemned

Condemn(p, r) ==
    /\ holder[r] \in {NoProc, p}
    /\ ~condemned[r]
    /\ status' = [status EXCEPT ![r] = "failed"]
    /\ holder' = [holder EXCEPT ![r] = NoProc]
    /\ condemned' = [condemned EXCEPT ![r] = TRUE]

Next ==
    \E r \in Runs :
        \/ Lose(r)
        \/ \E p \in Procs :
              \/ Take(p, r)
              \/ Begin(p, r)
              \/ Requeue(p, r)
              \/ \E end \in Ends : End(p, r, end)
              \/ Condemn(p, r)

Spec == Init /\ [][Next]_custodyVars
=============================================================================
