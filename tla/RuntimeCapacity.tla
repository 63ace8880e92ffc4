-------------------------- MODULE RuntimeCapacity --------------------------
(***************************************************************************)
(* Runtime capacity: slots of shared resources and the waits for them.     *)
(*                                                                         *)
(* An operation of a run on a browser or a process target first takes one  *)
(* numbered slot of each resource it needs, the outer resource first       *)
(* (RuntimeBudgetController.withCapacity, nested for process targets), and *)
(* returns them in reverse order.  A slot is a lease of its own, tied to   *)
(* the lease of the run.  A run that finds no slot writes its one row of   *)
(* run_capacity_waits and asks again; any other run that is leased and has *)
(* an active row for the same resource is served before the one that asks. *)
(*                                                                         *)
(* The rows of the run are abstracted from RunLease: a claim starts the    *)
(* run, a recovery sends it back to pending.  first_blocked_at is left out *)
(* because the answer of acquireRuntimeCapacity does not depend on it.     *)
(***************************************************************************)
EXTENDS Naturals, Sequences

CONSTANTS
    Runs,       \* rows of "runs"
    Procs,      \* values of RUN_LEASE_OWNER
    NoProc,     \* lease_owner IS NULL
    NoRun,      \* run_id IS NULL
    Resources,  \* (capacity_domain, resource_key) of the operations
    Admission,  \* the resource of a wait recorded by the scheduler
    Limit,      \* the limit each resource is asked with
    Needs,      \* the resources of an operation of each run, outer first
    MaxOps,     \* bound: operations of a run
    MaxLapses,  \* bound: slot leases that expire under a working process
    MaxFaults   \* bound: crashes, stalls, stops, runs given up

ASSUME ConstantsAssumption ==
    /\ NoProc \notin Procs
    /\ NoRun \notin Runs
    /\ Admission \notin Resources
    /\ Limit \in [Resources -> Nat \ {0}]
    /\ Needs \in [Runs -> Seq(Resources)]
    /\ \A r \in Runs : Len(Needs[r]) > 0
    /\ \A r \in Runs : \A i, j \in 1..Len(Needs[r]) : Needs[r][i] = Needs[r][j] => i = j
    /\ MaxOps \in Nat
    /\ MaxLapses \in Nat
    /\ MaxFaults \in Nat

VARIABLES
    status,  \* runs.status
    owner,   \* runs.lease_owner
    lease,   \* runs.lease_expires_at against the database clock
    slots,   \* runtime_capacity_slots, by resource and slot_number
    wait,    \* run_capacity_waits: the resource of the active row, or "none"
    exec,    \* the execution of each run inside each process
    mine,    \* slot numbers its nested withCapacity calls hold, outer first
    op,      \* operationIdentity of its current operation
    rec,     \* the run the process's tick of expireStaleRunLeases has, or NoRun
    alive,   \* processes that have not crashed
    lost,    \* history: the executions of r under which its lease has expired
    lapses,  \* slot leases lost by a working process so far
    faults   \* faults so far

rowVars   == <<status, owner, lease>>
boundVars == <<lapses, faults>>
vars      == <<status, owner, lease, slots, wait, exec, mine, op, rec, alive,
               lost, lapses, faults>>

-----------------------------------------------------------------------------
(* Values *)

\* idle: not here; loop: between operations; asking: acquiring the next slot;
\* using: inside the operation; unwinding, failing: returning the slots after
\* the operation, or after an error.
ExecStates == {"idle", "loop", "asking", "using", "unwinding", "failing"}

\* A free row, and one that is given back: owner, run, operation and lease are
\* cleared together.
FreeSlot == [owner |-> NoProc, run |-> NoRun, op |-> 0, lease |-> "none"]
SlotRows == [owner : Procs \cup {NoProc}, run : Runs \cup {NoRun},
             op : 0..MaxOps, lease : {"none", "live", "expired"}]

-----------------------------------------------------------------------------
(* Predicates of the store's WHERE clauses *)

HeldBy(p, r) == owner[r] = p /\ lease[r] = "live"
Leased(r)    == owner[r] # NoProc /\ lease[r] = "live"
Active(r)    == status[r] \in {"pending", "running"}

\* The slot belongs to this operation of r under this process.
Owns(p, r, s) == s.owner = p /\ s.run = r /\ s.op = op[r][p]

\* Slots acquireRuntimeCapacity takes back before it looks for a free one.
Stale(s) ==
    /\ s.owner # NoProc
    /\ \/ s.lease = "expired"
       \/ owner[s.run] # s.owner
       \/ lease[s.run] = "expired"
       \/ ~Active(s.run)

\* Another leased run has an active wait for the resource (the query orders the
\* waits by first_blocked_at, but any other run's wait is enough to refuse).
AnyWaiter(r, x)   == \E w \in Runs : wait[w] = x /\ Active(w) /\ Leased(w)
OtherWaiter(r, x) == \E w \in Runs \ {r} : wait[w] = x /\ Active(w) /\ Leased(w)

Depth(r, p)    == Len(mine[r][p])
NextNeed(r, p) == Needs[r][Depth(r, p) + 1]
LastNeed(r, p) == Needs[r][Depth(r, p)]

\* A process that would act on r under its own lease.
Tended(r) == \E p \in Procs : /\ alive[p] /\ owner[r] = p
                              /\ exec[r][p] # "idle" \/ rec[p] = r

\* A live process that renews this slot.
Renewed(x, n) ==
    \E p \in Procs, r \in Runs :
        /\ alive[p]
        /\ exec[r][p] \in {"asking", "using"}
        /\ \E i \in 1..Depth(r, p) : Needs[r][i] = x /\ mine[r][p][i] = n
        /\ Owns(p, r, slots[x][n])

Fault == faults < MaxFaults /\ faults' = faults + 1

-----------------------------------------------------------------------------
Init ==
    /\ status = [r \in Runs |-> "pending"]
    /\ owner = [r \in Runs |-> NoProc]
    /\ lease = [r \in Runs |-> "none"]
    /\ slots = [x \in Resources |-> [n \in 1..Limit[x] |-> FreeSlot]]
    /\ wait = [r \in Runs |-> "none"]
    /\ exec = [r \in Runs |-> [p \in Procs |-> "idle"]]
    /\ mine = [r \in Runs |-> [p \in Procs |-> <<>>]]
    /\ op = [r \in Runs |-> [p \in Procs |-> 0]]
    /\ rec = [p \in Procs |-> NoRun]
    /\ alive = [p \in Procs |-> TRUE]
    /\ lost = [r \in Runs |-> {}]
    /\ lapses = 0
    /\ faults = 0

-----------------------------------------------------------------------------
(* The run's row *)

\* recordPendingRunCapacityWait: the scheduler could not admit r (whether the
\* deployment is at its limits is RunLease's subject).
recordPendingRunCapacityWait(r) ==
    /\ status[r] = "pending"
    /\ ~Leased(r)
    /\ wait' = [wait EXCEPT ![r] = Admission]
    /\ UNCHANGED <<rowVars, slots, exec, mine, op, rec, alive, lost, boundVars>>

\* The claim of a pending run ends its wait, whatever it waited for.
ClearAdmissionWait(r) == IF wait[r] = Admission THEN [wait EXCEPT ![r] = "none"] ELSE wait
ClearWait(r)          == [wait EXCEPT ![r] = "none"]

\* claimPendingRun and startClaimedRun, by a tick that has no run to recover left.
\* The scheduler passes over a run this process still executes (isRunActiveInMemory).
claimPendingRun(p, r) ==
    /\ alive[p]
    /\ rec[p] = NoRun
    /\ exec[r][p] = "idle"
    /\ status[r] = "pending"
    /\ ~Leased(r)
    /\ status' = [status EXCEPT ![r] = "running"]
    /\ owner' = [owner EXCEPT ![r] = p]
    /\ lease' = [lease EXCEPT ![r] = "live"]
    /\ wait' = ClearWait(r)
    /\ exec' = [exec EXCEPT ![r][p] = "loop"]
    /\ UNCHANGED <<slots, mine, op, rec, alive, lost, boundVars>>

\* claimRunRecovery leaves the wait row of the dead execution active.  It does not
\* ask whether this process still executes r: such an execution is under its
\* owner's live lease again.
claimRunRecovery(p, r) ==
    /\ alive[p]
    /\ rec[p] = NoRun
    /\ status[r] = "running"
    /\ ~Leased(r)
    /\ owner' = [owner EXCEPT ![r] = p]
    /\ lease' = [lease EXCEPT ![r] = "live"]
    /\ rec' = [rec EXCEPT ![p] = r]
    /\ UNCHANGED <<status, slots, wait, exec, mine, op, alive, lost, boundVars>>

\* The recovery gives the run back with this status, or does nothing when its
\* lease is gone.
FinishRecovery(p, r, st) ==
    /\ alive[p]
    /\ rec[p] = r
    /\ IF HeldBy(p, r) /\ status[r] = "running"
          THEN /\ status' = [status EXCEPT ![r] = st]
               /\ owner' = [owner EXCEPT ![r] = NoProc]
               /\ lease' = [lease EXCEPT ![r] = "none"]
          ELSE UNCHANGED rowVars
    /\ rec' = [rec EXCEPT ![p] = NoRun]
    /\ UNCHANGED <<slots, wait, exec, mine, op, alive, lost, boundVars>>

resumeRecoveredRun(p, r) == FinishRecovery(p, r, "pending")

\* The run has used up its duration, is terminal already or cannot be resumed.
endRecoveredRun(p, r) == FinishRecovery(p, r, "ended")

\* Nobody renews an untended lease; a tended one expires when its process stalls.
expireLease(r) ==
    /\ lease[r] = "live"
    /\ lease' = [lease EXCEPT ![r] = "expired"]
    /\ lost' = [lost EXCEPT ![r] = @ \cup {p \in Procs : owner[r] = p /\ exec[r][p] # "idle"}]
    /\ IF Tended(r) THEN Fault ELSE UNCHANGED faults
    /\ UNCHANGED <<status, owner, slots, wait, exec, mine, op, rec, alive, lapses>>

\* The execution ends r if it still holds the lease; its wait row stays.
endExecution(p, r) ==
    /\ alive[p]
    /\ \/ exec[r][p] = "loop"
       \/ exec[r][p] = "failing" /\ mine[r][p] = <<>>
    /\ IF HeldBy(p, r)
          THEN /\ status' = [status EXCEPT ![r] = "ended"]
               /\ owner' = [owner EXCEPT ![r] = NoProc]
               /\ lease' = [lease EXCEPT ![r] = "none"]
          ELSE UNCHANGED rowVars
    /\ exec' = [exec EXCEPT ![r][p] = "idle"]
    /\ op' = [op EXCEPT ![r][p] = 0]
    /\ lost' = [lost EXCEPT ![r] = @ \ {p}]
    /\ UNCHANGED <<slots, wait, mine, rec, alive, boundVars>>

\* An operator stops r: through the process that holds it or, when its lease is
\* gone or it is not claimed, through any.
stopAgentRun(r) ==
    /\ Active(r)
    /\ Fault
    /\ status' = [status EXCEPT ![r] = "ended"]
    /\ owner' = [owner EXCEPT ![r] = NoProc]
    /\ lease' = [lease EXCEPT ![r] = "none"]
    /\ UNCHANGED <<slots, wait, exec, mine, op, rec, alive, lost, lapses>>

crash(p) ==
    /\ alive[p]
    /\ \E q \in Procs \ {p} : alive[q]
    /\ Fault
    /\ alive' = [alive EXCEPT ![p] = FALSE]
    /\ exec' = [r \in Runs |-> [exec[r] EXCEPT ![p] = "idle"]]
    /\ mine' = [r \in Runs |-> [mine[r] EXCEPT ![p] = <<>>]]
    /\ op' = [r \in Runs |-> [op[r] EXCEPT ![p] = 0]]
    /\ rec' = [rec EXCEPT ![p] = NoRun]
    /\ lost' = [r \in Runs |-> lost[r] \ {p}]
    /\ UNCHANGED <<rowVars, slots, wait, lapses>>

-----------------------------------------------------------------------------
(* withCapacity *)

\* The next operation of this execution; the execution of a resumed run begins
\* again with an identity an earlier one may have used.
beginOperation(p, r) ==
    /\ alive[p]
    /\ exec[r][p] = "loop"
    /\ op[r][p] < MaxOps
    /\ op' = [op EXCEPT ![r][p] = @ + 1]
    /\ exec' = [exec EXCEPT ![r][p] = "asking"]
    /\ UNCHANGED <<rowVars, slots, wait, mine, rec, alive, lost, boundVars>>

\* acquireRuntimeCapacity gives back the stale slots of x ...
Reclaimed(x) == [n \in DOMAIN slots[x] |-> IF Stale(slots[x][n]) THEN FreeSlot ELSE slots[x][n]]

\* ... and may grant slot n: the one this operation has already (a retry whose
\* answer was lost), or a free one when no other run waits.
Regrants(p, r, x, n) == Owns(p, r, Reclaimed(x)[n]) /\ Reclaimed(x)[n].lease = "live"
MayTake(r, x, n)     == ~OtherWaiter(r, x) /\ Reclaimed(x)[n] = FreeSlot

Grants(p, r, x) ==
    LET again == {n \in 1..Limit[x] : Regrants(p, r, x, n)}
    IN  IF again # {} THEN again ELSE {n \in 1..Limit[x] : MayTake(r, x, n)}

\* The slot is the operation's, and taking it ends the run's wait.
acquireRuntimeCapacity(p, r) ==
    LET x == NextNeed(r, p) IN
    /\ alive[p]
    /\ exec[r][p] = "asking"
    /\ HeldBy(p, r)
    /\ Active(r)
    /\ \E n \in Grants(p, r, x) :
          /\ \A m \in Grants(p, r, x) : n <= m
          /\ slots' = [slots EXCEPT ![x] = [Reclaimed(x) EXCEPT
                          ![n] = [owner |-> p, run |-> r, op |-> op[r][p], lease |-> "live"]]]
          /\ mine' = [mine EXCEPT ![r][p] = Append(@, n)]
          /\ wait' = IF Regrants(p, r, x, n) THEN wait ELSE ClearWait(r)
    /\ exec' = [exec EXCEPT ![r][p] =
                   IF Depth(r, p) + 1 = Len(Needs[r]) THEN "using" ELSE "asking"]
    /\ UNCHANGED <<rowVars, op, rec, alive, lost, boundVars>>

\* No slot: the run's wait row is active for x, the lease is renewed, and after
\* a pause the controller asks again.
waitForCapacity(p, r) ==
    LET x == NextNeed(r, p) IN
    /\ alive[p]
    /\ exec[r][p] = "asking"
    /\ HeldBy(p, r)
    /\ Active(r)
    /\ Grants(p, r, x) = {}
    /\ slots' = [slots EXCEPT ![x] = Reclaimed(x)]
    /\ wait' = [wait EXCEPT ![r] = x]
    /\ UNCHANGED <<rowVars, exec, mine, op, rec, alive, lost, boundVars>>

\* The lease is gone, the runtime duration is used up or the run was cancelled.
giveUpCapacity(p, r) ==
    /\ alive[p]
    /\ exec[r][p] = "asking"
    /\ IF HeldBy(p, r) /\ Active(r) THEN Fault ELSE UNCHANGED faults
    /\ exec' = [exec EXCEPT ![r][p] = "failing"]
    /\ UNCHANGED <<rowVars, slots, wait, mine, op, rec, alive, lost, lapses>>

\* The operation settles, well or with an error.
operation(p, r) ==
    /\ alive[p]
    /\ exec[r][p] = "using"
    /\ \E e \in {"unwinding", "failing"} : exec' = [exec EXCEPT ![r][p] = e]
    /\ UNCHANGED <<rowVars, slots, wait, mine, op, rec, alive, lost, boundVars>>

\* releaseRuntimeCapacity's condition on the row.
ReleasesAnyOwner(p, r, s) == s.owner # NoProc
Releases(p, r, s) == Owns(p, r, s)

\* releaseRuntimeCapacity of the innermost slot.  A slot that is no longer the
\* operation's, or a renewal that failed in the meantime, is an error.
releaseRuntimeCapacity(p, r) ==
    LET x == LastNeed(r, p)
        n == mine[r][p][Depth(r, p)]
    IN
    /\ alive[p]
    /\ exec[r][p] \in {"unwinding", "failing"}
    /\ mine[r][p] # <<>>
    /\ slots' = IF Releases(p, r, slots[x][n])
                   THEN [slots EXCEPT ![x][n] = FreeSlot] ELSE slots
    /\ mine' = [mine EXCEPT ![r][p] = SubSeq(@, 1, Depth(r, p) - 1)]
    /\ \E e \in {exec[r][p], "failing"} :
          /\ e = "failing" => \/ exec[r][p] = "failing"
                              \/ ~Releases(p, r, slots[x][n])
                              \/ ~HeldBy(p, r)
          /\ e = "unwinding" => Releases(p, r, slots[x][n])
          /\ exec' = [exec EXCEPT ![r][p] =
                         IF e = "unwinding" /\ Depth(r, p) = 1 THEN "loop" ELSE e]
    /\ UNCHANGED <<rowVars, wait, op, rec, alive, lost, boundVars>>

\* The statement of the release fails: the slot is left to expire.
failRelease(p, r) ==
    /\ alive[p]
    /\ exec[r][p] \in {"unwinding", "failing"}
    /\ mine[r][p] # <<>>
    /\ mine' = [mine EXCEPT ![r][p] = SubSeq(@, 1, Depth(r, p) - 1)]
    /\ exec' = [exec EXCEPT ![r][p] = "failing"]
    /\ UNCHANGED <<rowVars, slots, wait, op, rec, alive, lost, boundVars>>

\* The slot's lease runs out before renewRuntimeCapacity extends it.  (A renewal
\* that succeeds leaves it live; one that finds the run's lease gone changes
\* nothing and is noticed when the operation has settled.)
expireSlot(x, n) ==
    /\ slots[x][n].lease = "live"
    /\ slots' = [slots EXCEPT ![x][n].lease = "expired"]
    /\ IF Renewed(x, n) /\ HeldBy(slots[x][n].owner, slots[x][n].run)
          THEN lapses < MaxLapses /\ lapses' = lapses + 1
          ELSE UNCHANGED lapses
    /\ UNCHANGED <<rowVars, wait, exec, mine, op, rec, alive, lost, faults>>

-----------------------------------------------------------------------------
\* Every run has ended.
allSettled ==
    /\ \A r \in Runs : status[r] = "ended"
    /\ UNCHANGED vars

Next ==
    \/ \E p \in Procs, r \in Runs :
          \/ claimPendingRun(p, r)
          \/ claimRunRecovery(p, r)
          \/ resumeRecoveredRun(p, r)
          \/ endRecoveredRun(p, r)
          \/ endExecution(p, r)
          \/ beginOperation(p, r)
          \/ acquireRuntimeCapacity(p, r)
          \/ waitForCapacity(p, r)
          \/ giveUpCapacity(p, r)
          \/ operation(p, r)
          \/ releaseRuntimeCapacity(p, r)
          \/ failRelease(p, r)
    \/ \E r \in Runs : \/ recordPendingRunCapacityWait(r)
                       \/ expireLease(r)
                       \/ stopAgentRun(r)
    \/ \E x \in Resources : \E n \in 1..Limit[x] : expireSlot(x, n)
    \/ \E p \in Procs : crash(p)
    \/ allSettled

Spec == Init /\ [][Next]_vars

\* The controller's loop asks again after each pause, an operation settles and
\* its slots are returned, the scheduler claims and recovers, and leases nobody
\* renews expire.  No fairness for faults, stalls or the decision to ask.
Progress(p, r) ==
    /\ WF_vars(claimPendingRun(p, r))
    /\ WF_vars(claimRunRecovery(p, r))
    /\ WF_vars(resumeRecoveredRun(p, r) \/ endRecoveredRun(p, r))
    /\ WF_vars(endExecution(p, r) \/ beginOperation(p, r))
    /\ WF_vars(acquireRuntimeCapacity(p, r) \/ waitForCapacity(p, r)
                  \/ (~HeldBy(p, r) /\ giveUpCapacity(p, r)))
    /\ WF_vars(operation(p, r))
    /\ WF_vars(releaseRuntimeCapacity(p, r))

FairSpec ==
    /\ Spec
    /\ \A p \in Procs, r \in Runs : Progress(p, r)
    /\ \A r \in Runs : WF_vars(~Tended(r) /\ expireLease(r))
    /\ \A x \in Resources : \A n \in 1..Limit[x] : WF_vars(~Renewed(x, n) /\ expireSlot(x, n))

-----------------------------------------------------------------------------
(* Properties *)

\* Owner, run and lease of a slot are set and cleared together (the table's CHECK
\* runtime_capacity_slot_ownership_shape), as are owner and lease of a run; an
\* execution has at most the slots it needs.
CoreTypes ==
    /\ status \in [Runs -> {"pending", "running", "ended"}]
    /\ owner \in [Runs -> Procs \cup {NoProc}]
    /\ lease \in [Runs -> {"none", "live", "expired"}]
    /\ slots \in [Resources -> UNION {[1..Limit[x] -> SlotRows] : x \in Resources}]
    /\ \A x \in Resources :
          /\ DOMAIN slots[x] = 1..Limit[x]
          /\ \A n \in 1..Limit[x] :
                LET s == slots[x][n] IN
                (s.owner = NoProc) = (s.run = NoRun) /\ (s.owner = NoProc) = (s.lease = "none")
    /\ \A r \in Runs : (owner[r] = NoProc) = (lease[r] = "none")
    /\ wait \in [Runs -> Resources \cup {Admission, "none"}]
    /\ exec \in [Runs -> [Procs -> ExecStates]]
    /\ mine \in [Runs -> [Procs -> Seq(Nat)]]
    /\ \A r \in Runs, p \in Procs :
          /\ Depth(r, p) <= Len(Needs[r])
          /\ \A i \in 1..Depth(r, p) : mine[r][p][i] \in 1..Limit[Needs[r][i]]
    /\ op \in [Runs -> [Procs -> 0..MaxOps]]
    /\ alive \in [Procs -> BOOLEAN]
    /\ lapses \in 0..MaxLapses
    /\ faults \in 0..MaxFaults

\* The variables have their types.
TypeOK ==
    /\ CoreTypes
    /\ rec \in [Procs -> Runs \cup {NoRun}]
    /\ lost \in [Runs -> SUBSET Procs]

\* The execution of r in p has its run's live lease, and has had it since its claim.
Holds(p, r) == HeldBy(p, r) /\ p \notin lost[r]

\* An execution that has never lost its run's lease works inside slot n of x.
Uses(p, r, x, n) ==
    /\ Holds(p, r)
    /\ exec[r][p] \in {"asking", "using"}
    /\ \E i \in 1..Depth(r, p) : Needs[r][i] = x /\ mine[r][p][i] = n

\* The operation of an execution that has had its run's lease without a break is
\* backed by the slots' rows, so that no two of them use the same slot and a
\* target never serves more of them than its limit: whatever crashes, stops,
\* stalls and recoveries happen to others, reclaiming and late releases take no
\* slot from such an execution (as long as no slot lease runs out under its
\* user).  An execution whose process has recovered its own run is under a live
\* lease too, but may have lost its slots in between.
UsersOwnTheirSlots ==
    lapses = 0 =>
        \A r \in Runs, p \in Procs, x \in Resources :
            \A n \in 1..Limit[x] :
                Uses(p, r, x, n) => Owns(p, r, slots[x][n]) /\ slots[x][n].lease = "live"

\* The wait of a dead execution does not outlive the next claim: an execution
\* that has kept its run's lease and is not asking has no active wait with which
\* to hold others back.
NoStaleWait ==
    \A r \in Runs, p \in Procs :
        exec[r][p] \in {"loop", "using"} /\ Holds(p, r) => wait[r] = "none"

Waiting(r, x) == wait[r] = x /\ Active(r) /\ Leased(r)
AloneWaiting(r, x) == Waiting(r, x) /\ \A w \in Runs \ {r} : ~Waiting(w, x)

\* A run that waits alone for a resource is served, gives up, or is joined by
\* another waiter: no crash, stop or lost release keeps the slot from it forever.
LoneWaiterServed ==
    \A r \in Runs, x \in Resources : AloneWaiting(r, x) ~> ~AloneWaiting(r, x)
=============================================================================
