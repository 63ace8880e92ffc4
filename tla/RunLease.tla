------------------------------ MODULE RunLease ------------------------------
(***************************************************************************)
(* Run leases: how server processes claim, execute, recover and end runs.  *)
(*                                                                         *)
(* A run is a row of the table "runs".  A process (one incarnation of      *)
(* server.js; RUN_LEASE_OWNER is pid plus a fresh uuid) claims a pending   *)
(* run, starts it, renews its lease by heartbeats and ends it.  A run that *)
(* is "running" with no live lease is recovered: some process takes the    *)
(* lease over and sends the run back to "pending" or ends it.  An operator *)
(* may stop a run through any process.  Every method of the store is one   *)
(* transaction and is one action here; the steps of a process between two  *)
(* transactions are separate actions, so that what it read before an await *)
(* may be stale when it is used.                                           *)
(*                                                                         *)
(* Time is abstracted to the one comparison the code makes: a lease is     *)
(* "live" (lease_expires_at > clock_timestamp()) or "expired".             *)
(***************************************************************************)
EXTENDS Naturals, FiniteSets

CONSTANTS
    Runs,                   \* rows of "runs", admitted as pending
    Procs,                  \* process incarnations (values of RUN_LEASE_OWNER)
    NoProc,                 \* lease_owner IS NULL
    NoRun,                  \* a process that is recovering nothing
    TicketOf,               \* the ticket of each run
    SerialRuns,             \* runs with allowParallelRuns = false
    LocalRuns,              \* runs whose agent's provider is ollama
    MaxActiveRuns,          \* runtime_limit_config.max_active_runs
    LocalModelConcurrency,  \* runtime_limit_config.local_model_concurrency
    Corruptible,            \* runs whose stored replay may be damaged
    MaxStalls,              \* bound: leases that expire under a working process
    MaxFaults               \* bound: crashes, failed starts, stops

ASSUME ConstantsAssumption ==
    /\ NoProc \notin Procs
    /\ NoRun \notin Runs
    /\ IsFiniteSet(Runs) /\ LocalRuns \subseteq Runs
    /\ MaxActiveRuns \in Nat \ {0}
    /\ LocalModelConcurrency \in Nat \ {0}
    /\ MaxStalls \in Nat
    /\ MaxFaults \in Nat

VARIABLES
    status,        \* runs.status
    owner,         \* runs.lease_owner
    lease,         \* runs.lease_expires_at against the database clock
    replay,        \* replay_snapshots row of the run
    terminalized,  \* status named by the run.terminalized event, or "none"
    integrity,     \* body.integrityFailureCode is set
    effect,        \* by preparing process, target operation intents of the run
                   \* that have no receipt yet, and what recovery made of them
    exec,          \* runAgentTicket(r) inside each process
    prep,          \* commitRunTerminalization between its read and its commit
    rec,           \* run a process's scheduler tick is recovering
    alive,         \* processes that have not crashed
    stalls,        \* stalls so far
    faults         \* faults so far

rowVars  == <<status, owner, lease>>
evidVars == <<replay, terminalized, integrity, effect>>
procVars == <<exec, prep, rec, alive, stalls, faults>>
vars     == <<status, owner, lease, replay, terminalized, integrity, effect,
              exec, prep, rec, alive, stalls, faults>>

-----------------------------------------------------------------------------
(* Values *)

RunStatuses      == {"pending", "running", "completed", "failed", "interrupted"}
TerminalStatuses == {"completed", "failed", "interrupted"}
ActiveStatuses   == {"pending", "running"}

\* RUN_STATUS_TRANSITIONS
RunStatusTransitions ==
    [s \in RunStatuses |->
        CASE s = "pending" -> {"pending", "running", "failed", "interrupted"}
          [] s = "running" -> {"running", "pending", "completed", "failed", "interrupted"}
          [] OTHER         -> {}]

ExecStates == {"idle", "claimed", "executing", "failing", "integrity"}

\* Who called commitRunTerminalization: the execution loop, its catch block,
\* the recovery pass of a scheduler tick, or an operator's stop request.
Callers == {"none", "loop", "catch", "recovery", "operator"}

\* What commitRunTerminalization carries from its read of the run to its commit.
Preps == [by : Callers, target : TerminalStatuses, from : RunStatuses,
          owned : BOOLEAN, expiredOk : BOOLEAN]
NoPrep == [by |-> "none", target |-> "failed", from |-> "pending",
           owned |-> FALSE, expiredOk |-> FALSE]

-----------------------------------------------------------------------------
(* Lease predicates, as the WHERE clauses of the store write them *)

Leased(r)    == owner[r] # NoProc /\ lease[r] = "live"
Free(r)      == owner[r] = NoProc \/ lease[r] = "expired"
HeldBy(p, r) == owner[r] = p /\ lease[r] = "live"

ActiveRuns == {r \in Runs : status[r] \in ActiveStatuses /\ Leased(r)}

ClearLease(r) ==
    /\ owner' = [owner EXCEPT ![r] = NoProc]
    /\ lease' = [lease EXCEPT ![r] = "none"]
GrantLease(p, r) ==
    /\ owner' = [owner EXCEPT ![r] = p]
    /\ lease' = [lease EXCEPT ![r] = "live"]

\* A process that would act on r under its own lease: such a lease expires
\* only when that process stalls.
Tended(r) == \E p \in Procs : /\ alive[p]
                              /\ owner[r] = p
                              /\ exec[r][p] # "idle" \/ rec[p] = r

Fault == faults < MaxFaults /\ faults' = faults + 1

\* WHERE clauses of claimPendingRun (with its two capacity counts and its sibling
\* test, decided under one advisory lock), claimRunRecovery, resumeRecoveredRun.
Claimable(r) == status[r] = "pending" /\ Free(r)

CapacityOffByOne(r) ==
    /\ Cardinality(ActiveRuns) <= MaxActiveRuns
    /\ r \in LocalRuns => Cardinality(ActiveRuns \cap LocalRuns) <= LocalModelConcurrency
CapacityAvailable(r) ==
    /\ Cardinality(ActiveRuns) < MaxActiveRuns
    /\ r \in LocalRuns => Cardinality(ActiveRuns \cap LocalRuns) < LocalModelConcurrency

SiblingsAllowOneSided(r) ==
    \A s \in ActiveRuns \ {r} : TicketOf[s] = TicketOf[r] => r \notin SerialRuns
SiblingsAllow(r) ==
    \A s \in ActiveRuns \ {r} :
        TicketOf[s] = TicketOf[r] => r \notin SerialRuns /\ s \notin SerialRuns

RecoverableActive(r) == status[r] \in ActiveStatuses /\ Free(r)
Recoverable(r)       == status[r] = "running" /\ Free(r)

ResumableById(p, r) == TRUE
Resumable(p, r)     == status[r] = "running" /\ HeldBy(p, r)

-----------------------------------------------------------------------------
Init ==
    /\ status = [r \in Runs |-> "pending"]
    /\ owner = [r \in Runs |-> NoProc]
    /\ lease = [r \in Runs |-> "none"]
    /\ replay = [r \in Runs |-> "open"]
    /\ terminalized = [r \in Runs |-> "none"]
    /\ integrity = [r \in Runs |-> FALSE]
    /\ effect = [r \in Runs |-> [p \in Procs |-> "none"]]
    /\ exec = [r \in Runs |-> [p \in Procs |-> "idle"]]
    /\ prep = [r \in Runs |-> [p \in Procs |-> NoPrep]]
    /\ rec = [p \in Procs |-> NoRun]
    /\ alive = [p \in Procs |-> TRUE]
    /\ stalls = 0
    /\ faults = 0

-----------------------------------------------------------------------------
(* Scheduler: claim and start *)

\* claimPendingRun, called for one run by selectAndDispatchRun; the tick skips
\* runs this process is already starting or executing.
claimPendingRun(p, r) ==
    /\ alive[p]
    /\ rec[p] = NoRun
    /\ exec[r][p] = "idle"
    /\ Claimable(r)
    /\ CapacityAvailable(r)
    /\ SiblingsAllow(r)
    /\ GrantLease(p, r)
    /\ exec' = [exec EXCEPT ![r][p] = "claimed"]
    /\ UNCHANGED <<status, evidVars, prep, rec, alive, stalls, faults>>

\* The claim's selection evidence or the runner failed: the claim is returned
\* if this process still holds it.
releaseRunLease(p, r) ==
    /\ alive[p]
    /\ exec[r][p] = "claimed"
    /\ IF HeldBy(p, r) THEN ClearLease(r) ELSE UNCHANGED <<owner, lease>>
    /\ exec' = [exec EXCEPT ![r][p] = "idle"]
    /\ Fault
    /\ UNCHANGED <<status, evidVars, prep, rec, alive, stalls>>

\* runAgentTicket: startClaimedRun renews the lease and makes the run running.
startClaimedRun(p, r) ==
    /\ alive[p]
    /\ exec[r][p] = "claimed"
    /\ status[r] = "pending"
    /\ HeldBy(p, r)
    /\ status' = [status EXCEPT ![r] = "running"]
    /\ exec' = [exec EXCEPT ![r][p] = "executing"]
    /\ UNCHANGED <<owner, lease, evidVars, prep, rec, alive, stalls, faults>>

\* runAgentTicket: the lease or the pending status is gone, nothing is started.
skipClaimedRun(p, r) ==
    /\ alive[p]
    /\ exec[r][p] = "claimed"
    /\ ~(status[r] = "pending" /\ HeldBy(p, r))
    /\ exec' = [exec EXCEPT ![r][p] = "idle"]
    /\ UNCHANGED <<rowVars, evidVars, prep, rec, alive, stalls, faults>>

-----------------------------------------------------------------------------
(* Execution *)

\* The lease of r runs out before its next renewal.  Nobody renews an
\* untended lease, so that is only a matter of time.
expireLease(r) ==
    /\ lease[r] = "live"
    /\ lease' = [lease EXCEPT ![r] = "expired"]
    /\ IF Tended(r) THEN stalls < MaxStalls /\ stalls' = stalls + 1
                     ELSE UNCHANGED stalls
    /\ UNCHANGED <<status, owner, evidVars, exec, prep, rec, alive, faults>>

\* heartbeatRunLease returned null: RUN_LEASE_LOST ends the execution.  (A
\* heartbeat that succeeds leaves the lease live and changes nothing here.)
loseRunLease(p, r) ==
    /\ alive[p]
    /\ exec[r][p] = "executing"
    /\ prep[r][p].by \notin {"loop", "catch"}
    /\ ~(HeldBy(p, r) /\ status[r] \in ActiveStatuses)
    /\ exec' = [exec EXCEPT ![r][p] = "idle"]
    /\ UNCHANGED <<rowVars, evidVars, prep, rec, alive, stalls, faults>>

\* recoverableStop: the invocation ends and leaves the lease to expire.
stopForRecovery(p, r) ==
    /\ alive[p]
    /\ exec[r][p] = "executing"
    /\ prep[r][p].by \notin {"loop", "catch"}
    /\ exec' = [exec EXCEPT ![r][p] = "idle"]
    /\ Fault
    /\ UNCHANGED <<rowVars, evidVars, prep, rec, alive, stalls>>

\* prepareTargetOperation commits an intent under a live lease, before the
\* effect on the target.
prepareTargetOperation(p, r) ==
    /\ alive[p]
    /\ exec[r][p] = "executing"
    /\ prep[r][p].by \notin {"loop", "catch"}
    /\ status[r] = "running"
    /\ HeldBy(p, r)
    /\ effect[r][p] = "none"
    /\ effect' = [effect EXCEPT ![r][p] = "prepared"]
    /\ UNCHANGED <<rowVars, replay, terminalized, integrity, procVars>>

\* completeTargetOperation records the receipt; it tests no lease.
completeTargetOperation(p, r) ==
    /\ alive[p]
    /\ exec[r][p] = "executing"
    /\ prep[r][p].by \notin {"loop", "catch"}
    /\ effect[r][p] = "prepared"
    /\ replay[r] # "corrupt"
    /\ effect' = [effect EXCEPT ![r][p] = "none"]
    /\ UNCHANGED <<rowVars, replay, terminalized, integrity, procVars>>

\* The replay row of r no longer matches its hash (damage outside the program).
corruptReplay(r) ==
    /\ r \in Corruptible
    /\ replay[r] # "corrupt"
    /\ replay' = [replay EXCEPT ![r] = "corrupt"]
    /\ UNCHANGED <<rowVars, terminalized, integrity, effect, procVars>>

\* The loop reads or extends the replay and meets the integrity error.
observeCorruption(p, r) ==
    /\ alive[p]
    /\ exec[r][p] = "executing"
    /\ prep[r][p].by \notin {"loop", "catch"}
    /\ replay[r] = "corrupt"
    /\ exec' = [exec EXCEPT ![r][p] = "integrity"]
    /\ UNCHANGED <<rowVars, evidVars, prep, rec, alive, stalls, faults>>

-----------------------------------------------------------------------------
(* Ending a run: commitRunTerminalization *)

\* withTicketTransitionLock: one lifecycle transition per ticket and process.
TicketLockFree(p, r) ==
    \A s \in Runs : TicketOf[s] = TicketOf[r] => prep[s][p].by = "none"

\* isRunLeaseExpired compares with the process's own clock, which may differ
\* from the database's; without lease authority it does not look at the clock.
ClockSaysExpired(r) ==
    IF owner[r] = NoProc THEN {status[r] = "running"} ELSE BOOLEAN

\* commitRunTerminalization reloads the run, and keeps its status and whether
\* the lease is this process's for the transaction that follows.
PrepRecord(p, r, by, target, expiredOk) ==
    [by |-> by, target |-> target, from |-> status[r],
     owned |-> owner[r] = p, expiredOk |-> expiredOk]

\* completeAgentRun: completed, or failed when a postcondition does not hold.
completeAgentRun(p, r) ==
    /\ alive[p]
    /\ exec[r][p] = "executing"
    /\ TicketLockFree(p, r)
    /\ effect[r][p] # "prepared"
    /\ IF replay[r] = "corrupt"
          THEN /\ exec' = [exec EXCEPT ![r][p] = "integrity"]
               /\ UNCHANGED prep
          ELSE /\ \E target \in {"completed", "failed"} :
                    prep' = [prep EXCEPT ![r][p] = PrepRecord(p, r, "loop", target, FALSE)]
               /\ UNCHANGED exec
    /\ UNCHANGED <<rowVars, evidVars, rec, alive, stalls, faults>>

\* failAgentRun in the catch block; an error raised here leaves runAgentTicket.
failAgentRun(p, r) ==
    /\ alive[p]
    /\ exec[r][p] \in {"executing", "failing"}
    /\ TicketLockFree(p, r)
    /\ IF replay[r] = "corrupt"
          THEN /\ exec' = [exec EXCEPT ![r][p] = "idle"]
               /\ UNCHANGED prep
          ELSE /\ prep' = [prep EXCEPT ![r][p] = PrepRecord(p, r, "catch", "failed", FALSE)]
               /\ exec' = [exec EXCEPT ![r][p] = "failing"]
    /\ UNCHANGED <<rowVars, evidVars, rec, alive, stalls, faults>>

\* POST /api/runs/:id/stop and the interruptions after cancelTicket.
stopAgentRun(p, r) ==
    /\ alive[p]
    /\ status[r] \in ActiveStatuses
    /\ replay[r] # "corrupt"
    /\ TicketLockFree(p, r)
    /\ \E e \in ClockSaysExpired(r) :
          prep' = [prep EXCEPT ![r][p] = PrepRecord(p, r, "operator", "interrupted", e)]
    /\ Fault
    /\ UNCHANGED <<rowVars, evidVars, exec, rec, alive, stalls>>

\* transitionRun's conditions, evaluated by the database at commit time.
TransitionAllowed(p, r, d) ==
    /\ d.target \in RunStatusTransitions[d.from]
    /\ status[r] = d.from
    /\ \/ d.from = "pending" /\ (d.owned => HeldBy(p, r))
       \/ d.from = "running" /\ d.owned /\ HeldBy(p, r)
       \/ d.from = "running" /\ d.expiredOk /\ d.target # "completed" /\ Free(r)

\* terminalizeRun: status, finalized replay, evaluation, consequence and the
\* run.terminalized event in one transaction.
terminalizeRun(p, r) ==
    LET d == prep[r][p] IN
    /\ alive[p]
    /\ d.by # "none"
    /\ TransitionAllowed(p, r, d)
    /\ replay[r] = "open"
    /\ status' = [status EXCEPT ![r] = d.target]
    /\ ClearLease(r)
    /\ replay' = [replay EXCEPT ![r] = "finalized"]
    /\ terminalized' = [terminalized EXCEPT ![r] = d.target]
    /\ prep' = [prep EXCEPT ![r][p] = NoPrep]
    /\ exec' = IF d.by \in {"loop", "catch"} THEN [exec EXCEPT ![r][p] = "idle"] ELSE exec
    /\ rec' = IF d.by = "recovery" THEN [rec EXCEPT ![p] = NoRun] ELSE rec
    /\ UNCHANGED <<integrity, effect, alive, stalls, faults>>

\* The catch block of runAgentTicket tells a damaged replay from other errors.
CatchBlockRouteAny(r) == "integrity"
CatchBlockRoute(r)    == IF replay[r] = "corrupt" THEN "integrity" ELSE "failing"

\* The transaction refuses and the error goes to the caller: the loop enters
\* its catch block, which routes a replay integrity failure to its own path;
\* the others are abandoned.
refuseTerminalization(p, r) ==
    LET d == prep[r][p] IN
    /\ alive[p]
    /\ d.by # "none"
    /\ ~(TransitionAllowed(p, r, d) /\ replay[r] = "open")
    /\ prep' = [prep EXCEPT ![r][p] = NoPrep]
    /\ exec' = IF d.by = "loop" THEN [exec EXCEPT ![r][p] = CatchBlockRoute(r)]
               ELSE IF d.by = "catch" THEN [exec EXCEPT ![r][p] = "idle"] ELSE exec
    /\ rec' = IF d.by = "recovery" THEN [rec EXCEPT ![p] = NoRun] ELSE rec
    /\ UNCHANGED <<rowVars, evidVars, alive, stalls, faults>>

\* The row of a run ended by the integrity path.
IntegrityRowLeased(r) == status' = [status EXCEPT ![r] = "failed"] /\ UNCHANGED <<owner, lease>>
IntegrityRow(r)       == status' = [status EXCEPT ![r] = "failed"] /\ ClearLease(r)

\* terminalizeRunForReplayIntegrityFailure: only another process's lease, live
\* or not, holds it back; the run's status is not a condition.
terminalizeRunForReplayIntegrityFailure(p, r) ==
    /\ alive[p]
    /\ exec[r][p] = "integrity"
    /\ IF /\ owner[r] \in {NoProc, p}
          /\ ~(status[r] \in TerminalStatuses /\ integrity[r])
       THEN IntegrityRow(r) /\ integrity' = [integrity EXCEPT ![r] = TRUE]
       ELSE UNCHANGED <<rowVars, integrity>>
    /\ exec' = [exec EXCEPT ![r][p] = "idle"]
    /\ UNCHANGED <<replay, terminalized, effect, prep, rec, alive, stalls, faults>>

-----------------------------------------------------------------------------
(* Recovery: expireStaleRunLeases and interruptStaleRunsOnStartup *)

\* claimRunRecovery takes over a running run with no live lease.
claimRunRecovery(p, r) ==
    /\ alive[p]
    /\ rec[p] = NoRun
    /\ Recoverable(r)
    /\ GrantLease(p, r)
    /\ rec' = [rec EXCEPT ![p] = r]
    /\ UNCHANGED <<status, evidVars, exec, prep, alive, stalls, faults>>

\* reconcilePreparedTargetOperations compares the target with each intent.
reconcilePreparedTargetOperations(p, r) ==
    /\ alive[p]
    /\ rec[p] = r
    /\ prep[r][p].by # "recovery"
    /\ \E q \in Procs :
          /\ effect[r][q] = "prepared"
          /\ \E e \in {"none", "uncertain"} : effect' = [effect EXCEPT ![r][q] = e]
    /\ UNCHANGED <<rowVars, replay, terminalized, integrity, procVars>>

\* Back to pending.
ResumeKeepingLease(r) == status' = [status EXCEPT ![r] = "pending"] /\ UNCHANGED <<owner, lease>>
ResumeLeaseOnly(r)    == ClearLease(r) /\ UNCHANGED status
ResumeRow(r)          == status' = [status EXCEPT ![r] = "pending"] /\ ClearLease(r)

\* resumeRecoveredRun: back to pending, or nothing when the recovery lease is gone.
resumeRecoveredRun(p, r) ==
    /\ alive[p]
    /\ rec[p] = r
    /\ prep[r][p].by # "recovery"
    /\ \A q \in Procs : effect[r][q] = "none"
    /\ IF Resumable(p, r) THEN ResumeRow(r) ELSE UNCHANGED rowVars
    /\ rec' = [rec EXCEPT ![p] = NoRun]
    /\ UNCHANGED <<evidVars, exec, prep, alive, stalls, faults>>

\* How a recovery may end r: failed when its runtime duration is used up, which
\* is tested before the target is looked at; interrupted when a target effect is
\* uncertain or the run's events do not allow it to resume.
RecoveryEnds(p, r) ==
    {PrepRecord(p, r, "recovery", "failed", FALSE)} \cup
    {PrepRecord(p, r, "recovery", "interrupted", e) :
        e \in {c \in ClockSaysExpired(r) : \A q \in Procs : effect[r][q] # "prepared"}}

\* failAgentRun or interruptAgentRun of the recovered run.  An integrity error
\* of the replay leaves the scheduler tick.
endRecoveredRun(p, r) ==
    /\ alive[p]
    /\ rec[p] = r
    /\ TicketLockFree(p, r)
    /\ IF replay[r] = "corrupt"
          THEN rec' = [rec EXCEPT ![p] = NoRun] /\ UNCHANGED prep
          ELSE /\ \E d \in RecoveryEnds(p, r) : prep' = [prep EXCEPT ![r][p] = d]
               /\ UNCHANGED rec
    /\ UNCHANGED <<rowVars, evidVars, exec, alive, stalls, faults>>

-----------------------------------------------------------------------------
\* A process dies; its memory is lost and its rows stay as they are.  The bound
\* keeps one process alive: a deployment that stays down does nothing.
crash(p) ==
    /\ alive[p]
    /\ \E q \in Procs \ {p} : alive[q]
    /\ alive' = [alive EXCEPT ![p] = FALSE]
    /\ exec' = [r \in Runs |-> [exec[r] EXCEPT ![p] = "idle"]]
    /\ prep' = [r \in Runs |-> [prep[r] EXCEPT ![p] = NoPrep]]
    /\ rec' = [rec EXCEPT ![p] = NoRun]
    /\ Fault
    /\ UNCHANGED <<rowVars, evidVars, stalls>>

\* Every run has ended and no process works on any.
allSettled ==
    /\ \A r \in Runs : status[r] \in TerminalStatuses
    /\ UNCHANGED vars

Next ==
    \/ \E p \in Procs, r \in Runs :
          \/ claimPendingRun(p, r)
          \/ releaseRunLease(p, r)
          \/ startClaimedRun(p, r)
          \/ skipClaimedRun(p, r)
          \/ loseRunLease(p, r)
          \/ stopForRecovery(p, r)
          \/ prepareTargetOperation(p, r)
          \/ completeTargetOperation(p, r)
          \/ observeCorruption(p, r)
          \/ completeAgentRun(p, r)
          \/ failAgentRun(p, r)
          \/ stopAgentRun(p, r)
          \/ terminalizeRun(p, r)
          \/ refuseTerminalization(p, r)
          \/ terminalizeRunForReplayIntegrityFailure(p, r)
          \/ claimRunRecovery(p, r)
          \/ reconcilePreparedTargetOperations(p, r)
          \/ resumeRecoveredRun(p, r)
          \/ endRecoveredRun(p, r)
    \/ \E r \in Runs : expireLease(r) \/ corruptReplay(r)
    \/ \E p \in Procs : crash(p)
    \/ allSettled

Spec == Init /\ [][Next]_vars

\* What the scheduler's interval timer, the event loop and the database's clock
\* justify: a live process keeps taking the steps it has to take, and a lease
\* nobody renews expires.  No fairness for faults, stalls, operators, damage.
Progress(p, r) ==
    /\ WF_vars(claimPendingRun(p, r))
    /\ WF_vars(startClaimedRun(p, r) \/ skipClaimedRun(p, r))
    /\ WF_vars(completeTargetOperation(p, r))
    /\ WF_vars(completeAgentRun(p, r) \/ failAgentRun(p, r) \/ loseRunLease(p, r))
    /\ WF_vars(terminalizeRun(p, r) \/ refuseTerminalization(p, r))
    /\ WF_vars(terminalizeRunForReplayIntegrityFailure(p, r))
    /\ WF_vars(claimRunRecovery(p, r))
    /\ WF_vars(reconcilePreparedTargetOperations(p, r))
    /\ WF_vars(resumeRecoveredRun(p, r) \/ endRecoveredRun(p, r))

FairSpec ==
    /\ Spec
    /\ \A p \in Procs, r \in Runs : Progress(p, r)
    /\ \A r \in Runs : WF_vars(~Tended(r) /\ expireLease(r))

-----------------------------------------------------------------------------
(* Properties *)

\* The variables have their types, and lease_owner and lease_expires_at are set
\* and cleared together (the CHECK runs_lease_complete).
TypeOK ==
    /\ status \in [Runs -> RunStatuses]
    /\ owner \in [Runs -> Procs \cup {NoProc}]
    /\ lease \in [Runs -> {"none", "live", "expired"}]
    /\ replay \in [Runs -> {"open", "finalized", "corrupt"}]
    /\ terminalized \in [Runs -> TerminalStatuses \cup {"none"}]
    /\ integrity \in [Runs -> BOOLEAN]
    /\ effect \in [Runs -> [Procs -> {"none", "prepared", "uncertain"}]]
    /\ exec \in [Runs -> [Procs -> ExecStates]]
    /\ prep \in [Runs -> [Procs -> Preps]]
    /\ rec \in [Procs -> Runs \cup {NoRun}]
    /\ alive \in [Procs -> BOOLEAN]
    /\ stalls \in 0..MaxStalls
    /\ faults \in 0..MaxFaults
    /\ \A r \in Runs : owner[r] = NoProc <=> lease[r] = "none"

\* The row and the evidence of a run agree.  A run that has not ended carries no
\* run.terminalized event, so recovery never finds "terminal event already
\* committed before projection update"; a run that has ended holds no lease and
\* its run.terminalized event names its status, unless the integrity path ended it.
TerminalEvidence ==
    \A r \in Runs :
        IF status[r] \in TerminalStatuses
        THEN /\ owner[r] = NoProc
             /\ integrity[r] \/ (terminalized[r] = status[r] /\ replay[r] # "open")
        ELSE terminalized[r] = "none" /\ ~integrity[r]

\* A process that executes a run and passes the lease check executes a running
\* run: after a recovery sent the run back to pending, the process that still
\* executes it never holds the lease of the next execution.
ExecutionMatchesRow ==
    \A r \in Runs, p \in Procs :
        exec[r][p] \in {"executing", "failing"} /\ HeldBy(p, r) => status[r] = "running"

\* An execution in progress under a live lease.
Executing(r) == \E p \in Procs : exec[r][p] = "executing" /\ HeldBy(p, r)

\* Runs of one ticket of which one has allowParallelRuns = false never execute
\* at the same time (as long as no lease expires under a working process).
SerialSiblingsExclusive ==
    stalls = 0 =>
        \A r, s \in Runs :
            /\ r # s
            /\ TicketOf[r] = TicketOf[s]
            /\ r \in SerialRuns
            => ~(Executing(r) /\ Executing(s))

\* The deployment never executes more runs than max_active_runs, nor more local
\* model runs than local_model_concurrency (same condition).
ConcurrencyBounded ==
    stalls = 0 =>
        /\ Cardinality({r \in Runs : Executing(r)}) <= MaxActiveRuns
        /\ Cardinality({r \in LocalRuns : Executing(r)}) <= LocalModelConcurrency

\* A run becomes completed only while the process that executes it holds its live
\* lease, whatever that process read before the transaction.
CompletionIsLeased ==
    [][\A r \in Runs : status[r] # "completed" /\ status'[r] = "completed" =>
          \E p \in Procs : /\ HeldBy(p, r)
                           /\ status[r] = "running"
                           /\ exec[r][p] = "executing"]_vars

\* Nobody takes a live lease over: it is renewed, given up, ended or expires.
LiveLeaseNotTaken ==
    [][\A r \in Runs : Leased(r) => owner'[r] \in {owner[r], NoProc}]_vars

\* The only step that changes the status of a run that has ended is the integrity
\* path: to failed, with the disposition recorded, over a damaged replay.
TerminalRewrittenOnlyByIntegrity ==
    [][\A r \in Runs : status[r] \in TerminalStatuses /\ status'[r] # status[r] =>
          status'[r] = "failed" /\ integrity'[r] /\ replay[r] = "corrupt"]_vars

\* Every admitted run ends.
EveryRunEnds == \A r \in Runs : <>(status[r] \in TerminalStatuses)

\* The leases implement custody: a process has custody of a run while its lease
\* is live, and every claim, start, recovery and end is a step custody allows, or
\* one it does not see (the contract of the claims and transitions of store.js).
Custody == INSTANCE RunCustody WITH
    holder    <- [r \in Runs |-> IF Leased(r) THEN owner[r] ELSE NoProc],
    condemned <- integrity
ImplementsCustody == Custody!Spec

\* What GovernedRequests assumes of a run: it moves only between being free, held,
\* lapsed and ended, and a free run is held only after a claim, which is what
\* appends run.lease_acquired (claimPendingRun; claimRunRecovery appends none).
StandingOf(r) ==
    IF status[r] \in TerminalStatuses THEN "ended"
    ELSE IF Leased(r) THEN "held"
    ELSE IF status[r] = "pending" THEN "free" ELSE "lapsed"
Standing == INSTANCE RunStanding WITH standing <- [r \in Runs |-> StandingOf(r)]
ImplementsStanding ==
    /\ Standing!Spec
    /\ [][\A r \in Runs : Standing!Claims(r) => \E p \in Procs : claimPendingRun(p, r)]_vars

-----------------------------------------------------------------------------
(* What the repository says of the program and the code does not do *)

\* store.js, terminalizeRunForReplayIntegrityFailure: a run with a damaged replay
\* is not "reclaimed and fails identically -- forever".
CorruptRunEnds ==
    \A r \in Runs : (status[r] = "running" /\ replay[r] = "corrupt")
                        ~> (status[r] \in TerminalStatuses)
=============================================================================
