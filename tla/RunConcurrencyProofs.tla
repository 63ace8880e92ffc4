------------------------ MODULE RunConcurrencyProofs ------------------------
(***************************************************************************)
(* Runs never execute together beyond the limits of the deployment or      *)
(* against allowParallelRuns, for every set of runs and processes, as long *)
(* as no lease expires under a process that works.                         *)
(*                                                                         *)
(* The claim counts the runs with a live lease, but a recovery takes a     *)
(* lease without counting.  The bound holds because a recovered run is not *)
(* executed by anybody (Fence): it must be claimed again.                  *)
(***************************************************************************)
EXTENDS RunLeaseProofs, FiniteSetTheorems

USE DEF RunStatuses, TerminalStatuses, ActiveStatuses

\* Only a live process works on anything.
WorkerAlive ==
    \A p \in Procs :
        /\ \A r \in Runs : exec[r][p] # "idle" => alive[p]
        /\ rec[p] # NoRun => alive[p]

\* Without a stall, a process that has a run in hand holds its lease, or the run
\* has been ended by somebody; and nobody executes a run that is being recovered.
Fence ==
    stalls = 0 =>
        \A r \in Runs, p \in Procs :
            /\ exec[r][p] # "idle" => HeldBy(p, r) \/ status[r] \in TerminalStatuses
            /\ rec[p] = r => \/ status[r] \in TerminalStatuses
                             \/ /\ status[r] = "running"
                                /\ HeldBy(p, r)
                                /\ \A q \in Procs : exec[r][q] = "idle"

\* The runs some process has in hand under a live lease.
Working == {r \in Runs : \E p \in Procs : exec[r][p] # "idle" /\ HeldBy(p, r)}

-----------------------------------------------------------------------------
(* Who begins to work on a run.                                              *)

\* A process begins an execution only by a claim.
LEMMA ExecBegins ==
    ASSUME TypeOK, ProcessState, [Next]_vars, NEW s \in Runs, NEW q \in Procs,
           exec[s][q] = "idle", exec'[s][q] # "idle"
    PROVE  claimPendingRun(q, s)
<1> USE TypeOK
<1>1. ASSUME NEW p \in Procs, NEW r \in Runs, claimPendingRun(p, r) PROVE p = q /\ r = s
  BY <1>1 DEF TypeOK, claimPendingRun
<1>2. ASSUME NEW p \in Procs, NEW r \in Runs, NEW e, exec[r][p] # "idle" \/ e = "idle",
             exec' = [exec EXCEPT ![r][p] = e]
      PROVE  FALSE
  BY <1>2 DEF TypeOK
<1>3. ASSUME UNCHANGED exec PROVE FALSE
  BY <1>3
<1>4. ASSUME NEW p \in Procs, NEW r \in Runs,
             \/ prepareTargetOperation(p, r)
             \/ completeTargetOperation(p, r)
             \/ claimRunRecovery(p, r)
             \/ reconcilePreparedTargetOperations(p, r)
             \/ resumeRecoveredRun(p, r)
             \/ stopAgentRun(p, r)
             \/ endRecoveredRun(p, r)
      PROVE  FALSE
  BY <1>3, <1>4, Zenon DEF prepareTargetOperation, completeTargetOperation, claimRunRecovery,
     reconcilePreparedTargetOperations, resumeRecoveredRun, stopAgentRun, endRecoveredRun,
     procVars
<1>5. ASSUME NEW p \in Procs, NEW r \in Runs,
             \/ releaseRunLease(p, r)
             \/ startClaimedRun(p, r)
             \/ skipClaimedRun(p, r)
             \/ loseRunLease(p, r)
             \/ stopForRecovery(p, r)
             \/ observeCorruption(p, r)
             \/ terminalizeRunForReplayIntegrityFailure(p, r)
      PROVE  FALSE
  <2>1. exec[r][p] # "idle" /\ \E e : exec' = [exec EXCEPT ![r][p] = e]
    BY <1>5 DEF releaseRunLease, startClaimedRun, skipClaimedRun, loseRunLease,
       stopForRecovery, observeCorruption, terminalizeRunForReplayIntegrityFailure
  <2> QED BY <1>2, <2>1
<1>6. ASSUME NEW p \in Procs, NEW r \in Runs, completeAgentRun(p, r) \/ failAgentRun(p, r)
      PROVE  FALSE
  <2>1. exec[r][p] # "idle"
    BY <1>6 DEF completeAgentRun, failAgentRun
  <2>2. UNCHANGED exec \/ \E e : exec' = [exec EXCEPT ![r][p] = e]
    BY <1>6, Zenon DEF completeAgentRun, failAgentRun
  <2> QED BY <1>2, <1>3, <2>1, <2>2
<1>7. ASSUME NEW p \in Procs, NEW r \in Runs, terminalizeRun(p, r) PROVE FALSE
  <2>1. exec' = [exec EXCEPT ![r][p] = "idle"] \/ UNCHANGED exec
    BY <1>7 DEF terminalizeRun
  <2> QED BY <1>2, <1>3, <2>1
<1>8. ASSUME NEW p \in Procs, NEW r \in Runs, refuseTerminalization(p, r) PROVE FALSE
  <2>1. CASE prep[r][p].by = "loop"
    <3>1. exec[r][p] # "idle"
      BY <2>1 DEF ProcessState
    <3>2. exec' = [exec EXCEPT ![r][p] = CatchBlockRoute(r)]
      BY <1>8, <2>1 DEF refuseTerminalization
    <3> QED BY <1>2, <3>1, <3>2
  <2>2. CASE prep[r][p].by # "loop"
    <3>1. exec' = [exec EXCEPT ![r][p] = "idle"] \/ UNCHANGED exec
      BY <1>8, <2>2 DEF refuseTerminalization
    <3> QED BY <1>2, <1>3, <3>1
  <2> QED BY <2>1, <2>2
<1>9. ASSUME NEW r \in Runs, expireLease(r) \/ corruptReplay(r) PROVE FALSE
  BY <1>3, <1>9 DEF expireLease, corruptReplay, procVars
<1>10. ASSUME NEW p \in Procs, crash(p) PROVE FALSE
  BY <1>10 DEF TypeOK, crash
<1>11. CASE UNCHANGED vars
  BY <1>3, <1>11 DEF vars
<1> QED
  BY <1>1, <1>4, <1>5, <1>6, <1>7, <1>8, <1>9, <1>10, <1>11 DEF Next, allSettled

\* A process begins a recovery only by claimRunRecovery.
LEMMA RecoveryBegins ==
    ASSUME TypeOK, [Next]_vars, NEW s \in Runs, NEW q \in Procs, rec[q] # s, rec'[q] = s
    PROVE  claimRunRecovery(q, s)
<1> USE TypeOK, ConstantsAssumption
<1>1. ASSUME NEW p \in Procs, NEW r \in Runs, claimRunRecovery(p, r) PROVE p = q /\ r = s
  BY <1>1 DEF TypeOK, claimRunRecovery
<1>2. ASSUME NEW p \in Procs, rec' = [rec EXCEPT ![p] = NoRun] \/ UNCHANGED rec PROVE FALSE
  BY <1>2 DEF TypeOK
<1>3. ASSUME NEW p \in Procs, NEW r \in Runs,
             \/ claimPendingRun(p, r)
             \/ releaseRunLease(p, r)
             \/ startClaimedRun(p, r)
             \/ skipClaimedRun(p, r)
             \/ loseRunLease(p, r)
             \/ stopForRecovery(p, r)
             \/ prepareTargetOperation(p, r)
             \/ completeTargetOperation(p, r)
             \/ observeCorruption(p, r)
             \/ completeAgentRun(p, r)
             \/ failAgentRun(p, r)
             \/ stopAgentRun(p, r)
             \/ terminalizeRunForReplayIntegrityFailure(p, r)
             \/ reconcilePreparedTargetOperations(p, r)
      PROVE  FALSE
  <2>1. UNCHANGED rec
    BY <1>3, Zenon DEF claimPendingRun, releaseRunLease, startClaimedRun, skipClaimedRun,
       loseRunLease, stopForRecovery, prepareTargetOperation, completeTargetOperation,
       observeCorruption, completeAgentRun, failAgentRun, stopAgentRun,
       terminalizeRunForReplayIntegrityFailure, reconcilePreparedTargetOperations, procVars
  <2> QED BY <2>1
<1>4. ASSUME NEW p \in Procs, NEW r \in Runs,
             \/ terminalizeRun(p, r)
             \/ refuseTerminalization(p, r)
             \/ resumeRecoveredRun(p, r)
             \/ endRecoveredRun(p, r)
      PROVE  FALSE
  <2>1. rec' = [rec EXCEPT ![p] = NoRun] \/ UNCHANGED rec
    BY <1>4, Zenon DEF terminalizeRun, refuseTerminalization, resumeRecoveredRun, endRecoveredRun
  <2> QED BY <1>2, <2>1
<1>5. ASSUME NEW r \in Runs, expireLease(r) \/ corruptReplay(r) PROVE FALSE
  BY <1>5 DEF expireLease, corruptReplay, procVars
<1>6. ASSUME NEW p \in Procs, crash(p) PROVE FALSE
  <2>1. rec' = [rec EXCEPT ![p] = NoRun]
    BY <1>6 DEF crash
  <2> QED BY <1>2, <2>1
<1>7. CASE UNCHANGED vars
  BY <1>7 DEF vars
<1> QED
  BY <1>1, <1>3, <1>4, <1>5, <1>6, <1>7 DEF Next, allSettled

\* Stalls are never undone.  A lease that expires without one has nobody at work.
LEMMA StallsGrow ==
    ASSUME TypeOK, [Next]_vars, stalls' = 0
    PROVE  stalls = 0 /\ \A r \in Runs : expireLease(r) => ~Tended(r)
<1>1. ASSUME NEW r \in Runs, expireLease(r) PROVE stalls = 0 /\ ~Tended(r)
  <2>1. CASE Tended(r)
    BY <1>1, <2>1, ConstantsAssumption DEF TypeOK, expireLease
  <2>2. CASE ~Tended(r)
    BY <1>1, <2>2 DEF expireLease
  <2> QED BY <2>1, <2>2
<1>2. (\E r \in Runs : expireLease(r)) \/ UNCHANGED stalls
  <2>1. ASSUME NEW p \in Procs, NEW r \in Runs,
               \/ claimPendingRun(p, r)
               \/ releaseRunLease(p, r)
               \/ startClaimedRun(p, r)
               \/ skipClaimedRun(p, r)
               \/ loseRunLease(p, r)
               \/ stopForRecovery(p, r)
               \/ prepareTargetOperation(p, r)
               \/ completeTargetOperation(p, r)
               \/ observeCorruption(p, r)
               \/ completeAgentRun(p, r)
               \/ failAgentRun(p, r)
               \/ stopAgentRun(p, r)
               \/ terminalizeRun(p, r)
               \/ refuseTerminalization(p, r)
               \/ terminalizeRunForReplayIntegrityFailure(p, r)
               \/ claimRunRecovery(p, r)
               \/ reconcilePreparedTargetOperations(p, r)
               \/ resumeRecoveredRun(p, r)
               \/ endRecoveredRun(p, r)
        PROVE  UNCHANGED stalls
    BY <2>1, Zenon DEF claimPendingRun, releaseRunLease, startClaimedRun, skipClaimedRun,
       loseRunLease, stopForRecovery, prepareTargetOperation, completeTargetOperation,
       observeCorruption, completeAgentRun, failAgentRun, stopAgentRun, terminalizeRun,
       refuseTerminalization, terminalizeRunForReplayIntegrityFailure, claimRunRecovery,
       reconcilePreparedTargetOperations, resumeRecoveredRun, endRecoveredRun, procVars
  <2>2. ASSUME NEW r \in Runs, corruptReplay(r) PROVE UNCHANGED stalls
    BY <2>2 DEF corruptReplay, procVars
  <2>3. ASSUME NEW p \in Procs, crash(p) PROVE UNCHANGED stalls
    BY <2>3 DEF crash
  <2>4. CASE UNCHANGED vars
    BY <2>4 DEF vars
  <2> QED
    BY <2>1, <2>2, <2>3, <2>4, Zenon DEF Next, allSettled
<1> QED
  BY <1>1, <1>2

\* Only a crash ends a process.
LEMMA AliveStep == TypeOK /\ ProcessState /\ WorkerAlive /\ [Next]_vars => WorkerAlive'
<1> SUFFICES ASSUME TypeOK, ProcessState, WorkerAlive, [Next]_vars, NEW q \in Procs
             PROVE  /\ \A s \in Runs : exec'[s][q] # "idle" => alive'[q]
                    /\ rec'[q] # NoRun => alive'[q]
  BY DEF WorkerAlive
<1>1. CASE UNCHANGED alive
  <2>1. ASSUME NEW s \in Runs, exec'[s][q] # "idle" PROVE alive[q]
    <3>1. CASE exec[s][q] = "idle"
      BY <2>1, <3>1, ExecBegins DEF claimPendingRun
    <3>2. CASE exec[s][q] # "idle"
      BY <3>2 DEF WorkerAlive
    <3> QED BY <3>1, <3>2
  <2>2. ASSUME rec'[q] # NoRun PROVE alive[q]
    <3>1. rec'[q] \in Runs
      BY <2>2, TypeStep DEF TypeOK
    <3>2. CASE rec[q] = rec'[q]
      BY <2>2, <3>2 DEF WorkerAlive
    <3>3. CASE rec[q] # rec'[q]
      BY <3>1, <3>3, RecoveryBegins DEF claimRunRecovery
    <3> QED BY <3>2, <3>3
  <2> QED BY <1>1, <2>1, <2>2
<1>2. ASSUME NEW p \in Procs, crash(p)
      PROVE  /\ \A s \in Runs : exec'[s][q] # "idle" => alive'[q]
             /\ rec'[q] # NoRun => alive'[q]
  BY <1>2 DEF TypeOK, crash, WorkerAlive
<1>3. UNCHANGED alive \/ \E p \in Procs : crash(p)
  <2>1. ASSUME NEW p \in Procs, NEW r \in Runs,
               \/ claimPendingRun(p, r)
               \/ releaseRunLease(p, r)
               \/ startClaimedRun(p, r)
               \/ skipClaimedRun(p, r)
               \/ loseRunLease(p, r)
               \/ stopForRecovery(p, r)
               \/ prepareTargetOperation(p, r)
               \/ completeTargetOperation(p, r)
               \/ observeCorruption(p, r)
               \/ completeAgentRun(p, r)
               \/ failAgentRun(p, r)
               \/ stopAgentRun(p, r)
               \/ terminalizeRun(p, r)
               \/ refuseTerminalization(p, r)
               \/ terminalizeRunForReplayIntegrityFailure(p, r)
               \/ claimRunRecovery(p, r)
               \/ reconcilePreparedTargetOperations(p, r)
               \/ resumeRecoveredRun(p, r)
               \/ endRecoveredRun(p, r)
        PROVE  UNCHANGED alive
    BY <2>1, Zenon DEF claimPendingRun, releaseRunLease, startClaimedRun, skipClaimedRun,
       loseRunLease, stopForRecovery, prepareTargetOperation, completeTargetOperation,
       observeCorruption, completeAgentRun, failAgentRun, stopAgentRun, terminalizeRun,
       refuseTerminalization, terminalizeRunForReplayIntegrityFailure, claimRunRecovery,
       reconcilePreparedTargetOperations, resumeRecoveredRun, endRecoveredRun, procVars
  <2>2. ASSUME NEW r \in Runs, expireLease(r) \/ corruptReplay(r) PROVE UNCHANGED alive
    BY <2>2, Zenon DEF expireLease, corruptReplay, procVars
  <2>3. CASE UNCHANGED vars
    BY <2>3 DEF vars
  <2> QED
    BY <2>1, <2>2, <2>3, Zenon DEF Next, allSettled
<1> QED BY <1>1, <1>2, <1>3

-----------------------------------------------------------------------------
(* The fence.                                                                *)

LEMMA EndedStays ==
    ASSUME TypeOK, [Next]_vars, NEW s \in Runs, status[s] \in TerminalStatuses
    PROVE  status'[s] \in TerminalStatuses
<1>1. CASE status'[s] = status[s]
  BY <1>1
<1>2. CASE status'[s] # status[s]
  <2>1. ASSUME NEW p \in Procs, startClaimedRun(p, s) \/ terminalizeRun(p, s) PROVE FALSE
    BY <2>1 DEF startClaimedRun, terminalizeRun, TransitionAllowed
  <2> QED BY <1>2, <2>1, StatusWriters
<1> QED BY <1>1, <1>2

\* A live lease that somebody tends: what a step may make of it.
LEMMA LeaseFate ==
    ASSUME TypeOK, [Next]_vars, stalls' = 0, NEW s \in Runs, NEW q \in Procs,
           HeldBy(q, s), Tended(s)
    PROVE  \/ HeldBy(q, s)' /\ (status'[s] = status[s] \/ startClaimedRun(q, s))
           \/ status'[s] \in TerminalStatuses
           \/ releaseRunLease(q, s)
           \/ resumeRecoveredRun(q, s)
<1> USE TypeOK, ConstantsAssumption
<1> DEFINE Kept == HeldBy(q, s)' /\ status'[s] = status[s]
<1>1. CASE UNCHANGED rowVars
  BY <1>1 DEF rowVars, HeldBy
<1>2. ASSUME NEW r \in Runs, expireLease(r) PROVE Kept
  <2>1. r # s
    BY <1>2, StallsGrow
  <2> QED BY <1>2, <2>1 DEF TypeOK, expireLease, HeldBy
<1>3. ASSUME NEW p \in Procs, NEW r \in Runs, claimPendingRun(p, r) \/ claimRunRecovery(p, r)
      PROVE  Kept
  <2>1. Free(r) /\ GrantLease(p, r) /\ UNCHANGED status
    BY <1>3 DEF claimPendingRun, Claimable, claimRunRecovery, Recoverable
  <2> QED BY <2>1 DEF TypeOK, Free, HeldBy, GrantLease
<1>4. ASSUME NEW p \in Procs, NEW r \in Runs, startClaimedRun(p, r)
      PROVE  HeldBy(q, s)' /\ (status'[s] = status[s] \/ startClaimedRun(q, s))
  <2>1. r = s => p = q
    BY <1>4 DEF startClaimedRun, HeldBy
  <2> QED BY <1>4, <2>1 DEF TypeOK, startClaimedRun, HeldBy
<1>5. ASSUME NEW p \in Procs, NEW r \in Runs, releaseRunLease(p, r)
      PROVE  Kept \/ releaseRunLease(q, s)
  <2>1. CASE HeldBy(p, r)
    <3>1. ClearLease(r) /\ UNCHANGED status
      BY <1>5, <2>1 DEF releaseRunLease
    <3>2. r = s => p = q
      BY <2>1 DEF HeldBy
    <3> QED BY <1>5, <3>1, <3>2 DEF TypeOK, ClearLease, HeldBy
  <2>2. CASE ~HeldBy(p, r)
    BY <1>5, <2>2 DEF releaseRunLease, HeldBy
  <2> QED BY <2>1, <2>2
<1>6. ASSUME NEW p \in Procs, NEW r \in Runs, terminalizeRun(p, r)
      PROVE  Kept \/ status'[s] \in TerminalStatuses
  <2>1. status' = [status EXCEPT ![r] = prep[r][p].target] /\ ClearLease(r)
    BY <1>6 DEF terminalizeRun
  <2>2. prep[r][p].target \in TerminalStatuses
    BY DEF TypeOK, Preps
  <2> QED BY <2>1, <2>2 DEF TypeOK, ClearLease, HeldBy
<1>7. ASSUME NEW p \in Procs, NEW r \in Runs, terminalizeRunForReplayIntegrityFailure(p, r)
      PROVE  Kept \/ status'[s] \in TerminalStatuses
  <2>1. IntegrityRow(r) \/ UNCHANGED rowVars
    BY <1>7 DEF terminalizeRunForReplayIntegrityFailure
  <2>2. CASE IntegrityRow(r)
    BY <2>2 DEF TypeOK, IntegrityRow, ClearLease, HeldBy
  <2> QED BY <1>1, <2>1, <2>2 DEF rowVars, HeldBy
<1>8. ASSUME NEW p \in Procs, NEW r \in Runs, resumeRecoveredRun(p, r)
      PROVE  Kept \/ resumeRecoveredRun(q, s)
  <2>1. CASE Resumable(p, r)
    <3>1. ResumeRow(r)
      BY <1>8, <2>1 DEF resumeRecoveredRun
    <3>2. r = s => p = q
      BY <2>1 DEF Resumable, HeldBy
    <3> QED BY <1>8, <3>1, <3>2 DEF TypeOK, ResumeRow, ClearLease, HeldBy
  <2>2. CASE ~Resumable(p, r)
    BY <1>8, <2>2 DEF resumeRecoveredRun, rowVars, HeldBy
  <2> QED BY <2>1, <2>2
<1> QED
  BY <1>1, <1>2, <1>3, <1>4, <1>5, <1>6, <1>7, <1>8, RowWriters DEF rowVars, HeldBy

LEMMA FenceStep ==
    /\ TypeOK /\ ProcessState /\ WorkerAlive /\ Fence
    /\ [Next]_vars
    => Fence'
<1> SUFFICES ASSUME TypeOK, ProcessState, WorkerAlive, Fence, [Next]_vars, stalls' = 0,
                    NEW s \in Runs, NEW q \in Procs
             PROVE  /\ exec'[s][q] # "idle" => HeldBy(q, s)' \/ status'[s] \in TerminalStatuses
                    /\ rec'[q] = s => \/ status'[s] \in TerminalStatuses
                                      \/ /\ status'[s] = "running"
                                         /\ HeldBy(q, s)'
                                         /\ \A p \in Procs : exec'[s][p] = "idle"
  BY DEF Fence
<1> USE ConstantsAssumption
<1>0. stalls = 0
  BY StallsGrow
<1>1. ASSUME exec'[s][q] # "idle"
      PROVE  HeldBy(q, s)' \/ status'[s] \in TerminalStatuses
  <2>1. CASE exec[s][q] = "idle"
    <3>1. claimPendingRun(q, s)
      BY <1>1, <2>1, ExecBegins
    <3> QED BY <3>1 DEF TypeOK, claimPendingRun, GrantLease, HeldBy
  <2>2. CASE exec[s][q] # "idle" /\ status[s] \in TerminalStatuses
    BY <2>2, EndedStays
  <2>3. CASE exec[s][q] # "idle" /\ status[s] \notin TerminalStatuses
    <3>1. HeldBy(q, s) /\ alive[q]
      BY <1>0, <2>3 DEF Fence, WorkerAlive
    <3>2. Tended(s)
      BY <2>3, <3>1 DEF Tended, HeldBy
    <3>3. ~releaseRunLease(q, s)
      BY <1>1 DEF TypeOK, releaseRunLease
    <3>4. ~resumeRecoveredRun(q, s)
      BY <1>0, <2>3 DEF Fence, resumeRecoveredRun
    <3> QED BY <3>1, <3>2, <3>3, <3>4, LeaseFate
  <2> QED BY <2>1, <2>2, <2>3
<1>2. ASSUME rec'[q] = s, status'[s] \notin TerminalStatuses
      PROVE  status'[s] = "running" /\ HeldBy(q, s)' /\ \A p \in Procs : exec'[s][p] = "idle"
  <2>0. status[s] \notin TerminalStatuses
    BY <1>2, EndedStays
  <2>1. CASE rec[q] # s
    <3>1. claimRunRecovery(q, s)
      BY <1>2, <2>1, RecoveryBegins
    <3>2. \A p \in Procs : ~HeldBy(p, s)
      BY <3>1 DEF claimRunRecovery, Recoverable, Free, HeldBy
    <3>3. \A p \in Procs : exec[s][p] = "idle"
      BY <1>0, <2>0, <3>2 DEF Fence
    <3> QED BY <3>1, <3>3 DEF TypeOK, claimRunRecovery, Recoverable, GrantLease, HeldBy
  <2>2. CASE rec[q] = s
    <3>1. status[s] = "running" /\ HeldBy(q, s) /\ \A p \in Procs : exec[s][p] = "idle"
      BY <1>0, <2>0, <2>2 DEF Fence
    <3>2. Tended(s)
      BY <2>2, <3>1 DEF Tended, HeldBy, WorkerAlive
    <3>3. ~startClaimedRun(q, s) /\ ~releaseRunLease(q, s)
      BY <3>1 DEF startClaimedRun, releaseRunLease
    <3>4. ~resumeRecoveredRun(q, s)
      BY <1>2 DEF TypeOK, resumeRecoveredRun
    <3>5. HeldBy(q, s)' /\ status'[s] = "running"
      BY <1>2, <3>1, <3>2, <3>3, <3>4, LeaseFate
    <3>6. ASSUME NEW p \in Procs PROVE exec'[s][p] = "idle"
      <4>1. ~claimPendingRun(p, s)
        BY <3>1 DEF claimPendingRun, Claimable
      <4> QED BY <3>1, <4>1, ExecBegins
    <3> QED BY <3>5, <3>6
  <2> QED BY <2>1, <2>2
<1> QED BY <1>1, <1>2

-----------------------------------------------------------------------------
(* The runs in hand.                                                         *)

\* What the claim counts includes every run in hand.
LEMMA WorkingActive ==
    ASSUME TypeOK, TerminalEvidence
    PROVE  Working \subseteq ActiveRuns
BY ConstantsAssumption DEF TypeOK, TerminalEvidence, Working, ActiveRuns, Leased, HeldBy

\* A run comes into hand only by a claim.
LEMMA WorkBegins ==
    ASSUME TypeOK, ProcessState, TerminalEvidence, Fence, [Next]_vars, stalls' = 0,
           NEW s \in Working', s \notin Working
    PROVE  \E p \in Procs : claimPendingRun(p, s)
<1>1. s \in Runs /\ stalls = 0
  BY StallsGrow DEF Working
<1>2. PICK p \in Procs : exec'[s][p] # "idle" /\ HeldBy(p, s)'
  BY DEF Working
<1>3. exec[s][p] # "idle" => status[s] \in TerminalStatuses
  BY <1>1 DEF Fence, Working
<1>4. status[s] \notin TerminalStatuses
  <2> SUFFICES ASSUME status[s] \in TerminalStatuses PROVE FALSE
    OBVIOUS
  <2>1. status'[s] \in TerminalStatuses
    BY <1>1, EndedStays
  <2>2. TerminalEvidence'
    BY EvidenceStep
  <2>3. owner'[s] = NoProc
    BY <1>1, <2>1, <2>2 DEF TerminalEvidence
  <2> QED BY <1>2, <2>3, ConstantsAssumption DEF HeldBy
<1> QED
  BY <1>1, <1>2, <1>3, <1>4, ExecBegins

\* And only one at a time.
LEMMA OneBegins ==
    ASSUME TypeOK, ProcessState, TerminalEvidence, Fence, [Next]_vars, stalls' = 0,
           NEW s \in Working', s \notin Working, NEW t \in Working', t \notin Working
    PROVE  s = t
<1>1. PICK p \in Procs : claimPendingRun(p, s)
  BY WorkBegins
<1>2. PICK q \in Procs : claimPendingRun(q, t)
  BY WorkBegins
<1>3. s \in Runs /\ t \in Runs
  BY DEF Working
<1>4. GrantLease(p, s) /\ GrantLease(q, t) /\ Free(t)
  BY <1>1, <1>2 DEF claimPendingRun, Claimable
<1> QED
  BY <1>3, <1>4, ConstantsAssumption DEF TypeOK, GrantLease, Free

-----------------------------------------------------------------------------
(* Siblings and capacity.                                                    *)

SiblingsApart ==
    stalls = 0 =>
        \A r, s \in Working : r # s /\ TicketOf[r] = TicketOf[s] => r \notin SerialRuns

WithinCapacity ==
    stalls = 0 =>
        /\ Cardinality(Working) <= MaxActiveRuns
        /\ Cardinality(Working \cap LocalRuns) <= LocalModelConcurrency

LEMMA SiblingsStep ==
    /\ TypeOK /\ ProcessState /\ TerminalEvidence /\ Fence /\ SiblingsApart
    /\ [Next]_vars
    => SiblingsApart'
<1> SUFFICES ASSUME TypeOK, ProcessState, TerminalEvidence, Fence, SiblingsApart,
                    [Next]_vars, stalls' = 0,
                    NEW r \in Working', NEW s \in Working',
                    r # s, TicketOf[r] = TicketOf[s]
             PROVE  r \notin SerialRuns
  BY DEF SiblingsApart
<1>1. CASE r \in Working /\ s \in Working
  BY <1>1, StallsGrow DEF SiblingsApart
<1>2. ASSUME NEW u, NEW v, u \in Working', u \notin Working, v \in Working, u # v,
             TicketOf[u] = TicketOf[v]
      PROVE  u \notin SerialRuns /\ v \notin SerialRuns
  <2>1. PICK p \in Procs : claimPendingRun(p, u)
    BY <1>2, WorkBegins
  <2>2. SiblingsAllow(u) /\ v \in ActiveRuns
    BY <1>2, <2>1, WorkingActive DEF claimPendingRun
  <2> QED BY <1>2, <2>2 DEF SiblingsAllow
<1>3. CASE r \notin Working /\ s \in Working
  BY <1>2, <1>3
<1>4. CASE r \in Working /\ s \notin Working
  BY <1>2, <1>4
<1>5. r \in Working \/ s \in Working
  BY OneBegins
<1> QED BY <1>1, <1>3, <1>4, <1>5

LEMMA CapacityStep ==
    /\ TypeOK /\ ProcessState /\ TerminalEvidence /\ Fence /\ WithinCapacity
    /\ [Next]_vars
    => WithinCapacity'
<1> SUFFICES ASSUME TypeOK, ProcessState, TerminalEvidence, Fence, WithinCapacity,
                    [Next]_vars, stalls' = 0
             PROVE  /\ Cardinality(Working') <= MaxActiveRuns
                    /\ Cardinality(Working' \cap LocalRuns) <= LocalModelConcurrency
  BY DEF WithinCapacity
<1> USE ConstantsAssumption
<1>0. /\ Cardinality(Working) <= MaxActiveRuns
      /\ Cardinality(Working \cap LocalRuns) <= LocalModelConcurrency
  BY StallsGrow DEF WithinCapacity
<1>1. IsFiniteSet(Working) /\ IsFiniteSet(ActiveRuns)
  <2>1. Working \subseteq Runs /\ ActiveRuns \subseteq Runs
    BY DEF Working, ActiveRuns
  <2> QED BY <2>1, FS_Subset
<1>2. IsFiniteSet(Working \cap LocalRuns) /\ IsFiniteSet(ActiveRuns \cap LocalRuns)
  BY <1>1, FS_Subset
<1>3. CASE Working' \subseteq Working
  <2>1. Cardinality(Working') <= Cardinality(Working) /\ IsFiniteSet(Working')
    BY <1>1, <1>3, FS_Subset
  <2>2. /\ Cardinality(Working' \cap LocalRuns) <= Cardinality(Working \cap LocalRuns)
        /\ IsFiniteSet(Working' \cap LocalRuns)
    <3>1. Working' \cap LocalRuns \subseteq Working \cap LocalRuns
      BY <1>3
    <3> QED BY <1>2, <3>1, FS_Subset
  <2>3. /\ Cardinality(Working) \in Nat /\ Cardinality(Working') \in Nat
        /\ Cardinality(Working \cap LocalRuns) \in Nat
        /\ Cardinality(Working' \cap LocalRuns) \in Nat
    BY <1>1, <1>2, <2>1, <2>2, FS_CardinalityType
  <2> QED BY <1>0, <2>1, <2>2, <2>3
<1>4. CASE ~(Working' \subseteq Working)
  <2>1. PICK s \in Working' : s \notin Working
    BY <1>4
  <2>2. PICK p \in Procs : claimPendingRun(p, s)
    BY <2>1, WorkBegins
  <2>3. CapacityAvailable(s)
    BY <2>2 DEF claimPendingRun
  <2>4. Working' \subseteq ActiveRuns \cup {s}
    BY <2>1, OneBegins, WorkingActive
  <2>5. /\ Cardinality(ActiveRuns) \in Nat /\ Cardinality(ActiveRuns \cup {s}) \in Nat
        /\ IsFiniteSet(ActiveRuns \cup {s})
        /\ Cardinality(ActiveRuns \cup {s}) <= Cardinality(ActiveRuns) + 1
    <3>1. IsFiniteSet(ActiveRuns \cup {s})
      BY <1>1, FS_AddElement
    <3>2. Cardinality(ActiveRuns) \in Nat /\ Cardinality(ActiveRuns \cup {s}) \in Nat
      BY <1>1, <3>1, FS_CardinalityType
    <3> QED BY <1>1, <3>1, <3>2, FS_AddElement
  <2>6. Cardinality(Working') \in Nat /\ Cardinality(Working') <= Cardinality(ActiveRuns) + 1
    <3>1. IsFiniteSet(Working') /\ Cardinality(Working') <= Cardinality(ActiveRuns \cup {s})
      BY <2>4, <2>5, FS_Subset
    <3>2. Cardinality(Working') \in Nat
      BY <3>1, FS_CardinalityType
    <3> QED BY <2>5, <3>1, <3>2
  <2>7. Cardinality(Working') <= MaxActiveRuns
    BY <2>3, <2>5, <2>6 DEF CapacityAvailable
  <2>8. Cardinality(Working' \cap LocalRuns) <= LocalModelConcurrency
    <3> DEFINE A == ActiveRuns \cap LocalRuns
               W == Working' \cap LocalRuns
    <3>1. CASE s \in LocalRuns
      <4>1. W \subseteq A \cup {s}
        BY <2>4
      <4>2. IsFiniteSet(A) /\ Cardinality(A) < LocalModelConcurrency
        BY <1>2, <2>3, <3>1 DEF CapacityAvailable
      <4> HIDE DEF A, W
      <4>3. IsFiniteSet(A \cup {s}) /\ Cardinality(A) \in Nat
        BY <4>2, FS_AddElement, FS_CardinalityType
      <4>4. Cardinality(A \cup {s}) \in Nat /\ Cardinality(A \cup {s}) <= Cardinality(A) + 1
        <5>1. Cardinality(A \cup {s}) \in Nat
          BY <4>3, FS_CardinalityType
        <5> QED BY <4>2, <4>3, <5>1, FS_AddElement
      <4>5. IsFiniteSet(W) /\ Cardinality(W) <= Cardinality(A \cup {s})
        BY <4>1, <4>3, FS_Subset
      <4>6. Cardinality(W) \in Nat
        BY <4>5, FS_CardinalityType
      <4>7. Cardinality(W) <= LocalModelConcurrency
        BY <4>2, <4>3, <4>4, <4>5, <4>6
      <4> QED BY <4>7 DEF W
    <3>2. CASE s \notin LocalRuns
      <4>1. Working' \cap LocalRuns \subseteq Working \cap LocalRuns
        BY <2>1, <3>2, OneBegins
      <4>2. /\ IsFiniteSet(Working' \cap LocalRuns)
            /\ Cardinality(Working' \cap LocalRuns) <= Cardinality(Working \cap LocalRuns)
        BY <1>2, <4>1, FS_Subset
      <4>3. /\ Cardinality(Working \cap LocalRuns) \in Nat
            /\ Cardinality(Working' \cap LocalRuns) \in Nat
        BY <1>2, <4>2, FS_CardinalityType
      <4> QED BY <1>0, <4>2, <4>3
    <3> QED BY <3>1, <3>2
  <2> QED BY <2>7, <2>8
<1> QED BY <1>3, <1>4

\* The inductive invariant of this module.
ConcurrencyInv == WorkerAlive /\ Fence /\ SiblingsApart /\ WithinCapacity

LEMMA ConcurrencyInvariant == Spec => []ConcurrencyInv
<1>1. Init => ConcurrencyInv
  <2> SUFFICES ASSUME Init PROVE ConcurrencyInv
    OBVIOUS
  <2>1. WorkerAlive /\ Fence
    BY ConstantsAssumption DEF Init, WorkerAlive, Fence
  <2>2. Working = {} /\ Working \cap LocalRuns = {}
    BY DEF Init, Working
  <2>3. SiblingsApart
    BY <2>2 DEF SiblingsApart
  <2>4. WithinCapacity
    BY <2>2, FS_EmptySet, ConstantsAssumption DEF WithinCapacity
  <2> QED BY <2>1, <2>3, <2>4 DEF ConcurrencyInv
<1>2. TypeOK /\ ProcessState /\ TerminalEvidence /\ ConcurrencyInv /\ [Next]_vars
          => ConcurrencyInv'
  BY AliveStep, FenceStep, SiblingsStep, CapacityStep DEF ConcurrencyInv
<1> QED
  BY <1>1, <1>2, TypeCorrect, ProcessStateInvariant, EvidenceMatchesRow, PTL DEF Spec

\* Runs of one ticket of which one forbids parallel runs never execute at the
\* same time, though the claim looks at siblings and the recovery does not.
THEOREM SiblingsExclusive == Spec => []SerialSiblingsExclusive
<1>1. ConcurrencyInv => SerialSiblingsExclusive
  BY DEF ConcurrencyInv, SiblingsApart, SerialSiblingsExclusive, Executing, Working
<1> QED
  BY <1>1, ConcurrencyInvariant, PTL

\* The deployment never executes more runs than its limits allow.
THEOREM CapacityHolds == Spec => []ConcurrencyBounded
<1>1. ConcurrencyInv => ConcurrencyBounded
  <2> SUFFICES ASSUME ConcurrencyInv, stalls = 0 PROVE ConcurrencyBounded
    BY DEF ConcurrencyBounded
  <2> USE ConstantsAssumption
  <2> DEFINE E == {r \in Runs : Executing(r)}
             L == {r \in LocalRuns : Executing(r)}
  <2>1. E \subseteq Working /\ L \subseteq Working \cap LocalRuns
    BY DEF Executing, Working
  <2>2. IsFiniteSet(Working) /\ IsFiniteSet(Working \cap LocalRuns)
    <3>1. Working \subseteq Runs
      BY DEF Working
    <3> QED BY <3>1, FS_Subset
  <2> HIDE DEF E, L
  <2>3. /\ IsFiniteSet(E) /\ Cardinality(E) <= Cardinality(Working)
        /\ IsFiniteSet(L) /\ Cardinality(L) <= Cardinality(Working \cap LocalRuns)
    BY <2>1, <2>2, FS_Subset
  <2>4. /\ Cardinality(E) \in Nat /\ Cardinality(L) \in Nat
        /\ Cardinality(Working) \in Nat /\ Cardinality(Working \cap LocalRuns) \in Nat
    BY <2>2, <2>3, FS_CardinalityType
  <2>5. Cardinality(E) <= MaxActiveRuns /\ Cardinality(L) <= LocalModelConcurrency
    BY <2>3, <2>4 DEF ConcurrencyInv, WithinCapacity
  <2> QED BY <2>5 DEF E, L, ConcurrencyBounded
<1> QED
  BY <1>1, ConcurrencyInvariant, PTL
=============================================================================
