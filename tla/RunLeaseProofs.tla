--------------------------- MODULE RunLeaseProofs ---------------------------
(***************************************************************************)
(* Theorems about RunLease for every set of runs and processes and every   *)
(* value of the limits and bounds.                                         *)
(***************************************************************************)
EXTENDS RunLease, TLAPS

USE DEF RunStatuses, TerminalStatuses, ActiveStatuses, ExecStates

\* The value commitRunTerminalization keeps between its read and its commit has
\* its type whoever called it.
LEMMA PrepRecordType ==
    ASSUME TypeOK, NEW p \in Procs, NEW r \in Runs, NEW by \in Callers,
           NEW target \in TerminalStatuses, NEW e \in BOOLEAN
    PROVE  PrepRecord(p, r, by, target, e) \in Preps
BY DEF TypeOK, PrepRecord, Preps, Callers

LEMMA NoPrepType == NoPrep \in Preps
BY DEF NoPrep, Preps, Callers

LEMMA ClockSaysExpiredType ==
    ASSUME NEW r \in Runs
    PROVE  ClockSaysExpired(r) \subseteq BOOLEAN
BY DEF ClockSaysExpired

LEMMA RecoveryEndsType ==
    ASSUME TypeOK, NEW p \in Procs, NEW r \in Runs
    PROVE  RecoveryEnds(p, r) \subseteq Preps
<1> SUFFICES ASSUME NEW d \in RecoveryEnds(p, r) PROVE d \in Preps
  OBVIOUS
<1>1. CASE d = PrepRecord(p, r, "recovery", "failed", FALSE)
  BY <1>1, PrepRecordType DEF Callers, TerminalStatuses
<1>2. ASSUME NEW e \in ClockSaysExpired(r),
             d = PrepRecord(p, r, "recovery", "interrupted", e)
      PROVE  d \in Preps
  <2>1. e \in BOOLEAN
    BY ClockSaysExpiredType
  <2> QED
    BY <1>2, <2>1, PrepRecordType DEF Callers, TerminalStatuses
<1> QED
  BY <1>1, <1>2 DEF RecoveryEnds

\* One step of any action keeps the types.
LEMMA TypeStep == TypeOK /\ [Next]_vars => TypeOK'
<1> SUFFICES ASSUME TypeOK, [Next]_vars PROVE TypeOK'
  OBVIOUS
<1> USE ConstantsAssumption, NoPrepType
<1>1. ASSUME NEW p \in Procs, NEW r \in Runs, claimPendingRun(p, r) PROVE TypeOK'
  BY <1>1 DEF TypeOK, claimPendingRun, GrantLease, evidVars
<1>2. ASSUME NEW p \in Procs, NEW r \in Runs, releaseRunLease(p, r) PROVE TypeOK'
  <2>1. CASE HeldBy(p, r)
    <3>1. ClearLease(r) /\ faults' \in 0..MaxFaults
      BY <1>2, <2>1 DEF TypeOK, releaseRunLease, Fault
    <3> QED
      BY <1>2, <3>1 DEF TypeOK, releaseRunLease, ClearLease, evidVars
  <2>2. CASE ~HeldBy(p, r)
    BY <1>2, <2>2 DEF TypeOK, releaseRunLease, Fault, evidVars
  <2> QED BY <2>1, <2>2
<1>3. ASSUME NEW p \in Procs, NEW r \in Runs, startClaimedRun(p, r) PROVE TypeOK'
  BY <1>3 DEF TypeOK, startClaimedRun, evidVars
<1>4. ASSUME NEW p \in Procs, NEW r \in Runs,
             skipClaimedRun(p, r) \/ loseRunLease(p, r) \/ observeCorruption(p, r)
      PROVE  TypeOK'
  <2>1. CASE skipClaimedRun(p, r)
    BY <2>1 DEF TypeOK, skipClaimedRun, rowVars, evidVars
  <2>2. CASE loseRunLease(p, r)
    BY <2>2 DEF TypeOK, loseRunLease, rowVars, evidVars
  <2>3. CASE observeCorruption(p, r)
    BY <2>3 DEF TypeOK, observeCorruption, rowVars, evidVars
  <2> QED BY <1>4, <2>1, <2>2, <2>3
<1>5. ASSUME NEW p \in Procs, NEW r \in Runs, stopForRecovery(p, r) PROVE TypeOK'
  BY <1>5 DEF TypeOK, stopForRecovery, Fault, rowVars, evidVars
<1>6. ASSUME NEW p \in Procs, NEW r \in Runs,
             prepareTargetOperation(p, r) \/ completeTargetOperation(p, r)
      PROVE  TypeOK'
  <2>1. CASE prepareTargetOperation(p, r)
    BY <2>1 DEF TypeOK, prepareTargetOperation, rowVars, procVars
  <2>2. CASE completeTargetOperation(p, r)
    BY <2>2 DEF TypeOK, completeTargetOperation, rowVars, procVars
  <2> QED BY <1>6, <2>1, <2>2
<1>7. ASSUME NEW p \in Procs, NEW r \in Runs, completeAgentRun(p, r) PROVE TypeOK'
  <2>1. \A t \in TerminalStatuses : PrepRecord(p, r, "loop", t, FALSE) \in Preps
    BY PrepRecordType DEF Callers
  <2>2. CASE replay[r] = "corrupt"
    <3>1. exec' = [exec EXCEPT ![r][p] = "integrity"] /\ UNCHANGED prep
      BY <1>7, <2>2 DEF completeAgentRun
    <3> QED
      BY <1>7, <3>1 DEF TypeOK, completeAgentRun, rowVars, evidVars
  <2>3. CASE replay[r] # "corrupt"
    <3>1. UNCHANGED exec
      BY <1>7, <2>3 DEF completeAgentRun
    <3>2. PICK t \in {"completed", "failed"} :
            prep' = [prep EXCEPT ![r][p] = PrepRecord(p, r, "loop", t, FALSE)]
      BY <1>7, <2>3 DEF completeAgentRun
    <3>3. prep' \in [Runs -> [Procs -> Preps]] /\ exec' \in [Runs -> [Procs -> ExecStates]]
      BY <2>1, <3>1, <3>2 DEF TypeOK
    <3> QED
      BY <1>7, <3>3 DEF TypeOK, completeAgentRun, rowVars, evidVars
  <2> QED BY <2>2, <2>3
<1>8. ASSUME NEW p \in Procs, NEW r \in Runs, failAgentRun(p, r) PROVE TypeOK'
  <2>1. \A t \in TerminalStatuses : PrepRecord(p, r, "catch", t, FALSE) \in Preps
    BY PrepRecordType DEF Callers
  <2>2. CASE replay[r] = "corrupt"
    <3>1. exec' = [exec EXCEPT ![r][p] = "idle"] /\ UNCHANGED prep
      BY <1>8, <2>2 DEF failAgentRun
    <3> QED
      BY <1>8, <3>1 DEF TypeOK, failAgentRun, rowVars, evidVars
  <2>3. CASE replay[r] # "corrupt"
    <3>1. exec' = [exec EXCEPT ![r][p] = "failing"]
      BY <1>8, <2>3 DEF failAgentRun
    <3>2. prep' = [prep EXCEPT ![r][p] = PrepRecord(p, r, "catch", "failed", FALSE)]
      BY <1>8, <2>3 DEF failAgentRun
    <3>3. prep' \in [Runs -> [Procs -> Preps]] /\ exec' \in [Runs -> [Procs -> ExecStates]]
      BY <2>1, <3>1, <3>2 DEF TypeOK
    <3> QED
      BY <1>8, <3>3 DEF TypeOK, failAgentRun, rowVars, evidVars
  <2> QED BY <2>2, <2>3
<1>9. ASSUME NEW p \in Procs, NEW r \in Runs, stopAgentRun(p, r) PROVE TypeOK'
  <2>1. prep' \in [Runs -> [Procs -> Preps]]
    BY <1>9, PrepRecordType, ClockSaysExpiredType DEF TypeOK, stopAgentRun, Callers
  <2> QED
    BY <1>9, <2>1 DEF TypeOK, stopAgentRun, Fault, rowVars, evidVars
<1>10. ASSUME NEW p \in Procs, NEW r \in Runs, terminalizeRun(p, r) PROVE TypeOK'
  <2>1. prep[r][p].target \in TerminalStatuses
    BY DEF TypeOK, Preps
  <2>2. exec' \in [Runs -> [Procs -> ExecStates]] /\ rec' \in [Procs -> Runs \cup {NoRun}]
    BY <1>10, <2>1 DEF TypeOK, terminalizeRun
  <2> QED
    BY <1>10, <2>1, <2>2 DEF TypeOK, terminalizeRun, ClearLease
<1>11. ASSUME NEW p \in Procs, NEW r \in Runs, refuseTerminalization(p, r) PROVE TypeOK'
  <2>1. CatchBlockRoute(r) \in ExecStates
    BY DEF CatchBlockRoute
  <2>2. exec' \in [Runs -> [Procs -> ExecStates]] /\ rec' \in [Procs -> Runs \cup {NoRun}]
    BY <1>11, <2>1 DEF TypeOK, refuseTerminalization
  <2> QED
    BY <1>11, <2>2 DEF TypeOK, refuseTerminalization, rowVars, evidVars
<1>12. ASSUME NEW p \in Procs, NEW r \in Runs,
              terminalizeRunForReplayIntegrityFailure(p, r)
       PROVE  TypeOK'
  <2>1. CASE IntegrityRow(r) /\ integrity' = [integrity EXCEPT ![r] = TRUE]
    BY <1>12, <2>1 DEF TypeOK, terminalizeRunForReplayIntegrityFailure, IntegrityRow, ClearLease
  <2>2. CASE UNCHANGED <<rowVars, integrity>>
    BY <1>12, <2>2 DEF TypeOK, terminalizeRunForReplayIntegrityFailure, rowVars
  <2> QED
    BY <1>12, <2>1, <2>2 DEF terminalizeRunForReplayIntegrityFailure
<1>13. ASSUME NEW p \in Procs, NEW r \in Runs, claimRunRecovery(p, r) PROVE TypeOK'
  BY <1>13 DEF TypeOK, claimRunRecovery, GrantLease, evidVars
<1>14. ASSUME NEW p \in Procs, NEW r \in Runs, reconcilePreparedTargetOperations(p, r)
       PROVE  TypeOK'
  BY <1>14 DEF TypeOK, reconcilePreparedTargetOperations, rowVars, procVars
<1>15. ASSUME NEW p \in Procs, NEW r \in Runs, resumeRecoveredRun(p, r) PROVE TypeOK'
  <2>1. CASE Resumable(p, r)
    <3>1. ResumeRow(r)
      BY <1>15, <2>1 DEF resumeRecoveredRun
    <3> QED
      BY <1>15, <3>1 DEF TypeOK, resumeRecoveredRun, ResumeRow, ClearLease, evidVars
  <2>2. CASE ~Resumable(p, r)
    BY <1>15, <2>2 DEF TypeOK, resumeRecoveredRun, rowVars, evidVars
  <2> QED BY <2>1, <2>2
<1>16. ASSUME NEW p \in Procs, NEW r \in Runs, endRecoveredRun(p, r) PROVE TypeOK'
  <2>1. RecoveryEnds(p, r) \subseteq Preps
    BY RecoveryEndsType
  <2>2. CASE replay[r] = "corrupt"
    <3>1. rec' = [rec EXCEPT ![p] = NoRun] /\ UNCHANGED prep
      BY <1>16, <2>2, Zenon DEF endRecoveredRun
    <3> QED
      BY <1>16, <3>1 DEF TypeOK, endRecoveredRun, rowVars, evidVars
  <2>3. CASE replay[r] # "corrupt"
    <3>1. PICK d \in RecoveryEnds(p, r) : prep' = [prep EXCEPT ![r][p] = d]
      BY <1>16, <2>3 DEF endRecoveredRun
    <3>2. prep' \in [Runs -> [Procs -> Preps]] /\ UNCHANGED rec
      BY <1>16, <2>1, <2>3, <3>1 DEF TypeOK, endRecoveredRun
    <3> QED
      BY <1>16, <3>2 DEF TypeOK, endRecoveredRun, rowVars, evidVars
  <2> QED BY <2>2, <2>3
<1>17. ASSUME NEW r \in Runs, expireLease(r) \/ corruptReplay(r) PROVE TypeOK'
  <2>1. CASE expireLease(r)
    <3>1. stalls' \in 0..MaxStalls
      BY <2>1 DEF TypeOK, expireLease
    <3> QED
      BY <2>1, <3>1 DEF TypeOK, expireLease, evidVars
  <2>2. CASE corruptReplay(r)
    BY <2>2 DEF TypeOK, corruptReplay, rowVars, procVars
  <2> QED BY <1>17, <2>1, <2>2
<1>18. ASSUME NEW p \in Procs, crash(p) PROVE TypeOK'
  BY <1>18 DEF TypeOK, crash, Fault, rowVars, evidVars
<1>19. CASE UNCHANGED vars
  BY <1>19 DEF TypeOK, vars
<1> QED
  BY <1>1, <1>2, <1>3, <1>4, <1>5, <1>6, <1>7, <1>8, <1>9, <1>10, <1>11, <1>12, <1>13,
     <1>14, <1>15, <1>16, <1>17, <1>18, <1>19 DEF Next, allSettled

\* The lease columns are set and cleared together and every variable keeps its
\* type, whatever the number of runs, processes and faults.
THEOREM TypeCorrect == Spec => []TypeOK
<1>1. Init => TypeOK
  BY ConstantsAssumption, NoPrepType DEF Init, TypeOK
<1> QED
  BY <1>1, TypeStep, PTL DEF Spec

-----------------------------------------------------------------------------
(* Row and evidence agree: TerminalEvidence is inductive over the types.     *)

LEMMA EvidenceStep == TypeOK /\ TerminalEvidence /\ [Next]_vars => TerminalEvidence'
<1> SUFFICES ASSUME TypeOK, TerminalEvidence, [Next]_vars PROVE TerminalEvidence'
  OBVIOUS
<1> USE ConstantsAssumption
\* Most actions touch neither the row's status and owner nor the evidence.
<1>1. ASSUME UNCHANGED <<status, owner, terminalized, integrity, replay>>
      PROVE  TerminalEvidence'
  BY <1>1 DEF TerminalEvidence
<1>2. ASSUME NEW p \in Procs, NEW r \in Runs,
             \/ skipClaimedRun(p, r)
             \/ loseRunLease(p, r)
             \/ stopForRecovery(p, r)
             \/ prepareTargetOperation(p, r)
             \/ completeTargetOperation(p, r)
             \/ observeCorruption(p, r)
             \/ completeAgentRun(p, r)
             \/ failAgentRun(p, r)
             \/ stopAgentRun(p, r)
             \/ refuseTerminalization(p, r)
             \/ reconcilePreparedTargetOperations(p, r)
             \/ endRecoveredRun(p, r)
      PROVE  TerminalEvidence'
  <2>1. UNCHANGED <<status, owner, terminalized, integrity, replay>>
    BY <1>2, Zenon DEF skipClaimedRun, loseRunLease, stopForRecovery, prepareTargetOperation,
       completeTargetOperation, observeCorruption, completeAgentRun, failAgentRun,
       stopAgentRun, refuseTerminalization, reconcilePreparedTargetOperations,
       endRecoveredRun, rowVars, evidVars
  <2> QED BY <1>1, <2>1
<1>3. ASSUME NEW p \in Procs, crash(p) PROVE TerminalEvidence'
  BY <1>1, <1>3 DEF crash, rowVars, evidVars
<1>4. ASSUME NEW r \in Runs, expireLease(r) PROVE TerminalEvidence'
  BY <1>1, <1>4 DEF expireLease, evidVars
<1>5. ASSUME NEW r \in Runs, corruptReplay(r) PROVE TerminalEvidence'
  BY <1>5 DEF TypeOK, TerminalEvidence, corruptReplay, rowVars
\* A claim and a recovery touch the owner of a run that has not ended.
<1>6. ASSUME NEW p \in Procs, NEW r \in Runs, claimPendingRun(p, r) PROVE TerminalEvidence'
  BY <1>6 DEF TypeOK, TerminalEvidence, claimPendingRun, Claimable, GrantLease, evidVars
<1>7. ASSUME NEW p \in Procs, NEW r \in Runs, claimRunRecovery(p, r) PROVE TerminalEvidence'
  BY <1>7 DEF TypeOK, TerminalEvidence, claimRunRecovery, Recoverable, GrantLease, evidVars
<1>8. ASSUME NEW p \in Procs, NEW r \in Runs, releaseRunLease(p, r) PROVE TerminalEvidence'
  <2>1. CASE HeldBy(p, r)
    <3>1. ClearLease(r) /\ UNCHANGED <<status, terminalized, integrity, replay>>
      BY <1>8, <2>1 DEF releaseRunLease, evidVars
    <3> QED
      BY <3>1 DEF TypeOK, TerminalEvidence, ClearLease
  <2>2. CASE ~HeldBy(p, r)
    BY <1>1, <1>8, <2>2 DEF releaseRunLease, evidVars
  <2> QED BY <2>1, <2>2
<1>9. ASSUME NEW p \in Procs, NEW r \in Runs, startClaimedRun(p, r) PROVE TerminalEvidence'
  BY <1>9 DEF TypeOK, TerminalEvidence, startClaimedRun, evidVars
<1>10. ASSUME NEW p \in Procs, NEW r \in Runs, resumeRecoveredRun(p, r) PROVE TerminalEvidence'
  <2>1. CASE Resumable(p, r)
    <3>1. ResumeRow(r) /\ status[r] = "running" /\ UNCHANGED <<terminalized, integrity, replay>>
      BY <1>10, <2>1 DEF resumeRecoveredRun, Resumable, evidVars
    <3> QED
      BY <3>1 DEF TypeOK, TerminalEvidence, ResumeRow, ClearLease
  <2>2. CASE ~Resumable(p, r)
    BY <1>1, <1>10, <2>2 DEF resumeRecoveredRun, rowVars, evidVars
  <2> QED BY <2>1, <2>2
\* The two steps that end a run.
<1>11. ASSUME NEW p \in Procs, NEW r \in Runs, terminalizeRun(p, r) PROVE TerminalEvidence'
  <2>1. prep[r][p].target \in TerminalStatuses
    BY DEF TypeOK, Preps
  <2>2. status[r] \in ActiveStatuses
    BY <1>11 DEF terminalizeRun, TransitionAllowed
  <2> QED
    BY <1>11, <2>1, <2>2 DEF TypeOK, TerminalEvidence, terminalizeRun, ClearLease
<1>12. ASSUME NEW p \in Procs, NEW r \in Runs, terminalizeRunForReplayIntegrityFailure(p, r)
       PROVE  TerminalEvidence'
  <2>1. CASE IntegrityRow(r) /\ integrity' = [integrity EXCEPT ![r] = TRUE]
    BY <1>12, <2>1 DEF TypeOK, TerminalEvidence, terminalizeRunForReplayIntegrityFailure,
       IntegrityRow, ClearLease
  <2>2. CASE UNCHANGED <<rowVars, integrity>>
    BY <1>1, <1>12, <2>2 DEF terminalizeRunForReplayIntegrityFailure, rowVars
  <2> QED
    BY <1>12, <2>1, <2>2 DEF terminalizeRunForReplayIntegrityFailure
<1>13. CASE UNCHANGED vars
  BY <1>1, <1>13 DEF vars
<1> QED
  BY <1>2, <1>3, <1>4, <1>5, <1>6, <1>7, <1>8, <1>9, <1>10, <1>11, <1>12, <1>13
     DEF Next, allSettled

\* The row of a run and its evidence always agree: an active run carries no
\* run.terminalized event and no integrity disposition, an ended run holds no
\* lease and its event names its status or the integrity path ended it.
THEOREM EvidenceMatchesRow == Spec => []TerminalEvidence
<1>1. Init => TerminalEvidence
  BY DEF Init, TerminalEvidence
<1> QED
  BY <1>1, EvidenceStep, TypeCorrect, PTL DEF Spec

-----------------------------------------------------------------------------
(* What a process knows of itself: the strengthening the rest needs.         *)

\* A commit started by the execution loop belongs to an execution in progress,
\* nobody else asks for "completed", and the integrity path is entered only by a
\* process that met a damaged replay.
ProcessState ==
    \A r \in Runs, p \in Procs :
        /\ prep[r][p].by = "loop" => exec[r][p] = "executing"
        /\ prep[r][p].target = "completed" => prep[r][p].by = "loop"
        /\ exec[r][p] = "integrity" => replay[r] = "corrupt"

LEMMA ProcessStep == TypeOK /\ ProcessState /\ [Next]_vars => ProcessState'
<1> SUFFICES ASSUME TypeOK, ProcessState, [Next]_vars PROVE ProcessState'
  OBVIOUS
<1> USE DEF NoPrep
<1>1. ASSUME NEW p \in Procs, NEW r \in Runs,
             \/ prepareTargetOperation(p, r)
             \/ completeTargetOperation(p, r)
             \/ claimRunRecovery(p, r)
             \/ reconcilePreparedTargetOperations(p, r)
             \/ resumeRecoveredRun(p, r)
      PROVE  ProcessState'
  <2>1. UNCHANGED <<prep, exec, replay>>
    BY <1>1, Zenon DEF prepareTargetOperation, completeTargetOperation, claimRunRecovery,
       reconcilePreparedTargetOperations, resumeRecoveredRun, procVars, evidVars
  <2> QED BY <2>1 DEF ProcessState
<1>2. ASSUME NEW r \in Runs, expireLease(r) PROVE ProcessState'
  BY <1>2 DEF ProcessState, expireLease, evidVars
<1>3. ASSUME NEW r \in Runs, corruptReplay(r) PROVE ProcessState'
  BY <1>3 DEF TypeOK, ProcessState, corruptReplay, procVars
<1>4. ASSUME NEW p \in Procs, crash(p) PROVE ProcessState'
  BY <1>4 DEF TypeOK, ProcessState, crash, evidVars
\* Steps that leave an execution which is not ending the run.
<1>5. ASSUME NEW p \in Procs, NEW r \in Runs, claimPendingRun(p, r) PROVE ProcessState'
  BY <1>5 DEF TypeOK, ProcessState, claimPendingRun, evidVars
<1>6. ASSUME NEW p \in Procs, NEW r \in Runs, releaseRunLease(p, r) PROVE ProcessState'
  <2>1. exec[r][p] = "claimed" /\ exec' = [exec EXCEPT ![r][p] = "idle"] /\ UNCHANGED <<prep, replay>>
    BY <1>6 DEF releaseRunLease, evidVars
  <2> QED BY <2>1 DEF TypeOK, ProcessState
<1>7. ASSUME NEW p \in Procs, NEW r \in Runs, startClaimedRun(p, r) PROVE ProcessState'
  BY <1>7 DEF TypeOK, ProcessState, startClaimedRun, evidVars
<1>8. ASSUME NEW p \in Procs, NEW r \in Runs, skipClaimedRun(p, r) PROVE ProcessState'
  <2>1. exec[r][p] = "claimed" /\ exec' = [exec EXCEPT ![r][p] = "idle"] /\ UNCHANGED <<prep, replay>>
    BY <1>8 DEF skipClaimedRun, evidVars
  <2> QED BY <2>1 DEF TypeOK, ProcessState
<1>9. ASSUME NEW p \in Procs, NEW r \in Runs, loseRunLease(p, r) \/ stopForRecovery(p, r)
      PROVE  ProcessState'
  <2>1. /\ prep[r][p].by # "loop"
        /\ exec' = [exec EXCEPT ![r][p] = "idle"]
        /\ UNCHANGED <<prep, replay>>
    BY <1>9 DEF loseRunLease, stopForRecovery, evidVars
  <2> QED BY <2>1 DEF TypeOK, ProcessState
<1>10. ASSUME NEW p \in Procs, NEW r \in Runs, observeCorruption(p, r) PROVE ProcessState'
  BY <1>10 DEF TypeOK, ProcessState, observeCorruption, evidVars
\* Steps that begin a commit, under the ticket's transition lock.
<1>11. ASSUME NEW p \in Procs, NEW r \in Runs, completeAgentRun(p, r) PROVE ProcessState'
  <2>1. prep[r][p].by = "none" /\ exec[r][p] = "executing" /\ UNCHANGED replay
    BY <1>11 DEF completeAgentRun, TicketLockFree, evidVars
  <2>2. CASE replay[r] = "corrupt"
    <3>1. exec' = [exec EXCEPT ![r][p] = "integrity"] /\ UNCHANGED prep
      BY <1>11, <2>2 DEF completeAgentRun
    <3> QED BY <2>1, <2>2, <3>1 DEF TypeOK, ProcessState
  <2>3. CASE replay[r] # "corrupt"
    <3>1. UNCHANGED exec
      BY <1>11, <2>3 DEF completeAgentRun
    <3>2. PICK t \in {"completed", "failed"} :
            prep' = [prep EXCEPT ![r][p] = PrepRecord(p, r, "loop", t, FALSE)]
      BY <1>11, <2>3 DEF completeAgentRun
    <3> QED BY <2>1, <3>1, <3>2 DEF TypeOK, ProcessState, PrepRecord
  <2> QED BY <2>2, <2>3
<1>12. ASSUME NEW p \in Procs, NEW r \in Runs, failAgentRun(p, r) PROVE ProcessState'
  <2>1. prep[r][p].by = "none" /\ UNCHANGED replay
    BY <1>12 DEF failAgentRun, TicketLockFree, evidVars
  <2>2. CASE replay[r] = "corrupt"
    <3>1. exec' = [exec EXCEPT ![r][p] = "idle"] /\ UNCHANGED prep
      BY <1>12, <2>2 DEF failAgentRun
    <3> QED BY <2>1, <3>1 DEF TypeOK, ProcessState
  <2>3. CASE replay[r] # "corrupt"
    <3>1. /\ exec' = [exec EXCEPT ![r][p] = "failing"]
          /\ prep' = [prep EXCEPT ![r][p] = PrepRecord(p, r, "catch", "failed", FALSE)]
      BY <1>12, <2>3 DEF failAgentRun
    <3> QED BY <2>1, <3>1 DEF TypeOK, ProcessState, PrepRecord
  <2> QED BY <2>2, <2>3
<1>13. ASSUME NEW p \in Procs, NEW r \in Runs, stopAgentRun(p, r) PROVE ProcessState'
  <2>1. PICK e \in ClockSaysExpired(r) :
          prep' = [prep EXCEPT ![r][p] = PrepRecord(p, r, "operator", "interrupted", e)]
    BY <1>13 DEF stopAgentRun
  <2>2. UNCHANGED <<exec, replay>>
    BY <1>13 DEF stopAgentRun, evidVars
  <2> QED BY <2>1, <2>2 DEF TypeOK, ProcessState, PrepRecord
<1>14. ASSUME NEW p \in Procs, NEW r \in Runs, endRecoveredRun(p, r) PROVE ProcessState'
  <2>1. UNCHANGED <<exec, replay>>
    BY <1>14 DEF endRecoveredRun, evidVars
  <2>2. CASE replay[r] = "corrupt"
    <3>1. UNCHANGED prep
      BY <1>14, <2>2, Zenon DEF endRecoveredRun
    <3> QED BY <2>1, <3>1 DEF ProcessState
  <2>3. CASE replay[r] # "corrupt"
    <3>1. PICK d \in RecoveryEnds(p, r) : prep' = [prep EXCEPT ![r][p] = d]
      BY <1>14, <2>3 DEF endRecoveredRun
    <3>2. d.by = "recovery" /\ d.target # "completed"
      BY <3>1 DEF RecoveryEnds, PrepRecord
    <3> QED BY <2>1, <3>1, <3>2 DEF TypeOK, ProcessState
  <2> QED BY <2>2, <2>3
\* Steps that end a commit.
<1>15. ASSUME NEW p \in Procs, NEW r \in Runs, terminalizeRun(p, r) PROVE ProcessState'
  <2>1. /\ replay[r] = "open"
        /\ replay' = [replay EXCEPT ![r] = "finalized"]
        /\ prep' = [prep EXCEPT ![r][p] = NoPrep]
    BY <1>15 DEF terminalizeRun
  <2>2. exec' = exec \/ exec' = [exec EXCEPT ![r][p] = "idle"]
    BY <1>15 DEF terminalizeRun
  <2>3. CASE exec' = exec
    BY <2>1, <2>3 DEF TypeOK, ProcessState
  <2>4. CASE exec' = [exec EXCEPT ![r][p] = "idle"]
    BY <2>1, <2>4 DEF TypeOK, ProcessState
  <2> QED BY <2>2, <2>3, <2>4
<1>16. ASSUME NEW p \in Procs, NEW r \in Runs, refuseTerminalization(p, r) PROVE ProcessState'
  <2>1. prep' = [prep EXCEPT ![r][p] = NoPrep] /\ UNCHANGED replay
    BY <1>16 DEF refuseTerminalization, evidVars
  <2>2. \/ exec' = exec
        \/ exec' = [exec EXCEPT ![r][p] = "idle"]
        \/ exec' = [exec EXCEPT ![r][p] = CatchBlockRoute(r)]
    BY <1>16 DEF refuseTerminalization
  <2>3. CASE exec' = exec
    BY <2>1, <2>3 DEF TypeOK, ProcessState
  <2>4. CASE exec' = [exec EXCEPT ![r][p] = "idle"]
    BY <2>1, <2>4 DEF TypeOK, ProcessState
  <2>5. CASE exec' = [exec EXCEPT ![r][p] = CatchBlockRoute(r)]
    BY <2>1, <2>5 DEF TypeOK, ProcessState, CatchBlockRoute
  <2> QED BY <2>2, <2>3, <2>4, <2>5
<1>17. ASSUME NEW p \in Procs, NEW r \in Runs, terminalizeRunForReplayIntegrityFailure(p, r)
       PROVE  ProcessState'
  <2>1. /\ exec[r][p] = "integrity"
        /\ exec' = [exec EXCEPT ![r][p] = "idle"]
        /\ UNCHANGED <<prep, replay>>
    BY <1>17 DEF terminalizeRunForReplayIntegrityFailure
  <2> QED BY <2>1 DEF TypeOK, ProcessState
<1>18. CASE UNCHANGED vars
  BY <1>18 DEF ProcessState, vars
<1> QED
  BY <1>1, <1>2, <1>3, <1>4, <1>5, <1>6, <1>7, <1>8, <1>9, <1>10, <1>11, <1>12, <1>13,
     <1>14, <1>15, <1>16, <1>17, <1>18 DEF Next, allSettled

LEMMA ProcessStateInvariant == Spec => []ProcessState
<1>1. Init => ProcessState
  BY DEF Init, ProcessState, NoPrep
<1> QED
  BY <1>1, ProcessStep, TypeCorrect, PTL DEF Spec

-----------------------------------------------------------------------------
(* What a step does to one row.                                              *)

\* The actions inside a process that write neither status nor lease.
LEMMA RowFrame ==
    ASSUME NEW p \in Procs, NEW r \in Runs,
           \/ skipClaimedRun(p, r)
           \/ loseRunLease(p, r)
           \/ stopForRecovery(p, r)
           \/ prepareTargetOperation(p, r)
           \/ completeTargetOperation(p, r)
           \/ observeCorruption(p, r)
           \/ completeAgentRun(p, r)
           \/ failAgentRun(p, r)
           \/ stopAgentRun(p, r)
           \/ refuseTerminalization(p, r)
           \/ reconcilePreparedTargetOperations(p, r)
           \/ endRecoveredRun(p, r)
    PROVE  UNCHANGED rowVars
BY Zenon DEF skipClaimedRun, loseRunLease, stopForRecovery, prepareTargetOperation,
   completeTargetOperation, observeCorruption, completeAgentRun, failAgentRun,
   stopAgentRun, refuseTerminalization, reconcilePreparedTargetOperations,
   endRecoveredRun, rowVars

\* Every step leaves a row alone or is one of the row's writers.
LEMMA RowWriters ==
    ASSUME [Next]_vars
    PROVE  \/ UNCHANGED rowVars
           \/ \E r \in Runs : expireLease(r)
           \/ \E p \in Procs, r \in Runs :
                 \/ claimPendingRun(p, r)
                 \/ releaseRunLease(p, r)
                 \/ startClaimedRun(p, r)
                 \/ terminalizeRun(p, r)
                 \/ terminalizeRunForReplayIntegrityFailure(p, r)
                 \/ claimRunRecovery(p, r)
                 \/ resumeRecoveredRun(p, r)
<1>1. ASSUME NEW r \in Runs, corruptReplay(r) PROVE UNCHANGED rowVars
  BY <1>1 DEF corruptReplay
<1>2. ASSUME NEW p \in Procs, crash(p) PROVE UNCHANGED rowVars
  BY <1>2 DEF crash
<1>3. CASE UNCHANGED vars
  BY <1>3 DEF vars, rowVars
<1> QED
  BY <1>1, <1>2, <1>3, RowFrame DEF Next, allSettled

-----------------------------------------------------------------------------
(* Action properties.                                                        *)

\* No step of any process takes over a lease that has not expired: not a claim,
\* not a recovery, not the integrity path.
THEOREM LiveLeaseSafe == Spec => LiveLeaseNotTaken
<1> DEFINE A == \A r \in Runs : Leased(r) => owner'[r] \in {owner[r], NoProc}
<1>1. ASSUME TypeOK, [Next]_vars PROVE A
  <2> USE TypeOK, ConstantsAssumption
  <2>1. CASE UNCHANGED rowVars
    BY <2>1 DEF rowVars
  <2>2. ASSUME NEW r \in Runs, expireLease(r) PROVE A
    BY <2>2 DEF expireLease
  <2>3. ASSUME NEW p \in Procs, NEW r \in Runs, claimPendingRun(p, r) PROVE A
    BY <2>3 DEF TypeOK, claimPendingRun, Claimable, Free, Leased, GrantLease
  <2>4. ASSUME NEW p \in Procs, NEW r \in Runs, claimRunRecovery(p, r) PROVE A
    BY <2>4 DEF TypeOK, claimRunRecovery, Recoverable, Free, Leased, GrantLease
  <2>5. ASSUME NEW r \in Runs, ClearLease(r) PROVE A
    BY <2>5 DEF TypeOK, ClearLease
  <2>6. ASSUME NEW p \in Procs, NEW r \in Runs, startClaimedRun(p, r) PROVE A
    BY <2>6 DEF startClaimedRun
  <2>7. ASSUME NEW p \in Procs, NEW r \in Runs,
               \/ releaseRunLease(p, r)
               \/ terminalizeRun(p, r)
               \/ terminalizeRunForReplayIntegrityFailure(p, r)
               \/ resumeRecoveredRun(p, r)
        PROVE  A
    <3>1. ClearLease(r) \/ UNCHANGED owner
      BY <2>7 DEF releaseRunLease, terminalizeRun, terminalizeRunForReplayIntegrityFailure,
         IntegrityRow, resumeRecoveredRun, ResumeRow, rowVars
    <3> QED BY <2>5, <3>1
  <2> QED
    BY <1>1, <2>1, <2>2, <2>3, <2>4, <2>6, <2>7, RowWriters
<1> QED
  BY <1>1, TypeCorrect, PTL DEF Spec, LiveLeaseNotTaken

\* What a step that changes the status of a run was.
LEMMA StatusWriters ==
    ASSUME TypeOK, [Next]_vars, NEW s \in Runs, status'[s] # status[s]
    PROVE  \E p \in Procs :
              \/ startClaimedRun(p, s) /\ status'[s] = "running"
              \/ terminalizeRun(p, s) /\ status'[s] = prep[s][p].target
              \/ terminalizeRunForReplayIntegrityFailure(p, s)
                    /\ status'[s] = "failed" /\ integrity'[s]
              \/ resumeRecoveredRun(p, s) /\ status[s] = "running" /\ status'[s] = "pending"
<1> USE TypeOK
<1>1. ASSUME NEW p \in Procs, NEW r \in Runs, startClaimedRun(p, r)
      PROVE  r = s /\ status'[s] = "running"
  BY <1>1 DEF TypeOK, startClaimedRun
<1>2. ASSUME NEW p \in Procs, NEW r \in Runs, terminalizeRun(p, r)
      PROVE  r = s /\ status'[s] = prep[s][p].target
  <2>1. status' = [status EXCEPT ![r] = prep[r][p].target]
    BY <1>2 DEF terminalizeRun
  <2> QED BY <2>1 DEF TypeOK
<1>3. ASSUME NEW p \in Procs, NEW r \in Runs, terminalizeRunForReplayIntegrityFailure(p, r)
      PROVE  r = s /\ status'[s] = "failed" /\ integrity'[s]
  <2>1. IntegrityRow(r) /\ integrity' = [integrity EXCEPT ![r] = TRUE]
    BY <1>3 DEF terminalizeRunForReplayIntegrityFailure, rowVars
  <2> QED BY <2>1 DEF TypeOK, IntegrityRow
<1>4. ASSUME NEW p \in Procs, NEW r \in Runs, resumeRecoveredRun(p, r)
      PROVE  r = s /\ status[s] = "running" /\ status'[s] = "pending"
  <2>1. Resumable(p, r) /\ ResumeRow(r)
    BY <1>4 DEF resumeRecoveredRun, rowVars
  <2> QED BY <2>1 DEF TypeOK, Resumable, ResumeRow
<1>5. ~UNCHANGED rowVars
  BY DEF rowVars
<1>6. ASSUME NEW r \in Runs, expireLease(r) PROVE FALSE
  BY <1>6 DEF expireLease
<1>7. ASSUME NEW p \in Procs, NEW r \in Runs,
             claimPendingRun(p, r) \/ releaseRunLease(p, r) \/ claimRunRecovery(p, r)
      PROVE  FALSE
  BY <1>7 DEF claimPendingRun, releaseRunLease, claimRunRecovery
<1> QED
  BY <1>1, <1>2, <1>3, <1>4, <1>5, <1>6, <1>7, RowWriters

\* Completion needs the live lease of the process that executes the run at the
\* time of the commit, whatever was read before it.
THEOREM CompletionNeedsLease == Spec => CompletionIsLeased
<1> DEFINE A == \A r \in Runs : status[r] # "completed" /\ status'[r] = "completed" =>
                  \E p \in Procs : /\ HeldBy(p, r)
                                   /\ status[r] = "running"
                                   /\ exec[r][p] = "executing"
<1>1. ASSUME TypeOK, ProcessState, [Next]_vars PROVE A
  <2> SUFFICES ASSUME NEW r \in Runs, status[r] # "completed", status'[r] = "completed"
               PROVE  \E p \in Procs : /\ HeldBy(p, r)
                                       /\ status[r] = "running"
                                       /\ exec[r][p] = "executing"
    OBVIOUS
  <2>1. PICK p \in Procs : terminalizeRun(p, r) /\ prep[r][p].target = "completed"
    BY <1>1, StatusWriters
  <2>2. exec[r][p] = "executing"
    BY <1>1, <2>1 DEF ProcessState
  <2>3. TransitionAllowed(p, r, prep[r][p])
    BY <2>1 DEF terminalizeRun
  <2>4. HeldBy(p, r) /\ status[r] = "running"
    BY <2>1, <2>3 DEF TransitionAllowed, RunStatusTransitions
  <2> QED BY <2>2, <2>4
<1> QED
  BY <1>1, TypeCorrect, ProcessStateInvariant, PTL DEF Spec, CompletionIsLeased

\* A run that has ended keeps its status, except that the integrity path may turn
\* it to failed over a damaged replay.
THEOREM OnlyIntegrityRewrites == Spec => TerminalRewrittenOnlyByIntegrity
<1> DEFINE A == \A r \in Runs : status[r] \in TerminalStatuses /\ status'[r] # status[r] =>
                  status'[r] = "failed" /\ integrity'[r] /\ replay[r] = "corrupt"
<1>1. ASSUME TypeOK, ProcessState, [Next]_vars PROVE A
  <2> SUFFICES ASSUME NEW r \in Runs, status[r] \in TerminalStatuses, status'[r] # status[r]
               PROVE  status'[r] = "failed" /\ integrity'[r] /\ replay[r] = "corrupt"
    OBVIOUS
  <2>1. ASSUME NEW p \in Procs, startClaimedRun(p, r) \/ terminalizeRun(p, r) PROVE FALSE
    BY <2>1 DEF startClaimedRun, terminalizeRun, TransitionAllowed
  <2>2. PICK p \in Procs : /\ terminalizeRunForReplayIntegrityFailure(p, r)
                          /\ status'[r] = "failed"
                          /\ integrity'[r]
    BY <1>1, <2>1, StatusWriters
  <2>3. replay[r] = "corrupt"
    BY <1>1, <2>2 DEF ProcessState, terminalizeRunForReplayIntegrityFailure
  <2> QED BY <2>2, <2>3
<1> QED
  BY <1>1, TypeCorrect, ProcessStateInvariant, PTL DEF Spec, TerminalRewrittenOnlyByIntegrity

-----------------------------------------------------------------------------
(* A stale execution never holds the lease of the next one.                  *)

LEMMA ExecutionStep ==
    TypeOK /\ ProcessState /\ ExecutionMatchesRow /\ [Next]_vars => ExecutionMatchesRow'
<1> SUFFICES ASSUME TypeOK, ProcessState, ExecutionMatchesRow, [Next]_vars,
                    NEW s \in Runs, NEW q \in Procs,
                    exec'[s][q] \in {"executing", "failing"}, HeldBy(q, s)'
             PROVE  status'[s] = "running"
  BY DEF ExecutionMatchesRow
<1> USE TypeOK, ConstantsAssumption
\* Who may enter an execution: a process that starts the run it claimed, or whose
\* loop was refused its commit.
<1>1. ASSUME ~(exec[s][q] \in {"executing", "failing"})
      PROVE  startClaimedRun(q, s)
  <2>1. ASSUME NEW p \in Procs, NEW r \in Runs, startClaimedRun(p, r)
        PROVE  p = q /\ r = s
    BY <1>1, <2>1 DEF TypeOK, startClaimedRun
  <2>2. ASSUME NEW p \in Procs, NEW r \in Runs,
               \/ prepareTargetOperation(p, r)
               \/ completeTargetOperation(p, r)
               \/ claimRunRecovery(p, r)
               \/ reconcilePreparedTargetOperations(p, r)
               \/ resumeRecoveredRun(p, r)
               \/ stopAgentRun(p, r)
               \/ endRecoveredRun(p, r)
        PROVE  FALSE
    <3>1. UNCHANGED exec
      BY <2>2, Zenon DEF prepareTargetOperation, completeTargetOperation, claimRunRecovery,
         reconcilePreparedTargetOperations, resumeRecoveredRun, stopAgentRun,
         endRecoveredRun, procVars
    <3> QED BY <1>1, <3>1
  <2>3. ASSUME NEW p \in Procs, NEW r \in Runs, NEW e \in {"idle", "claimed", "integrity"},
               exec' = [exec EXCEPT ![r][p] = e]
        PROVE  FALSE
    BY <1>1, <2>3 DEF TypeOK
  <2>4. ASSUME NEW p \in Procs, NEW r \in Runs,
               \/ claimPendingRun(p, r)
               \/ releaseRunLease(p, r)
               \/ skipClaimedRun(p, r)
               \/ loseRunLease(p, r)
               \/ stopForRecovery(p, r)
               \/ observeCorruption(p, r)
               \/ terminalizeRunForReplayIntegrityFailure(p, r)
        PROVE  FALSE
    <3>1. \E e \in {"idle", "claimed", "integrity"} : exec' = [exec EXCEPT ![r][p] = e]
      BY <2>4 DEF claimPendingRun, releaseRunLease, skipClaimedRun, loseRunLease,
         stopForRecovery, observeCorruption, terminalizeRunForReplayIntegrityFailure
    <3> QED BY <2>3, <3>1
  <2>5. ASSUME NEW p \in Procs, NEW r \in Runs, completeAgentRun(p, r) PROVE FALSE
    <3>1. exec' = [exec EXCEPT ![r][p] = "integrity"] \/ UNCHANGED exec
      BY <2>5 DEF completeAgentRun
    <3> QED BY <1>1, <2>3, <3>1
  <2>6. ASSUME NEW p \in Procs, NEW r \in Runs, failAgentRun(p, r) PROVE FALSE
    <3>1. exec[r][p] \in {"executing", "failing"}
      BY <2>6 DEF failAgentRun
    <3>2. exec' = [exec EXCEPT ![r][p] = "idle"] \/ exec' = [exec EXCEPT ![r][p] = "failing"]
      BY <2>6 DEF failAgentRun
    <3>3. CASE exec' = [exec EXCEPT ![r][p] = "failing"]
      BY <1>1, <3>1, <3>3 DEF TypeOK
    <3> QED BY <2>3, <3>2, <3>3
  <2>7. ASSUME NEW p \in Procs, NEW r \in Runs, terminalizeRun(p, r) PROVE FALSE
    <3>1. exec' = [exec EXCEPT ![r][p] = "idle"] \/ exec' = exec
      BY <2>7 DEF terminalizeRun
    <3> QED BY <1>1, <2>3, <3>1
  <2>8. ASSUME NEW p \in Procs, NEW r \in Runs, refuseTerminalization(p, r) PROVE FALSE
    <3>1. CASE prep[r][p].by = "loop"
      <4>1. exec[r][p] = "executing"
        BY <3>1 DEF ProcessState
      <4>2. exec' = [exec EXCEPT ![r][p] = CatchBlockRoute(r)]
        BY <2>8, <3>1 DEF refuseTerminalization
      <4> QED BY <1>1, <4>1, <4>2 DEF TypeOK
    <3>2. CASE prep[r][p].by # "loop"
      <4>1. exec' = [exec EXCEPT ![r][p] = "idle"] \/ exec' = exec
        BY <2>8, <3>2 DEF refuseTerminalization
      <4> QED BY <1>1, <2>3, <4>1
    <3> QED BY <3>1, <3>2
  <2>9. ASSUME NEW r \in Runs, expireLease(r) \/ corruptReplay(r) PROVE FALSE
    BY <1>1, <2>9 DEF expireLease, corruptReplay, procVars
  <2>10. ASSUME NEW p \in Procs, crash(p) PROVE FALSE
    BY <1>1, <2>10 DEF TypeOK, crash
  <2>11. CASE UNCHANGED vars
    BY <1>1, <2>11 DEF vars
  <2> QED
    BY <2>1, <2>2, <2>4, <2>5, <2>6, <2>7, <2>8, <2>9, <2>10, <2>11 DEF Next, allSettled
\* A row changed under an execution: the writers of a lease give it to a process
\* that is not executing the run, or take it from everybody.
<1>2. ASSUME exec[s][q] \in {"executing", "failing"} PROVE status'[s] = "running"
  <2>1. CASE UNCHANGED rowVars
    BY <1>2, <2>1 DEF ExecutionMatchesRow, HeldBy, rowVars
  <2>2. ASSUME NEW r \in Runs, expireLease(r) PROVE status'[s] = "running"
    BY <1>2, <2>2 DEF TypeOK, ExecutionMatchesRow, HeldBy, expireLease
  <2>3. ASSUME NEW p \in Procs, NEW r \in Runs, claimPendingRun(p, r)
        PROVE  status'[s] = "running"
    <3>1. r # s \/ p # q
      BY <1>2, <2>3 DEF claimPendingRun
    <3> QED
      BY <1>2, <2>3, <3>1 DEF TypeOK, ExecutionMatchesRow, HeldBy, claimPendingRun, GrantLease
  <2>4. ASSUME NEW p \in Procs, NEW r \in Runs, claimRunRecovery(p, r)
        PROVE  status'[s] = "running"
    <3>1. CASE r = s
      BY <2>4, <3>1 DEF claimRunRecovery, Recoverable
    <3>2. CASE r # s
      BY <1>2, <2>4, <3>2 DEF TypeOK, ExecutionMatchesRow, HeldBy, claimRunRecovery, GrantLease
    <3> QED BY <3>1, <3>2
  <2>5. ASSUME NEW p \in Procs, NEW r \in Runs, startClaimedRun(p, r)
        PROVE  status'[s] = "running"
    BY <1>2, <2>5 DEF TypeOK, ExecutionMatchesRow, HeldBy, startClaimedRun
  <2>6. ASSUME NEW p \in Procs, NEW r \in Runs,
               \/ releaseRunLease(p, r)
               \/ terminalizeRun(p, r)
               \/ terminalizeRunForReplayIntegrityFailure(p, r)
               \/ resumeRecoveredRun(p, r)
        PROVE  status'[s] = "running"
    <3>1. ClearLease(r) \/ UNCHANGED rowVars
      BY <2>6 DEF releaseRunLease, terminalizeRun, terminalizeRunForReplayIntegrityFailure,
         IntegrityRow, resumeRecoveredRun, ResumeRow, rowVars
    <3>2. CASE ClearLease(r)
      <4>1. r # s /\ HeldBy(q, s)
        BY <3>2 DEF TypeOK, ClearLease, HeldBy
      <4>2. status[s] = "running"
        BY <1>2, <4>1 DEF ExecutionMatchesRow
      <4>3. status'[s] = status[s]
        BY <2>6, <4>1 DEF TypeOK, releaseRunLease, terminalizeRun,
           terminalizeRunForReplayIntegrityFailure, IntegrityRow, resumeRecoveredRun,
           ResumeRow, rowVars
      <4> QED BY <4>2, <4>3
    <3> QED BY <2>1, <3>1, <3>2
  <2> QED
    BY <2>1, <2>2, <2>3, <2>4, <2>5, <2>6, RowWriters
<1>3. ASSUME startClaimedRun(q, s) PROVE status'[s] = "running"
  BY <1>3 DEF TypeOK, startClaimedRun
<1> QED BY <1>1, <1>2, <1>3

\* A process that executes a run and passes its lease check executes a running
\* run: recovery that sent the run back to pending has fenced it.
THEOREM StaleExecutionFenced == Spec => []ExecutionMatchesRow
<1>1. Init => ExecutionMatchesRow
  BY DEF Init, ExecutionMatchesRow
<1> QED
  BY <1>1, ExecutionStep, TypeCorrect, ProcessStateInvariant, PTL DEF Spec

-----------------------------------------------------------------------------
(* The refinement: RunLease implements RunCustody, for any runs, processes *)
(* and bounds.                                                             *)

\* A process's live lease is what RunCustody calls custody.
Holder == [r \in Runs |-> IF Leased(r) THEN owner[r] ELSE NoProc]

\* Steps that touch neither a row nor the integrity disposition.
LEMMA IntegrityFrame ==
    ASSUME [Next]_vars,
           ~ \E p \in Procs, r \in Runs : terminalizeRunForReplayIntegrityFailure(p, r)
    PROVE  UNCHANGED integrity
<1>1. CASE UNCHANGED vars
  BY <1>1 DEF vars
<1>2. ASSUME NEW r \in Runs, expireLease(r) \/ corruptReplay(r) PROVE UNCHANGED integrity
  BY <1>2, Zenon DEF expireLease, corruptReplay, evidVars
<1>3. ASSUME NEW p \in Procs, crash(p) PROVE UNCHANGED integrity
  BY <1>3 DEF crash, evidVars
<1>4. ASSUME NEW p \in Procs, NEW r \in Runs,
             \/ claimPendingRun(p, r)
             \/ releaseRunLease(p, r)
             \/ startClaimedRun(p, r)
             \/ skipClaimedRun(p, r)
             \/ loseRunLease(p, r)
             \/ stopForRecovery(p, r)
             \/ prepareTargetOperation(p, r)
             \/ completeTargetOperation(p, r)
             \/ observeCorruption(p, r)
             \/ completeAgentRun(p, r)
             \/ failAgentRun(p, r)
             \/ stopAgentRun(p, r)
             \/ terminalizeRun(p, r)
             \/ refuseTerminalization(p, r)
             \/ claimRunRecovery(p, r)
             \/ reconcilePreparedTargetOperations(p, r)
             \/ resumeRecoveredRun(p, r)
             \/ endRecoveredRun(p, r)
      PROVE  UNCHANGED integrity
  BY <1>4, Zenon DEF claimPendingRun, releaseRunLease, startClaimedRun, skipClaimedRun,
     loseRunLease, stopForRecovery, prepareTargetOperation, completeTargetOperation,
     observeCorruption, completeAgentRun, failAgentRun, stopAgentRun, terminalizeRun,
     refuseTerminalization, claimRunRecovery, reconcilePreparedTargetOperations,
     resumeRecoveredRun, endRecoveredRun, evidVars
<1> QED
  BY <1>1, <1>2, <1>3, <1>4, Zenon DEF Next, allSettled

-----------------------------------------------------------------------------
(* What the lease updates do to custody.                                     *)

LEMMA HolderGranted ==
    ASSUME TypeOK, NEW p \in Procs, NEW r \in Runs, GrantLease(p, r)
    PROVE  Holder' = [Holder EXCEPT ![r] = p]
BY ConstantsAssumption DEF TypeOK, GrantLease, Leased, Holder

LEMMA HolderCleared ==
    ASSUME TypeOK, NEW r \in Runs, ClearLease(r)
    PROVE  Holder' = [Holder EXCEPT ![r] = NoProc]
BY DEF TypeOK, ClearLease, Leased, Holder

LEMMA HolderExpired ==
    ASSUME TypeOK, NEW r \in Runs, expireLease(r)
    PROVE  Holder' = [Holder EXCEPT ![r] = NoProc]
BY DEF TypeOK, expireLease, Leased, Holder

LEMMA HolderKept ==
    ASSUME UNCHANGED <<owner, lease>>
    PROVE  Holder' = Holder
BY DEF Leased, Holder

\* The predicates of the store, in terms of custody.
LEMMA HolderFacts ==
    ASSUME TypeOK, NEW p \in Procs, NEW r \in Runs
    PROVE  /\ HeldBy(p, r) <=> Holder[r] = p
           /\ Free(r) <=> Holder[r] = NoProc
           /\ owner[r] \in {NoProc, p} => Holder[r] \in {NoProc, p}
BY ConstantsAssumption DEF TypeOK, HeldBy, Free, Leased, Holder

-----------------------------------------------------------------------------
(* One lemma for each writer of a row.                                       *)

LEMMA ClaimIsTake ==
    ASSUME TypeOK, NEW p \in Procs, NEW r \in Runs,
           claimPendingRun(p, r) \/ claimRunRecovery(p, r)
    PROVE  Custody!Take(p, r)
<1>1. status[r] \in {"pending", "running"} /\ Free(r) /\ GrantLease(p, r) /\ UNCHANGED status
  BY DEF claimPendingRun, Claimable, claimRunRecovery, Recoverable
<1>2. UNCHANGED integrity
  BY Zenon DEF claimPendingRun, claimRunRecovery, evidVars
<1> QED
  BY <1>1, <1>2, HolderGranted, HolderFacts DEF Custody!Take, Custody!Ended, Custody!Ends, Holder

LEMMA StartIsBegin ==
    ASSUME TypeOK, NEW p \in Procs, NEW r \in Runs, startClaimedRun(p, r)
    PROVE  Custody!Begin(p, r)
<1>1. UNCHANGED <<owner, lease, integrity>>
  BY Zenon DEF startClaimedRun, evidVars
<1> QED
  BY <1>1, HolderKept, HolderFacts DEF startClaimedRun, Custody!Begin, Holder

LEMMA ExpiryIsLose ==
    ASSUME TypeOK, NEW r \in Runs, expireLease(r)
    PROVE  Custody!Lose(r)
<1>1. UNCHANGED <<status, integrity>> /\ lease[r] = "live"
  BY Zenon DEF expireLease, evidVars
<1>2. Holder[r] # NoProc
  BY <1>1 DEF TypeOK, Leased, Holder
<1> QED
  BY <1>1, <1>2, HolderExpired DEF Custody!Lose, Holder

LEMMA ReleaseIsLose ==
    ASSUME TypeOK, NEW p \in Procs, NEW r \in Runs, releaseRunLease(p, r)
    PROVE  Custody!Lose(r) \/ UNCHANGED Custody!custodyVars
<1>1. UNCHANGED <<status, integrity>>
  BY Zenon DEF releaseRunLease, evidVars
<1>2. CASE HeldBy(p, r)
  <2>1. ClearLease(r)
    BY <1>2 DEF releaseRunLease
  <2>2. Holder[r] # NoProc
    BY <1>2, HolderFacts, ConstantsAssumption
  <2> QED
    BY <1>1, <2>1, <2>2, HolderCleared DEF Custody!Lose, Holder
<1>3. CASE ~HeldBy(p, r)
  <2>1. UNCHANGED <<owner, lease>>
    BY <1>3 DEF releaseRunLease
  <2> QED
    BY <1>1, <2>1, HolderKept DEF Custody!custodyVars, Holder
<1> QED
  BY <1>2, <1>3

LEMMA ResumeIsRequeue ==
    ASSUME TypeOK, NEW p \in Procs, NEW r \in Runs, resumeRecoveredRun(p, r)
    PROVE  Custody!Requeue(p, r) \/ UNCHANGED Custody!custodyVars
<1>1. UNCHANGED integrity
  BY Zenon DEF resumeRecoveredRun, evidVars
<1>2. CASE Resumable(p, r)
  <2>1. ResumeRow(r)
    BY <1>2 DEF resumeRecoveredRun
  <2> QED
    BY <1>1, <1>2, <2>1, HolderCleared, HolderFacts
    DEF Resumable, ResumeRow, Custody!Requeue, Holder
<1>3. CASE ~Resumable(p, r)
  <2>1. UNCHANGED rowVars
    BY <1>3 DEF resumeRecoveredRun
  <2> QED
    BY <1>1, <2>1, HolderKept DEF rowVars, Custody!custodyVars, Holder
<1> QED
  BY <1>2, <1>3

LEMMA TerminalIsEnd ==
    ASSUME TypeOK, NEW p \in Procs, NEW r \in Runs, terminalizeRun(p, r)
    PROVE  \E end \in Custody!Ends : Custody!End(p, r, end)
<1> DEFINE d == prep[r][p]
<1>1. /\ TransitionAllowed(p, r, d)
      /\ status' = [status EXCEPT ![r] = d.target]
      /\ ClearLease(r)
      /\ UNCHANGED integrity
  BY Zenon DEF terminalizeRun
<1>2. d \in Preps
  BY DEF TypeOK
<1>3. d.target \in Custody!Ends
  BY <1>2 DEF Preps, TerminalStatuses, Custody!Ends
<1>4. Custody!MayEnd(p, r, d.target)
  BY <1>1, <1>2, HolderFacts
  DEF TransitionAllowed, RunStatusTransitions, RunStatuses, Preps, Custody!MayEnd, Holder
<1> QED
  BY <1>1, <1>3, <1>4, HolderCleared DEF Custody!End, Holder

LEMMA IntegrityIsCondemn ==
    ASSUME TypeOK, TerminalEvidence, NEW p \in Procs, NEW r \in Runs,
           terminalizeRunForReplayIntegrityFailure(p, r)
    PROVE  Custody!Condemn(p, r) \/ UNCHANGED Custody!custodyVars
<1> DEFINE Ending == /\ owner[r] \in {NoProc, p}
                     /\ ~(status[r] \in TerminalStatuses /\ integrity[r])
<1>1. CASE Ending
  <2>1. IntegrityRow(r) /\ integrity' = [integrity EXCEPT ![r] = TRUE]
    BY <1>1 DEF terminalizeRunForReplayIntegrityFailure
  <2>2. ~integrity[r]
    BY <1>1 DEF TerminalEvidence
  <2> QED
    BY <1>1, <2>1, <2>2, HolderCleared, HolderFacts DEF IntegrityRow, Custody!Condemn, Holder
<1>2. CASE ~Ending
  <2>1. UNCHANGED <<rowVars, integrity>>
    BY <1>2 DEF terminalizeRunForReplayIntegrityFailure
  <2> QED
    BY <2>1, HolderKept DEF rowVars, Custody!custodyVars, Holder
<1> QED
  BY <1>1, <1>2

-----------------------------------------------------------------------------
\* Every step of the processes is a step of custody or changes nothing of it.
LEMMA CustodyStep ==
    TypeOK /\ TerminalEvidence /\ [Next]_vars => [Custody!Next]_(Custody!custodyVars)
<1> SUFFICES ASSUME TypeOK, TerminalEvidence, [Next]_vars
             PROVE  Custody!Next \/ UNCHANGED Custody!custodyVars
  OBVIOUS
<1>1. ASSUME NEW r \in Runs, expireLease(r) PROVE Custody!Next
  BY <1>1, ExpiryIsLose DEF Custody!Next
<1>2. ASSUME NEW p \in Procs, NEW r \in Runs, claimPendingRun(p, r) \/ claimRunRecovery(p, r)
      PROVE  Custody!Next
  BY <1>2, ClaimIsTake DEF Custody!Next
<1>3. ASSUME NEW p \in Procs, NEW r \in Runs, startClaimedRun(p, r) PROVE Custody!Next
  BY <1>3, StartIsBegin DEF Custody!Next
<1>4. ASSUME NEW p \in Procs, NEW r \in Runs, releaseRunLease(p, r)
      PROVE  Custody!Next \/ UNCHANGED Custody!custodyVars
  BY <1>4, ReleaseIsLose DEF Custody!Next
<1>5. ASSUME NEW p \in Procs, NEW r \in Runs, resumeRecoveredRun(p, r)
      PROVE  Custody!Next \/ UNCHANGED Custody!custodyVars
  BY <1>5, ResumeIsRequeue DEF Custody!Next
<1>6. ASSUME NEW p \in Procs, NEW r \in Runs, terminalizeRun(p, r) PROVE Custody!Next
  BY <1>6, TerminalIsEnd DEF Custody!Next
<1>7. ASSUME NEW p \in Procs, NEW r \in Runs, terminalizeRunForReplayIntegrityFailure(p, r)
      PROVE  Custody!Next \/ UNCHANGED Custody!custodyVars
  BY <1>7, IntegrityIsCondemn DEF Custody!Next
<1>8. CASE /\ UNCHANGED rowVars
           /\ ~ \E p \in Procs, r \in Runs : terminalizeRunForReplayIntegrityFailure(p, r)
  BY <1>8, IntegrityFrame, HolderKept DEF rowVars, Custody!custodyVars, Holder
<1> QED
  BY <1>1, <1>2, <1>3, <1>4, <1>5, <1>6, <1>7, <1>8, RowWriters

\* The leases implement custody: claims, starts, heartbeats, expiries, recoveries,
\* stops, crashes and the integrity path never do what RunCustody excludes.
THEOREM LeasesImplementCustody == Spec => ImplementsCustody
<1>1. Init => Custody!Init
  <2> SUFFICES ASSUME Init PROVE Custody!Init
    OBVIOUS
  <2>1. Holder = [r \in Runs |-> NoProc]
    BY DEF Init, Leased, Holder
  <2> QED
    BY <2>1 DEF Init, Custody!Init, Holder
<1> QED
  BY <1>1, CustodyStep, TypeCorrect, EvidenceMatchesRow, PTL
  DEF Spec, ImplementsCustody, Custody!Spec

-----------------------------------------------------------------------------
(* RunLease establishes what GovernedRequests assumes of a run. *)

Stand == [r \in Runs |-> StandingOf(r)]

\* The standing of a run is a function of its row.
LEMMA StandingKept ==
    ASSUME NEW r \in Runs,
           status'[r] = status[r], owner'[r] = owner[r], lease'[r] = lease[r]
    PROVE  StandingOf(r)' = StandingOf(r)
BY DEF StandingOf, Leased

\* What the statements of the store make of it.
LEMMA StandingHeld ==
    ASSUME TypeOK, NEW p \in Procs, NEW r \in Runs, GrantLease(p, r), UNCHANGED status,
           status[r] \in {"pending", "running"}
    PROVE  StandingOf(r)' = "held"
BY ConstantsAssumption DEF TypeOK, GrantLease, StandingOf, Leased

LEMMA StandingCleared ==
    ASSUME TypeOK, NEW r \in Runs, ClearLease(r)
    PROVE  StandingOf(r)' = IF status'[r] \in TerminalStatuses THEN "ended"
                            ELSE IF status'[r] = "pending" THEN "free" ELSE "lapsed"
BY DEF TypeOK, ClearLease, StandingOf, Leased

\* A step that moves one run moves its standing, and makes no other claim.
LEMMA OneRunMoves ==
    ASSUME NEW r \in Runs,
           \A s \in Runs \ {r} : StandingOf(s)' = StandingOf(s),
           StandingOf(r)' \in Standing!After[StandingOf(r)]
    PROVE  /\ Standing!Next
           /\ \A s \in Runs : Standing!Claims(s) => s = r /\ StandingOf(r) = "free"
<1>1. StandingOf(r) \in Standing!Standings
  BY DEF StandingOf, Standing!Standings
<1>2. StandingOf(r)' \in Standing!Standings
  BY <1>1 DEF Standing!After, Standing!Standings
<1>3. Stand' = [Stand EXCEPT ![r] = StandingOf(r)']
  BY DEF Stand
<1>4. Standing!Move(r, StandingOf(r)')
  BY <1>3 DEF Stand, Standing!Move
<1>5. \A s \in Runs : Standing!Claims(s) => s = r /\ StandingOf(r) = "free"
  BY DEF Standing!Claims
<1> QED
  BY <1>2, <1>4, <1>5 DEF Standing!Next

\* The writers of a row and the moves they make.
LEMMA WritersMove ==
    ASSUME TypeOK, NEW r \in Runs, [Next]_vars,
           \/ expireLease(r)
           \/ \E p \in Procs :
                 \/ claimPendingRun(p, r)
                 \/ releaseRunLease(p, r)
                 \/ startClaimedRun(p, r)
                 \/ terminalizeRun(p, r)
                 \/ terminalizeRunForReplayIntegrityFailure(p, r)
                 \/ claimRunRecovery(p, r)
                 \/ resumeRecoveredRun(p, r)
    PROVE  /\ \A s \in Runs \ {r} : StandingOf(s)' = StandingOf(s)
           /\ \/ StandingOf(r)' = StandingOf(r)
              \/ StandingOf(r)' \in Standing!After[StandingOf(r)]
           /\ StandingOf(r) = "free" /\ StandingOf(r)' = "held" =>
                 \E p \in Procs : claimPendingRun(p, r)
<1> DEFINE Goal == /\ \/ StandingOf(r)' = StandingOf(r)
                      \/ StandingOf(r)' \in Standing!After[StandingOf(r)]
                   /\ StandingOf(r) = "free" /\ StandingOf(r)' = "held" =>
                         \E p \in Procs : claimPendingRun(p, r)
<1>0. /\ Standing!After["free"] = {"held", "ended"}
      /\ Standing!After["held"] = {"free", "lapsed", "ended"}
      /\ Standing!After["lapsed"] = {"held", "ended"}
  BY DEF Standing!After, Standing!Standings
<1>a. StandingOf(r) \in {"free", "held", "lapsed", "ended"}
  BY DEF StandingOf
<1>b. status[r] \in TerminalStatuses <=> StandingOf(r) = "ended"
  BY DEF StandingOf
<1>c. ASSUME UNCHANGED rowVars PROVE Goal
  BY <1>c, StandingKept DEF rowVars
<1>1. CASE expireLease(r)
  <2>1. status'[r] = status[r] /\ lease[r] = "live" /\ lease'[r] = "expired" /\ owner[r] # NoProc
    BY <1>1 DEF TypeOK, expireLease
  <2>2. StandingOf(r)' \in {"free", "lapsed", "ended"}
    BY <2>1 DEF StandingOf, Leased
  <2>3. StandingOf(r) = "held" \/ (StandingOf(r) = "ended" /\ StandingOf(r)' = "ended")
    BY <2>1 DEF StandingOf, Leased
  <2>4. Goal
    BY <1>0, <2>2, <2>3
  <2>5. \A s \in Runs \ {r} : StandingOf(s)' = StandingOf(s)
    BY <1>1, StandingKept DEF expireLease, TypeOK
  <2> QED BY <2>4, <2>5
<1>2. ASSUME NEW p \in Procs, claimPendingRun(p, r) PROVE Goal
  <2>1. GrantLease(p, r) /\ UNCHANGED status /\ status[r] = "pending" /\ Free(r)
    BY <1>2 DEF claimPendingRun, Claimable
  <2>2. StandingOf(r) = "free" /\ StandingOf(r)' = "held"
    BY <2>1, StandingHeld DEF StandingOf, Leased, Free, TypeOK
  <2> QED BY <1>0, <1>2, <2>2
<1>3. ASSUME NEW p \in Procs, claimRunRecovery(p, r) PROVE Goal
  <2>1. GrantLease(p, r) /\ UNCHANGED status /\ status[r] = "running" /\ Free(r)
    BY <1>3 DEF claimRunRecovery, Recoverable
  <2>2. StandingOf(r) = "lapsed" /\ StandingOf(r)' = "held"
    BY <2>1, StandingHeld DEF StandingOf, Leased, Free, TypeOK
  <2> QED BY <1>0, <2>2
<1>4. ASSUME NEW p \in Procs, startClaimedRun(p, r) PROVE Goal
  <2>1. status[r] = "pending" /\ status'[r] = "running" /\ UNCHANGED <<owner, lease>>
    BY <1>4 DEF startClaimedRun, TypeOK
  <2>2. Leased(r) /\ Leased(r)'
    BY <1>4, <2>1, ConstantsAssumption DEF startClaimedRun, HeldBy, Leased, TypeOK
  <2>3. StandingOf(r) = "held" /\ StandingOf(r)' = "held"
    BY <2>1, <2>2 DEF StandingOf
  <2> QED BY <2>3
<1>5. ASSUME NEW p \in Procs, releaseRunLease(p, r) PROVE Goal
  <2>1. CASE HeldBy(p, r)
    <3>1. ClearLease(r) /\ UNCHANGED status /\ Leased(r)
      BY <1>5, <2>1, ConstantsAssumption DEF releaseRunLease, HeldBy, Leased
    <3>2. status'[r] \in TerminalStatuses => StandingOf(r) = "ended" /\ StandingOf(r)' = "ended"
      BY <1>b, <3>1, StandingCleared
    <3>3. status'[r] \notin TerminalStatuses =>
             StandingOf(r) = "held" /\ StandingOf(r)' \in {"free", "lapsed"}
      BY <3>1, StandingCleared DEF StandingOf
    <3> QED BY <1>0, <3>2, <3>3
  <2>2. CASE ~HeldBy(p, r)
    BY <1>c, <1>5, <2>2 DEF releaseRunLease, rowVars
  <2> QED BY <2>1, <2>2
<1>6. ASSUME NEW p \in Procs, terminalizeRun(p, r) PROVE Goal
  <2> DEFINE d == prep[r][p]
  <2>1. /\ TransitionAllowed(p, r, d)
        /\ status' = [status EXCEPT ![r] = d.target]
        /\ ClearLease(r)
        /\ d \in Preps
    BY <1>6 DEF terminalizeRun, TypeOK
  <2>2. status[r] \notin TerminalStatuses /\ d.target \in TerminalStatuses
    BY <2>1 DEF TransitionAllowed, RunStatusTransitions, Preps
  <2>3. status'[r] \in TerminalStatuses
    BY <2>1, <2>2 DEF TypeOK
  <2>4. StandingOf(r)' = "ended" /\ StandingOf(r) \in {"free", "held", "lapsed"}
    BY <1>a, <1>b, <2>1, <2>2, <2>3, StandingCleared
  <2> QED BY <1>0, <2>4
<1>7. ASSUME NEW p \in Procs, terminalizeRunForReplayIntegrityFailure(p, r) PROVE Goal
  <2>1. CASE IntegrityRow(r)
    <3>1. status'[r] = "failed" /\ ClearLease(r)
      BY <2>1 DEF IntegrityRow, TypeOK
    <3>2. StandingOf(r)' = "ended"
      BY <3>1, StandingCleared
    <3> QED BY <1>0, <1>a, <3>2
  <2>2. CASE UNCHANGED rowVars
    BY <1>c, <2>2
  <2> QED BY <1>7, <2>1, <2>2 DEF terminalizeRunForReplayIntegrityFailure
<1>8. ASSUME NEW p \in Procs, resumeRecoveredRun(p, r) PROVE Goal
  <2>1. CASE Resumable(p, r)
    <3>1. status'[r] = "pending" /\ ClearLease(r) /\ Leased(r) /\ status[r] = "running"
      BY <1>8, <2>1, ConstantsAssumption
      DEF resumeRecoveredRun, Resumable, ResumeRow, HeldBy, Leased, TypeOK
    <3>2. StandingOf(r)' = "free" /\ StandingOf(r) = "held"
      BY <3>1, StandingCleared DEF StandingOf
    <3> QED BY <1>0, <3>2
  <2>2. CASE ~Resumable(p, r)
    BY <1>c, <1>8, <2>2 DEF resumeRecoveredRun
  <2> QED BY <2>1, <2>2
<1>9. Goal
  BY <1>1, <1>2, <1>3, <1>4, <1>5, <1>6, <1>7, <1>8
<1>10. ASSUME NEW s \in Runs \ {r}
       PROVE  status'[s] = status[s] /\ owner'[s] = owner[s] /\ lease'[s] = lease[s]
  <2> USE DEF TypeOK, GrantLease, ClearLease, rowVars
  <2>1. CASE expireLease(r)
    BY <2>1 DEF expireLease
  <2>2. ASSUME NEW p \in Procs, claimPendingRun(p, r) \/ claimRunRecovery(p, r)
        PROVE  status'[s] = status[s] /\ owner'[s] = owner[s] /\ lease'[s] = lease[s]
    BY <2>2 DEF claimPendingRun, claimRunRecovery
  <2>3. ASSUME NEW p \in Procs, releaseRunLease(p, r) \/ startClaimedRun(p, r)
        PROVE  status'[s] = status[s] /\ owner'[s] = owner[s] /\ lease'[s] = lease[s]
    BY <2>3 DEF releaseRunLease, startClaimedRun
  <2>4. ASSUME NEW p \in Procs, terminalizeRun(p, r)
        PROVE  status'[s] = status[s] /\ owner'[s] = owner[s] /\ lease'[s] = lease[s]
    BY <2>4 DEF terminalizeRun
  <2>5. ASSUME NEW p \in Procs, terminalizeRunForReplayIntegrityFailure(p, r)
        PROVE  status'[s] = status[s] /\ owner'[s] = owner[s] /\ lease'[s] = lease[s]
    BY <2>5 DEF terminalizeRunForReplayIntegrityFailure, IntegrityRow
  <2>6. ASSUME NEW p \in Procs, resumeRecoveredRun(p, r)
        PROVE  status'[s] = status[s] /\ owner'[s] = owner[s] /\ lease'[s] = lease[s]
    BY <2>6 DEF resumeRecoveredRun, ResumeRow
  <2> QED BY <2>1, <2>2, <2>3, <2>4, <2>5, <2>6
<1> QED
  BY <1>9, <1>10, StandingKept

LEMMA StandingStep ==
    TypeOK /\ [Next]_vars =>
       /\ [Standing!Next]_Stand
       /\ \A r \in Runs : Standing!Claims(r) => \E p \in Procs : claimPendingRun(p, r)
<1> SUFFICES ASSUME TypeOK, [Next]_vars
             PROVE  /\ [Standing!Next]_Stand
                    /\ \A r \in Runs : Standing!Claims(r) => \E p \in Procs : claimPendingRun(p, r)
  OBVIOUS
<1>1. ASSUME Stand' = Stand
      PROVE  \A r \in Runs : ~Standing!Claims(r)
  <2> TAKE r \in Runs
  <2>1. Stand[r]' = Stand[r]
    BY <1>1
  <2> QED BY <2>1 DEF Standing!Claims, Stand
<1>2. CASE UNCHANGED rowVars
  <2>1. \A r \in Runs : StandingOf(r)' = StandingOf(r)
    BY <1>2, StandingKept DEF rowVars
  <2>2. Stand' = Stand
    BY <2>1 DEF Stand
  <2> QED BY <1>1, <2>2
<1>3. CASE ~UNCHANGED rowVars
  <2>1. PICK r \in Runs :
           \/ expireLease(r)
           \/ \E p \in Procs :
                 \/ claimPendingRun(p, r)
                 \/ releaseRunLease(p, r)
                 \/ startClaimedRun(p, r)
                 \/ terminalizeRun(p, r)
                 \/ terminalizeRunForReplayIntegrityFailure(p, r)
                 \/ claimRunRecovery(p, r)
                 \/ resumeRecoveredRun(p, r)
    BY <1>3, RowWriters
  <2>2. /\ \A s \in Runs \ {r} : StandingOf(s)' = StandingOf(s)
        /\ \/ StandingOf(r)' = StandingOf(r)
           \/ StandingOf(r)' \in Standing!After[StandingOf(r)]
        /\ StandingOf(r) = "free" /\ StandingOf(r)' = "held" =>
              \E p \in Procs : claimPendingRun(p, r)
    BY <2>1, WritersMove
  <2>3. CASE StandingOf(r)' = StandingOf(r)
    <3>1. \A s \in Runs : StandingOf(s)' = StandingOf(s)
      BY <2>2, <2>3
    <3>2. Stand' = Stand
      BY <3>1 DEF Stand
    <3> QED BY <1>1, <3>2
  <2>4. CASE StandingOf(r)' \in Standing!After[StandingOf(r)]
    <3>1. /\ Standing!Next
          /\ \A s \in Runs : Standing!Claims(s) => s = r /\ StandingOf(r) = "free"
      BY <2>2, <2>4, OneRunMoves
    <3>2. Standing!Claims(r) => StandingOf(r)' = "held"
      BY DEF Standing!Claims
    <3> QED BY <2>2, <3>1, <3>2
  <2> QED BY <2>2, <2>3, <2>4
<1> QED
  BY <1>2, <1>3

\* A run moves as GovernedRequests assumes, and the claims it counts are those of
\* claimPendingRun: a recovery, whose process appends no run.lease_acquired, never
\* takes a run that is pending.
THEOREM LeasesGiveStanding == Spec => ImplementsStanding
<1>1. Init => Standing!Init
  BY DEF Init, Standing!Init, StandingOf, Leased
<1> QED
  BY <1>1, StandingStep, TypeCorrect, PTL
  DEF Spec, ImplementsStanding, Standing!Spec, Stand
=============================================================================
