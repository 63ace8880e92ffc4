-------------------------- MODULE ProcessExecution --------------------------
(***************************************************************************)
(* Process operations: one command of a run, executed once by the native   *)
(* launcher and accounted for once in the database.                        *)
(*                                                                         *)
(* The row of process_operations goes intent, active, finalizing,          *)
(* terminal, every change guarded by its revision; the launcher keeps its  *)
(* own durable record: accepted, active, terminal, acknowledged.  The      *)
(* controller reconciles the two under an advisory lock on the operation,  *)
(* from whatever step an earlier attempt reached.  A cancellation sets its *)
(* flag without that lock.                                                 *)
(*                                                                         *)
(* The module follows one operation identity.  A worker is one call of the *)
(* controller: an execution, a reconciliation at startup, or the           *)
(* cancellation of an interrupted run or of a run whose lease expired.     *)
(***************************************************************************)
EXTENDS Naturals

CONSTANTS
    Workers,    \* calls of the controller, each in a process that may die
    NoWorker,
    MaxFaults   \* bound: crashes and errors, lost sessions, launcher restarts

ASSUME ConstantsAssumption == NoWorker \notin Workers /\ MaxFaults \in Nat

VARIABLES
    row,       \* the row of process_operations
    evidence,  \* terminalOutcome of the process.terminal evidence
    receipt,   \* terminalOutcome of the run_operations receipt
    reached,   \* the cancellation_reached_launcher evidence exists
    files,     \* streams published in the artifact store
    lrec,      \* the launcher's durable record
    lcancel,   \* the cancel flag of the launcher's control block
    starts,    \* history: how often the command was started
    lock,      \* holder of the operation's advisory lock
    pc,        \* what each worker does next
    seen,      \* the row as the worker read or wrote it last
    stat,      \* the launcher's state as the worker was told last
    sent,      \* launcherCancellationRequested
    lost,      \* some lock session was lost under a worker
    faults     \* faults so far

dbVars     == <<row, evidence, receipt, reached>>
launchVars == <<lrec, lcancel, starts>>
vars       == <<row, evidence, receipt, reached, files, lrec, lcancel, starts,
                lock, pc, seen, stat, sent, lost, faults>>

-----------------------------------------------------------------------------
(* Values *)

Streams  == {"stdout", "stderr"}
Outcomes == {"completed", "cancelled", "failed_to_start", "runtime_interrupted"}

\* accepted: launcher_acceptance_identity is set; bound: both artifacts are in
\* the row; acked: launcher_output_acknowledged; cancel: cancellation_requested;
\* ran: the terminal result says its output is complete.
Rows == [state : {"none", "intent", "active", "finalizing", "terminal"},
         accepted : BOOLEAN, outcome : Outcomes \cup {"none"}, ran : BOOLEAN,
         bound : BOOLEAN, acked : BOOLEAN, cancel : BOOLEAN, revision : Nat]
NoRow == [state |-> "none", accepted |-> FALSE, outcome |-> "none", ran |-> FALSE,
          bound |-> FALSE, acked |-> FALSE, cancel |-> FALSE, revision |-> 0]

\* output: nothing yet, available, or removed after the acknowledgement.
LauncherRecords == [state : {"absent", "accepted", "active", "terminal"},
                    outcome : Outcomes \cup {"none"}, ran : BOOLEAN,
                    output : BOOLEAN, acked : BOOLEAN]
NoRecord == [state |-> "absent", outcome |-> "none", ran |-> FALSE,
             output |-> FALSE, acked |-> FALSE]

\* OperationStatus: an accepted operation is reported as active.
Status(l) == IF l.state = "accepted" THEN "active" ELSE l.state

\* Where a call of the controller can be.
Steps == {"idle", "lock", "lockToCancel", "enter", "leave", "query", "launch", "launchUnlocked",
          "active", "observe", "terminal", "publish", "evidence", "receipt", "close",
          "acknowledge", "acknowledged", "request", "requested", "dispose", "notify"}

Fault == faults < MaxFaults /\ faults' = faults + 1

-----------------------------------------------------------------------------
Init ==
    /\ row = NoRow
    /\ evidence = "none"
    /\ receipt = "none"
    /\ reached = FALSE
    /\ files = {}
    /\ lrec = NoRecord
    /\ lcancel = FALSE
    /\ starts = 0
    /\ lock = NoWorker
    /\ pc = [w \in Workers |-> "idle"]
    /\ seen = [w \in Workers |-> NoRow]
    /\ stat = [w \in Workers |-> "unknown"]
    /\ sent = [w \in Workers |-> FALSE]
    /\ lost = FALSE
    /\ faults = 0

-----------------------------------------------------------------------------
(* Steps of a worker *)

Goto(w, to) == pc' = [pc EXCEPT ![w] = to]
Keep        == UNCHANGED <<lock, seen, stat, sent>>

\* The call returns or throws; finally the lock is returned.
Leave(w) ==
    /\ lock' = IF lock = w THEN NoWorker ELSE lock
    /\ pc' = [pc EXCEPT ![w] = "idle"]
    /\ seen' = [seen EXCEPT ![w] = NoRow]
    /\ stat' = [stat EXCEPT ![w] = "unknown"]
    /\ sent' = [sent EXCEPT ![w] = FALSE]

\* transitionProcessOperation: the row becomes new if it is in one of the states
\* and has the revision the worker knows; otherwise the call throws.
transitionProcessOperation(w, states, new, to) ==
    IF row.state \in states /\ row.revision = seen[w].revision
    THEN /\ row' = [new EXCEPT !.revision = row.revision + 1]
         /\ seen' = [seen EXCEPT ![w] = row']
         /\ Goto(w, to)
         /\ UNCHANGED <<lock, stat, sent>>
    ELSE UNCHANGED row /\ Leave(w)

\* withProcessOperationLock, and the read of the row that follows it.
LockNext == [lock |-> "enter", lockToCancel |-> "dispose"]
withProcessOperationLock(w) ==
    /\ pc[w] \in DOMAIN LockNext
    /\ lock = NoWorker
    /\ lock' = w
    /\ seen' = [seen EXCEPT ![w] = row]
    /\ Goto(w, LockNext[pc[w]])
    /\ UNCHANGED <<dbVars, files, launchVars, stat, sent, lost, faults>>

\* lock_timeout: the lock is held for longer than a call waits for it.
lockTimeout(w) ==
    /\ pc[w] \in DOMAIN LockNext
    /\ lock # NoWorker
    /\ Leave(w)
    /\ UNCHANGED <<dbVars, files, launchVars, lost, faults>>

-----------------------------------------------------------------------------
(* Calls *)

\* execute and reconcileRun.
execute(w) ==
    /\ pc[w] = "idle"
    /\ Goto(w, "lock")
    /\ Keep
    /\ UNCHANGED <<dbVars, files, launchVars, lost, faults>>

\* createProcessExecutionIntent, after admission and materialization; or one of
\* those refuses, or a reconciliation finds no row.  The launcher cannot know an
\* identity without a row, so what follows is the launch.
createProcessExecutionIntent(w) ==
    /\ pc[w] = "enter"
    /\ row.state = "none"
    /\ \/ /\ row' = [NoRow EXCEPT !.state = "intent", !.revision = 1]
          /\ seen' = [seen EXCEPT ![w] = row']
          /\ Goto(w, "launch")
          /\ UNCHANGED <<lock, stat, sent>>
       \/ UNCHANGED row /\ Leave(w)
    /\ UNCHANGED <<evidence, receipt, reached, files, launchVars, lost, faults>>

\* reconcileLocked: where the row alone decides.
RouteFinalizingAsTerminal(r) ==
    CASE r.state \in {"terminal", "finalizing"} -> IF ~r.acked /\ r.accepted THEN "acknowledge" ELSE "leave"
      [] OTHER                                  -> "query"
Route(r) ==
    CASE r.state = "terminal"   -> IF ~r.acked /\ r.accepted THEN "acknowledge" ELSE "leave"
      [] r.state = "finalizing" -> "publish"
      [] OTHER                  -> "query"

enter(w) ==
    /\ pc[w] = "enter"
    /\ row.state # "none"
    /\ IF Route(seen[w]) = "query" /\ stat[w] # "unknown"
          THEN Goto(w, stat[w]) ELSE Goto(w, Route(seen[w]))
    /\ Keep
    /\ UNCHANGED <<dbVars, files, launchVars, lost, faults>>

leave(w) ==
    /\ pc[w] = "leave"
    /\ Leave(w)
    /\ UNCHANGED <<dbVars, files, launchVars, lost, faults>>

-----------------------------------------------------------------------------
(* reconcileLocked *)

\* The result of an operation the launcher never accepted.
Unlaunched(r, o) == [r EXCEPT !.state = "finalizing", !.outcome = o]

\* getOperation of the launcher, and what follows when it knows nothing.
getOperation(w) ==
    /\ pc[w] = "query"
    /\ IF lrec.state # "absent"
       THEN /\ stat' = [stat EXCEPT ![w] = Status(lrec)]
            /\ Goto(w, Status(lrec))
            /\ UNCHANGED <<row, lock, seen, sent>>
       ELSE IF seen[w].state = "active" \/ seen[w].accepted
       THEN Leave(w) /\ UNCHANGED row
       ELSE IF seen[w].cancel
       THEN transitionProcessOperation(w, {"intent"}, Unlaunched(row, "cancelled"), "publish")
       ELSE \/ transitionProcessOperation(w, {"intent"}, Unlaunched(row, "failed_to_start"), "publish")
            \/ Goto(w, "launch") /\ Keep /\ UNCHANGED row
    /\ UNCHANGED <<evidence, receipt, reached, files, launchVars, lost, faults>>

\* The launcher's registry accepts an identity once and reports it afterwards.
AcceptAgain == lrec' = [NoRecord EXCEPT !.state = "accepted"]
Accept      == lrec' = IF lrec.state = "absent" THEN [NoRecord EXCEPT !.state = "accepted"] ELSE lrec

\* launch, or a refusal of the launcher (its limits, another generation).
launch(w) ==
    /\ pc[w] = "launch"
    /\ \/ /\ Accept
          /\ stat' = [stat EXCEPT ![w] = Status(lrec')]
          /\ Goto(w, Status(lrec'))
          /\ UNCHANGED <<lock, seen, sent>>
       \/ UNCHANGED lrec /\ Leave(w)
    /\ UNCHANGED <<dbVars, files, lcancel, starts, lost, faults>>

Activated(r) == [r EXCEPT !.state = "active", !.accepted = TRUE]

\* markActive when the launcher has the operation and the row does not say so.
markActive(w) ==
    /\ pc[w] = "active"
    /\ IF seen[w].state = "active"
          THEN Goto(w, "observe") /\ Keep /\ UNCHANGED row
          ELSE transitionProcessOperation(w, {"intent"}, Activated(row), "observe")
    /\ UNCHANGED <<evidence, receipt, reached, files, launchVars, lost, faults>>

\* One turn of observeTerminal: a cancellation is passed on once, and a terminal
\* status ends it with a fresh read of the row.
SeesNoCancellation(w) == FALSE
SeesCancellation(w) == row.cancel /\ ~sent[w]
observeTerminal(w) ==
    /\ pc[w] = "observe"
    /\ ~SeesCancellation(w)
    /\ lrec.state = "terminal"
    /\ stat' = [stat EXCEPT ![w] = "terminal"]
    /\ seen' = [seen EXCEPT ![w] = row]
    /\ Goto(w, "terminal")
    /\ UNCHANGED <<dbVars, files, launchVars, lock, sent, lost, faults>>

\* cancelOperation of the launcher.
Cancelled == lcancel \/ lrec.state \in {"accepted", "active"}

\* notifyLauncherCancellation sends unless its evidence exists, and then writes
\* that evidence.  It is reached from the observation, and from a cancellation
\* outside the lock, which then takes it with the status it was told.
Notifying(w) == pc[w] = "notify" \/ (pc[w] = "observe" /\ SeesCancellation(w))
AfterNotify(w, to) ==
    IF pc[w] = "notify"
    THEN stat' = [stat EXCEPT ![w] = Status(lrec)] /\ Goto(w, to)
    ELSE UNCHANGED stat /\ Goto(w, "observe")
notifyLauncherCancellation(w) ==
    /\ Notifying(w)
    /\ lcancel' = IF reached THEN lcancel ELSE Cancelled
    /\ reached' = TRUE
    /\ sent' = [sent EXCEPT ![w] = TRUE]
    /\ AfterNotify(w, "lock")
    /\ UNCHANGED <<row, evidence, receipt, files, lrec, starts, lock, seen, lost, faults>>

\* The lease cannot be renewed, or the evidence not be written: the launcher is
\* told to cancel and the call throws.
abandonObservation(w) ==
    /\ Notifying(w) \/ pc[w] = "observe"
    /\ Fault
    /\ lcancel' = Cancelled
    /\ Leave(w)
    /\ UNCHANGED <<dbVars, files, lrec, starts, lost>>

\* The observation's deadline passes: the launcher is told, and the worker waits
\* on, no longer looking for a cancellation.
observationDeadline(w) ==
    /\ pc[w] = "observe"
    /\ Fault
    /\ lcancel' = Cancelled
    /\ sent' = [sent EXCEPT ![w] = TRUE]
    /\ UNCHANGED <<dbVars, files, lrec, starts, lock, pc, seen, stat, lost>>

\* The runtime shuts down: it requests the cancellation it will then pass on.
shutdown(w) ==
    /\ pc[w] = "observe"
    /\ row.state = "active"
    /\ ~row.cancel
    /\ Fault
    /\ row' = [row EXCEPT !.cancel = TRUE, !.revision = @ + 1]
    /\ Keep
    /\ UNCHANGED <<evidence, receipt, reached, files, launchVars, pc, lost>>

\* The launcher's terminal status: refused without the output it promises;
\* compared when the row has a result already; otherwise committed.
Finalizing(r) == [r EXCEPT !.state = "finalizing", !.accepted = TRUE,
                           !.outcome = lrec.outcome, !.ran = lrec.ran]
markFinalizing(w) ==
    /\ pc[w] = "terminal"
    /\ IF lrec.ran /\ ~lrec.output
       THEN Leave(w) /\ UNCHANGED row
       ELSE CASE seen[w].state = "intent" ->
                    transitionProcessOperation(w, {"intent"}, Activated(row), "terminal")
              [] seen[w].state = "active" ->
                    transitionProcessOperation(w, {"active"}, Finalizing(row), "publish")
              [] OTHER ->
                    /\ UNCHANGED row
                    /\ IF seen[w].outcome = lrec.outcome
                          THEN Goto(w, Route(seen[w])) /\ Keep
                          ELSE Leave(w)
    /\ UNCHANGED <<evidence, receipt, reached, files, launchVars, lost, faults>>

-----------------------------------------------------------------------------
(* finishFinalization *)

\* The streams the row has not bound; one is published when its file exists or
\* the launcher still has the output.
Unpublished(w) == IF seen[w].ran /\ ~seen[w].bound THEN Streams \ files ELSE {}

publishOutput(w) ==
    /\ pc[w] = "publish"
    /\ \E s \in Unpublished(w) :
          IF lrec.output THEN files' = files \cup {s} /\ Keep /\ UNCHANGED pc
                         ELSE UNCHANGED files /\ Leave(w)
    /\ UNCHANGED <<dbVars, launchVars, lost, faults>>

\* The artifacts are bound to the row.
bindArtifacts(w) ==
    /\ pc[w] = "publish"
    /\ Unpublished(w) = {}
    /\ IF seen[w].ran /\ ~seen[w].bound
          THEN transitionProcessOperation(w, {"finalizing"}, [row EXCEPT !.bound = TRUE], "evidence")
          ELSE Goto(w, "evidence") /\ Keep /\ UNCHANGED row
    /\ UNCHANGED <<evidence, receipt, reached, files, launchVars, lost, faults>>

\* publishTerminalEvidence writes evidence, then the receipt, each once; one that
\* exists and says something else is an error.
Recorded(old, new) == old \in {"none", new}
publishTerminalEvidence(w) ==
    /\ pc[w] = "evidence"
    /\ IF Recorded(evidence, seen[w].outcome)
          THEN evidence' = seen[w].outcome /\ Goto(w, "receipt") /\ Keep
          ELSE UNCHANGED evidence /\ Leave(w)
    /\ UNCHANGED <<row, receipt, reached, files, launchVars, lost, faults>>

recordOperationReceipt(w) ==
    /\ pc[w] = "receipt"
    /\ IF Recorded(receipt, seen[w].outcome)
          THEN /\ receipt' = seen[w].outcome
               /\ seen' = [seen EXCEPT ![w] = row]
               /\ Goto(w, "close")
               /\ UNCHANGED <<lock, stat, sent>>
          ELSE UNCHANGED receipt /\ Leave(w)
    /\ UNCHANGED <<row, evidence, reached, files, launchVars, lost, faults>>

AfterClose(r) == IF r.accepted THEN "acknowledge" ELSE "leave"
closeOperation(w) ==
    /\ pc[w] = "close"
    /\ IF seen[w].state = "terminal"
          THEN Goto(w, AfterClose(seen[w])) /\ Keep /\ UNCHANGED row
          ELSE transitionProcessOperation(w, {"finalizing", "intent"},
                   [row EXCEPT !.state = "terminal"], AfterClose(row))
    /\ UNCHANGED <<evidence, receipt, reached, files, launchVars, lost, faults>>

\* acknowledge: the launcher removes the output, then the row says so.
acknowledge(w) ==
    /\ pc[w] = "acknowledge"
    /\ IF seen[w].acked
       THEN Leave(w) /\ UNCHANGED lrec
       ELSE IF lrec.state = "terminal" /\ lrec.outcome = seen[w].outcome
       THEN /\ lrec' = [lrec EXCEPT !.acked = TRUE, !.output = FALSE]
            /\ Goto(w, "acknowledged")
            /\ Keep
       ELSE Leave(w) /\ UNCHANGED lrec
    /\ UNCHANGED <<dbVars, files, lcancel, starts, lost, faults>>

acknowledgeRow(w) ==
    /\ pc[w] = "acknowledged"
    /\ transitionProcessOperation(w, {"terminal"}, [row EXCEPT !.acked = TRUE], "leave")
    /\ UNCHANGED <<evidence, receipt, reached, files, launchVars, lost, faults>>

-----------------------------------------------------------------------------
(* cancelRunOperations *)

\* The row is read without the lock.
cancelRunOperations(w) ==
    /\ pc[w] = "idle"
    /\ row.state # "none"
    /\ Goto(w, IF row.state \in {"intent", "active"} THEN "request" ELSE "lockToCancel")
    /\ Keep
    /\ UNCHANGED <<dbVars, files, launchVars, lost, faults>>

\* requestProcessOperationCancellation reads the row again and writes against the
\* revision it read; a race lost to another cancellation or to a terminal result
\* is no error.
readToCancel(w) ==
    /\ pc[w] = "request"
    /\ seen' = [seen EXCEPT ![w] = row]
    /\ Goto(w, IF row.cancel THEN "lockToCancel" ELSE "requested")
    /\ UNCHANGED <<dbVars, files, launchVars, lock, stat, sent, lost, faults>>

requestProcessOperationCancellation(w) ==
    /\ pc[w] = "requested"
    /\ IF row.state # "terminal" /\ row.revision = seen[w].revision
       THEN /\ row' = [row EXCEPT !.cancel = TRUE, !.revision = @ + 1]
            /\ Goto(w, "lockToCancel")
            /\ Keep
       ELSE /\ UNCHANGED row
            /\ IF row.cancel \/ row.state \in {"finalizing", "terminal"}
                  THEN Goto(w, "lockToCancel") /\ Keep
                  ELSE Leave(w)
    /\ UNCHANGED <<evidence, receipt, reached, files, launchVars, lost, faults>>

\* Under the lock: an intent the launcher knows nothing of is finalized as
\* cancelled before launch; an accepted operation is cancelled through the
\* launcher, outside the lock; one with a result is reconciled under the lock
\* taken once more, unless nothing is left of it.
UnlaunchedByRow(r)  == r.state = "intent" /\ ~r.accepted
UnlaunchedForSure(r) == r.state = "intent" /\ ~r.accepted /\ lrec.state = "absent"
disposeCancellation(w) ==
    /\ pc[w] = "dispose"
    /\ IF seen[w].state = "finalizing" \/ (seen[w].state = "terminal" /\ ~seen[w].acked)
       THEN lock' = NoWorker /\ Goto(w, "lock") /\ UNCHANGED <<row, seen, stat, sent>>
       ELSE IF seen[w].state = "terminal" \/ ~seen[w].cancel
       THEN Leave(w) /\ UNCHANGED row
       ELSE IF UnlaunchedForSure(seen[w])
       THEN transitionProcessOperation(w, {"intent"}, Unlaunched(row, "cancelled"), "publish")
       ELSE lock' = NoWorker /\ Goto(w, "notify") /\ UNCHANGED <<row, seen, stat, sent>>
    /\ UNCHANGED <<evidence, receipt, reached, files, launchVars, lost, faults>>

-----------------------------------------------------------------------------
(* The launcher *)

\* The monitor thread releases the child.
startCommand ==
    /\ lrec.state = "accepted"
    /\ lrec' = [lrec EXCEPT !.state = "active"]
    /\ starts' = starts + 1
    /\ UNCHANGED <<dbVars, files, lcancel, lock, pc, seen, stat, sent, lost, faults>>

Ended(o, ran) == lrec' = [lrec EXCEPT !.state = "terminal", !.outcome = o, !.ran = ran, !.output = ran]

\* The command ends: by itself, or because it was cancelled.
endCommand ==
    /\ lrec.state = "active"
    /\ \E o \in {"completed", "cancelled"} : (o = "cancelled" => lcancel) /\ Ended(o, TRUE)
    /\ UNCHANGED <<dbVars, files, lcancel, starts, lock, pc, seen, stat, sent, lost, faults>>

\* The child could not be set up, or its execution failed under way.
failCommand ==
    /\ lrec.state \in {"accepted", "active"}
    /\ Ended(IF lrec.state = "accepted" THEN "failed_to_start" ELSE "runtime_interrupted", FALSE)
    /\ UNCHANGED <<dbVars, files, lcancel, starts, lock, pc, seen, stat, sent, lost, faults>>

\* interrupt_incomplete when the launcher starts again.
restartLauncher ==
    /\ lrec.state \in {"accepted", "active"}
    /\ Fault
    /\ Ended("runtime_interrupted", FALSE)
    /\ lcancel' = FALSE
    /\ UNCHANGED <<dbVars, files, starts, lock, pc, seen, stat, sent, lost>>

-----------------------------------------------------------------------------
(* Faults *)

\* The worker's process dies, or a statement or a request of it fails.
crash(w) ==
    /\ pc[w] # "idle"
    /\ Fault
    /\ Leave(w)
    /\ UNCHANGED <<dbVars, files, launchVars, lost>>

\* The launch is accepted and the answer lost; or the lock's session breaks while
\* the launch request is on its way, and the launch takes place without the lock.
loseAnswer(w) ==
    /\ pc[w] = "launch"
    /\ Fault
    /\ Accept
    /\ Leave(w)
    /\ UNCHANGED <<dbVars, files, lcancel, starts, lost>>

loseSession(w) ==
    /\ pc[w] = "launch"
    /\ lock = w
    /\ Fault
    /\ lock' = NoWorker
    /\ Goto(w, "launchUnlocked")
    /\ lost' = TRUE
    /\ UNCHANGED <<dbVars, files, launchVars, seen, stat, sent>>

launchUnlocked(w) ==
    /\ pc[w] = "launchUnlocked"
    /\ Accept
    /\ Leave(w)
    /\ UNCHANGED <<dbVars, files, lcancel, starts, lost, faults>>

-----------------------------------------------------------------------------
\* What a worker does once it has begun, its turn at the lock apart.
Step(w) ==
    \/ createProcessExecutionIntent(w) \/ enter(w) \/ leave(w)
    \/ getOperation(w) \/ launch(w) \/ launchUnlocked(w)
    \/ markActive(w) \/ observeTerminal(w) \/ notifyLauncherCancellation(w) \/ markFinalizing(w)
    \/ publishOutput(w) \/ bindArtifacts(w)
    \/ publishTerminalEvidence(w) \/ recordOperationReceipt(w) \/ closeOperation(w)
    \/ acknowledge(w) \/ acknowledgeRow(w)
    \/ readToCancel(w) \/ requestProcessOperationCancellation(w) \/ disposeCancellation(w)

Next ==
    \/ \E w \in Workers :
          \/ execute(w)
          \/ cancelRunOperations(w)
          \/ withProcessOperationLock(w)
          \/ lockTimeout(w)
          \/ Step(w)
          \/ abandonObservation(w)
          \/ observationDeadline(w)
          \/ shutdown(w)
          \/ crash(w)
          \/ loseAnswer(w)
          \/ loseSession(w)
    \/ startCommand
    \/ endCommand
    \/ failCommand
    \/ restartLauncher

Spec == Init /\ [][Next]_vars

\* A call that has begun goes on, and the advisory lock is granted in turn; waits
\* for it are, like faults, exceeded only so often.  The
\* cancellation is called again while the run waits for its recovery.  The
\* launcher's monitor starts what it accepted and ends what it was told to cancel
\* (the wall-time limit, which would end it too, is not counted on).
FairSpec ==
    /\ Spec
    /\ \A w \in Workers : WF_vars(Step(w)) /\ SF_vars(withProcessOperationLock(w))
    /\ SF_vars(\E w \in Workers : cancelRunOperations(w))
    /\ WF_vars(startCommand)
    /\ WF_vars(lcancel /\ (endCommand \/ failCommand))
    /\ <>[][~\E w \in Workers : lockTimeout(w)]_vars

-----------------------------------------------------------------------------
(* Properties *)

\* The variables have their types, and the row the shape its table demands
\* (process_operations_state_shape): a result exactly from finalizing on, and an
\* acceptance wherever the launcher had the operation.
TypeOK ==
    /\ row \in Rows
    /\ evidence \in Outcomes \cup {"none"}
    /\ receipt \in Outcomes \cup {"none"}
    /\ reached \in BOOLEAN
    /\ files \subseteq Streams
    /\ lrec \in LauncherRecords
    /\ lcancel \in BOOLEAN
    /\ starts \in Nat
    /\ lock \in Workers \cup {NoWorker}
    /\ pc \in [Workers -> Steps]
    /\ seen \in [Workers -> Rows]
    /\ stat \in [Workers -> {"unknown", "active", "terminal"}]
    /\ sent \in [Workers -> BOOLEAN]
    /\ lost \in BOOLEAN
    /\ faults \in 0..MaxFaults
    /\ row.state \in {"finalizing", "terminal"} <=> row.outcome # "none"
    /\ row.state = "active" => row.accepted
    /\ row.state = "finalizing" => row.accepted \/ row.outcome \in {"cancelled", "failed_to_start"}

\* The command is started once at the most, through crashes, retries,
\* reconciliations, lost answers and lost lock sessions.
StartedOnce == starts <= 1

\* The result in the database is the launcher's, and a result that says the
\* operation never reached the launcher is only there when it never did (unless a
\* lock session was lost).
ResultTruthful ==
    row.outcome # "none" =>
        /\ row.accepted => row.outcome = lrec.outcome /\ row.ran = lrec.ran
        /\ ~row.accepted => lrec.state = "absent" \/ lost

\* The launcher removes the output only when the row is terminal, has both
\* artifacts of an output that is complete, and evidence and receipt say the same.
OutputKept ==
    lrec.acked =>
        /\ row.state = "terminal"
        /\ evidence = row.outcome /\ receipt = row.outcome
        /\ lrec.ran => row.bound /\ files = Streams

\* A cancellation that was requested is settled: the operation gets its terminal
\* record, and the launcher's output is acknowledged, whatever step an earlier
\* call died at and whoever holds the operation's lock.
CancelSettles ==
    row.cancel ~> row.state = "terminal" /\ (row.accepted => row.acked)
=============================================================================
