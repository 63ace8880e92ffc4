----------------------- MODULE ProcessExecutionProofs -----------------------
(***************************************************************************)
(* Theorems about ProcessExecution, for any number of calls of the         *)
(* controller and any number of faults.                                    *)
(*                                                                         *)
(* Only the holder of the operation's lock changes more of the row than    *)
(* its cancellation, so what it has read stays true although the revision  *)
(* moves; At says what a worker may rely on at each of its steps, Durable  *)
(* how row, launcher record, evidence and files are related in between.    *)
(***************************************************************************)
EXTENDS ProcessExecution, TLAPS

\* Steps taken under the operation's lock.
LockedSteps == {"enter", "leave", "query", "launch", "active", "observe", "terminal", "publish",
                "evidence", "receipt", "close", "acknowledge", "acknowledged", "dispose"}

\* Two rows that differ in their cancellation at the most.
Same(r, s) ==
    /\ r.state = s.state /\ r.accepted = s.accepted
    /\ r.outcome = s.outcome /\ r.ran = s.ran
    /\ r.bound = s.bound /\ r.acked = s.acked

\* What worker w relies on.
At(w) ==
    /\ pc[w] \in LockedSteps => lock = w /\ Same(seen[w], row)
    /\ pc[w] \in {"query", "active", "terminal"} => row.state \in {"intent", "active"}
    /\ pc[w] = "launch" => row.state = "intent"
    /\ pc[w] = "observe" => row.state = "active"
    /\ pc[w] \in {"publish", "evidence", "receipt", "close"} => row.state = "finalizing"
    /\ pc[w] \in {"acknowledge", "acknowledged"} => row.state = "terminal" /\ row.accepted
    /\ pc[w] \in {"lockToCancel", "request", "requested", "dispose"} => row.state # "none"
    /\ pc[w] \in {"active", "observe", "notify"} \/ stat[w] = "active" => lrec.state # "absent"
    /\ pc[w] = "terminal" \/ stat[w] = "terminal" => lrec.state = "terminal"
    /\ pc[w] \in {"evidence", "receipt", "close"} => (row.ran => row.bound)
    /\ pc[w] \in {"receipt", "close"} => evidence = row.outcome
    /\ pc[w] = "close" => receipt = row.outcome
    /\ pc[w] = "launchUnlocked" => lost

\* How the durable records are related.
Durable ==
    /\ row.accepted => lrec.state # "absent"
    /\ row.accepted /\ row.outcome # "none" => lrec.state = "terminal"
    /\ lrec.state = "terminal" => lrec.outcome # "none"
    /\ row.bound => files = Streams
    /\ row.state = "terminal" => /\ evidence = row.outcome
                                 /\ receipt = row.outcome
                                 /\ row.ran => row.bound
    /\ lrec.acked => row.state = "terminal" /\ row.accepted
    /\ lrec.state \in {"absent", "accepted"} => starts = 0

IInv == TypeOK /\ (\A w \in Workers : At(w)) /\ Durable /\ StartedOnce /\ ResultTruthful

-----------------------------------------------------------------------------
(* Types *)

LEMMA RowTypes ==
    ASSUME NEW r \in Rows
    PROVE  /\ r.state \in {"none", "intent", "active", "finalizing", "terminal"}
           /\ r.accepted \in BOOLEAN /\ r.outcome \in Outcomes \cup {"none"} /\ r.ran \in BOOLEAN
           /\ r.bound \in BOOLEAN /\ r.acked \in BOOLEAN /\ r.cancel \in BOOLEAN /\ r.revision \in Nat
  BY DEF Rows

LEMMA NoRowType == NoRow \in Rows
  BY DEF NoRow, Rows

LEMMA NoRecordType == NoRecord \in LauncherRecords
  BY DEF NoRecord, LauncherRecords

\* What leaving does to the worker's own variables.
LEMMA LeaveTypes ==
    ASSUME TypeOK, NEW w \in Workers, Leave(w)
    PROVE  /\ lock' \in Workers \cup {NoWorker}
           /\ pc' = [pc EXCEPT ![w] = "idle"]
           /\ pc' \in [Workers -> Steps]
           /\ seen' \in [Workers -> Rows]
           /\ stat' \in [Workers -> {"unknown", "active", "terminal"}]
           /\ sent' \in [Workers -> BOOLEAN]
  <1>1. sent' \in [Workers -> BOOLEAN]
    BY Zenon DEF TypeOK, Leave
  <1> QED BY <1>1, NoRowType DEF TypeOK, Leave, Steps

\* A worker at a step of its own stays where it is when another one moves.
LEMMA OthersKeep ==
    ASSUME IInv, NEW u \in Workers,
           pc'[u] = pc[u], seen'[u] = seen[u], stat'[u] = stat[u],
           lock = u => /\ lock' = u
                       /\ Same(row, row')
                       /\ UNCHANGED <<evidence, receipt>>,
           row.state # "none" => row'.state # "none",
           lrec.state # "absent" => lrec'.state # "absent",
           lrec.state = "terminal" => lrec'.state = "terminal",
           lost => lost'
    PROVE  At(u)'
  <1>1. At(u)
    BY DEF IInv
  <1>2. pc[u] \in {"query", "terminal", "launch", "active", "observe", "publish", "evidence", "receipt",
                   "close", "acknowledge", "acknowledged"} => lock = u
    BY <1>1 DEF At, LockedSteps
  <1>3. /\ pc'[u] \in {"query", "active", "terminal"} => row'.state \in {"intent", "active"}
        /\ pc'[u] = "launch" => row'.state = "intent"
        /\ pc'[u] = "observe" => row'.state = "active"
        /\ pc'[u] \in {"publish", "evidence", "receipt", "close"} => row'.state = "finalizing"
        /\ pc'[u] \in {"acknowledge", "acknowledged"} => row'.state = "terminal" /\ row'.accepted
    BY <1>1, <1>2 DEF At, Same
  <1>4. pc'[u] \in LockedSteps => lock' = u /\ Same(seen'[u], row')
    BY <1>1 DEF At, Same
  <1>5. /\ pc'[u] \in {"lockToCancel", "request", "requested", "dispose"} => row'.state # "none"
        /\ pc'[u] \in {"active", "observe", "notify"} \/ stat'[u] = "active" => lrec'.state # "absent"
        /\ pc'[u] = "terminal" \/ stat'[u] = "terminal" => lrec'.state = "terminal"
        /\ pc'[u] = "launchUnlocked" => lost'
    BY <1>1 DEF At
  <1>6. /\ pc'[u] \in {"evidence", "receipt", "close"} => (row'.ran => row'.bound)
        /\ pc'[u] \in {"receipt", "close"} => evidence' = row'.outcome
        /\ pc'[u] = "close" => receipt' = row'.outcome
    BY <1>1, <1>2 DEF At, Same
  <1> QED BY <1>3, <1>4, <1>5, <1>6 DEF At

\* A call that ends and changes nothing else but a flag keeps the invariant.
LEMMA LeaveStep ==
    ASSUME IInv, NEW w \in Workers, Leave(w),
           UNCHANGED <<row, evidence, receipt, files, lrec, starts, lost>>,
           reached' \in BOOLEAN, lcancel' \in BOOLEAN, faults' \in 0..MaxFaults
    PROVE  IInv'
  <1>1. TypeOK'
    BY LeaveTypes DEF IInv, TypeOK
  <1>2. ASSUME NEW u \in Workers, u # w
        PROVE  At(u)'
    <2>1. pc'[u] = pc[u] /\ seen'[u] = seen[u] /\ stat'[u] = stat[u] /\ (lock = u => lock' = u)
      BY <1>2 DEF IInv, TypeOK, Leave
    <2> QED BY <2>1, OthersKeep DEF Same
  <1>3. At(w)'
    <2>1. pc'[w] = "idle" /\ stat'[w] = "unknown"
      BY DEF IInv, TypeOK, Leave
    <2> QED BY <2>1 DEF At, LockedSteps
  <1>4. Durable' /\ StartedOnce' /\ ResultTruthful'
    BY DEF IInv, Durable, StartedOnce, ResultTruthful
  <1> QED BY <1>1, <1>2, <1>3, <1>4 DEF IInv

\* A step of worker w that leaves the others' variables alone, and the row's
\* result, evidence and receipt too unless w holds the lock.
LEMMA StepOfWorker ==
    ASSUME IInv, NEW w \in Workers,
           TypeOK', At(w)', Durable', StartedOnce', ResultTruthful',
           \A u \in Workers : u # w =>
               /\ pc'[u] = pc[u] /\ seen'[u] = seen[u] /\ stat'[u] = stat[u]
               /\ lock = u => /\ lock' = u
                              /\ Same(row, row')
                              /\ UNCHANGED <<evidence, receipt>>,
           row.state # "none" => row'.state # "none",
           lrec.state # "absent" => lrec'.state # "absent",
           lrec.state = "terminal" => lrec'.state = "terminal",
           lost => lost'
    PROVE  IInv'
  <1>1. \A u \in Workers : u # w => At(u)'
    BY OthersKeep
  <1> QED BY <1>1 DEF IInv

\* Only this worker's control state changes.
LEMMA GotoStep ==
    ASSUME IInv, NEW w \in Workers, NEW to \in Steps, Goto(w, to), Keep,
           UNCHANGED <<row, evidence, receipt, files, lrec, starts, lost>>,
           reached' \in BOOLEAN, lcancel' \in BOOLEAN, faults' \in 0..MaxFaults,
           At(w)'
    PROVE  IInv'
  <1>1. TypeOK'
    BY DEF IInv, TypeOK, Goto, Keep
  <1>2. \A u \in Workers : u # w => pc'[u] = pc[u]
    BY DEF IInv, TypeOK, Goto
  <1>3. Durable' /\ StartedOnce' /\ ResultTruthful'
    BY DEF IInv, Durable, StartedOnce, ResultTruthful
  <1>4. Same(row, row')
    BY DEF Same
  <1> QED BY <1>1, <1>2, <1>3, <1>4, StepOfWorker DEF Keep

\* What a transition of the row comes to: the call throws, or the row and the
\* worker's copy of it are the new ones.
LEMMA TransitionCases ==
    ASSUME IInv, NEW w \in Workers, NEW states, NEW new \in Rows, NEW to \in Steps,
           transitionProcessOperation(w, states, new, to)
    PROVE  \/ UNCHANGED row /\ Leave(w)
           \/ /\ row.state \in states
              /\ row' \in Rows /\ Same(row', new)
              /\ seen' = [seen EXCEPT ![w] = row']
              /\ seen' \in [Workers -> Rows] /\ seen'[w] = row'
              /\ pc' = [pc EXCEPT ![w] = to]
              /\ pc' \in [Workers -> Steps] /\ pc'[w] = to
              /\ UNCHANGED <<lock, stat, sent>>
  <1>1. row.revision + 1 \in Nat
    BY RowTypes DEF IInv, TypeOK
  <1>2. /\ [new EXCEPT !.revision = row.revision + 1] \in Rows
        /\ Same([new EXCEPT !.revision = row.revision + 1], new)
    BY <1>1 DEF Rows, Same
  <1> QED BY <1>2 DEF IInv, TypeOK, transitionProcessOperation, Goto

\* The row takes a new result, acceptance, binding or state from the holder of
\* the lock; the launcher, the evidence and the files stay.
LEMMA TransitionStep ==
    ASSUME IInv, NEW w \in Workers, NEW states, NEW new \in Rows, NEW to \in Steps,
           pc[w] \in LockedSteps,
           transitionProcessOperation(w, states, new, to),
           UNCHANGED <<evidence, receipt, reached, files, lrec, lcancel, starts, lost, faults>>,
           row.state \in states =>
               /\ new.state # "none"
               /\ new.state \in {"finalizing", "terminal"} <=> new.outcome # "none"
               /\ new.state = "active" => new.accepted
               /\ new.state = "finalizing" => new.accepted \/ new.outcome \in {"cancelled", "failed_to_start"},
           row.state \in states /\ Same(row', new) /\ row' \in Rows => Durable' /\ ResultTruthful',
           (/\ row.state \in states /\ Same(row', new) /\ row' \in Rows
            /\ pc'[w] = to /\ seen'[w] = row' /\ UNCHANGED <<lock, stat>>) => At(w)'
    PROVE  IInv'
  <1>1. CASE UNCHANGED row /\ Leave(w)
    BY <1>1, LeaveStep DEF IInv, TypeOK
  <1>2. CASE ~(UNCHANGED row /\ Leave(w))
    <2>1. /\ row.state \in states
          /\ row' \in Rows /\ Same(row', new)
          /\ seen' = [seen EXCEPT ![w] = row']
          /\ seen' \in [Workers -> Rows] /\ seen'[w] = row'
          /\ pc' = [pc EXCEPT ![w] = to]
          /\ pc' \in [Workers -> Steps] /\ pc'[w] = to
          /\ UNCHANGED <<lock, stat, sent>>
      BY <1>2, TransitionCases
    <2>2. TypeOK'
      BY <2>1 DEF IInv, TypeOK, Same
    <2>3. Durable' /\ ResultTruthful' /\ At(w)'
      BY <2>1
    <2>4. StartedOnce'
      BY DEF IInv, StartedOnce
    <2>5. lock = w
      BY DEF IInv, At
    <2>6. \A u \in Workers : u # w => pc'[u] = pc[u] /\ seen'[u] = seen[u] /\ stat'[u] = stat[u] /\ lock # u
      BY <2>1, <2>5 DEF IInv, TypeOK
    <2>7. row'.state # "none"
      BY <2>1 DEF Same
    <2> QED BY <2>2, <2>3, <2>4, <2>6, <2>7, StepOfWorker
  <1> QED BY <1>1, <1>2

-----------------------------------------------------------------------------
(* One lemma per operation of the controller *)

\* Where a worker is after a move.
LEMMA Moves ==
    ASSUME IInv, NEW w \in Workers, NEW to \in Steps, Goto(w, to)
    PROVE  pc'[w] = to
  BY DEF IInv, TypeOK, Goto

LEMMA ExecuteStep ==
    ASSUME IInv, NEW w \in Workers, execute(w)
    PROVE  IInv'
  <1>1. /\ Goto(w, "lock") /\ Keep /\ "lock" \in Steps
        /\ UNCHANGED <<dbVars, files, launchVars, lost, faults>>
    BY DEF execute, Steps
  <1>2. At(w)'
    BY <1>1, Moves DEF IInv, At, Keep, LockedSteps, dbVars, launchVars
  <1> QED BY <1>1, <1>2, GotoStep DEF IInv, TypeOK, dbVars, launchVars

LEMMA CancelRunStep ==
    ASSUME IInv, NEW w \in Workers, cancelRunOperations(w)
    PROVE  IInv'
  <1>1. PICK to \in {"request", "lockToCancel"} : Goto(w, to)
    BY DEF cancelRunOperations
  <1>2. /\ to \in Steps /\ Keep /\ row.state # "none"
        /\ UNCHANGED <<dbVars, files, launchVars, lost, faults>>
    BY DEF cancelRunOperations, Steps
  <1>3. At(w)'
    BY <1>1, <1>2, Moves DEF IInv, At, Keep, LockedSteps, dbVars, launchVars
  <1> QED BY <1>1, <1>2, <1>3, GotoStep DEF IInv, TypeOK, dbVars, launchVars

LEMMA LockStep ==
    ASSUME IInv, NEW w \in Workers, withProcessOperationLock(w)
    PROVE  IInv'
  <1>1. PICK to \in {"enter", "dispose"} : Goto(w, to) /\ (to = "dispose" => pc[w] = "lockToCancel")
    BY DEF withProcessOperationLock, LockNext
  <1>2. /\ lock = NoWorker /\ lock' = w
        /\ seen' = [seen EXCEPT ![w] = row]
        /\ to \in Steps /\ pc' = [pc EXCEPT ![w] = to]
        /\ UNCHANGED <<row, evidence, receipt, reached, files, lrec, lcancel, starts, stat, sent, lost, faults>>
    BY <1>1 DEF withProcessOperationLock, Steps, Goto, dbVars, launchVars
  <1>3. /\ seen' \in [Workers -> Rows] /\ seen'[w] = row
        /\ pc' \in [Workers -> Steps] /\ pc'[w] = to
        /\ \A u \in Workers : u # w => pc'[u] = pc[u] /\ seen'[u] = seen[u] /\ stat'[u] = stat[u] /\ lock # u
    BY <1>2, ConstantsAssumption DEF IInv, TypeOK, ConstantsAssumption
  <1>4. TypeOK'
    BY <1>2, <1>3 DEF IInv, TypeOK
  <1>5. At(w)'
    BY <1>1, <1>2, <1>3 DEF IInv, At, Same
  <1>6. Durable' /\ StartedOnce' /\ ResultTruthful'
    BY <1>2 DEF IInv, Durable, StartedOnce, ResultTruthful
  <1> QED BY <1>2, <1>3, <1>4, <1>5, <1>6, StepOfWorker

LEMMA CreateIntentStep ==
    ASSUME IInv, NEW w \in Workers, createProcessExecutionIntent(w)
    PROVE  IInv'
  <1>1. /\ pc[w] = "enter" /\ row.state = "none"
        /\ UNCHANGED <<evidence, receipt, reached, files, lrec, lcancel, starts, lost, faults>>
    BY DEF createProcessExecutionIntent, launchVars
  <1>2. CASE UNCHANGED row /\ Leave(w)
    BY <1>1, <1>2, LeaveStep DEF IInv, TypeOK
  <1>3. CASE ~(UNCHANGED row /\ Leave(w))
    <2>1. /\ row' = [NoRow EXCEPT !.state = "intent", !.revision = 1]
          /\ seen' = [seen EXCEPT ![w] = row']
          /\ pc' = [pc EXCEPT ![w] = "launch"] /\ "launch" \in Steps
          /\ UNCHANGED <<lock, stat, sent>>
      BY <1>3 DEF createProcessExecutionIntent, Goto, Steps
    <2>2. /\ row' \in Rows /\ row'.state = "intent" /\ ~row'.accepted /\ ~row'.bound /\ row'.outcome = "none"
      BY <2>1 DEF NoRow, Rows
    <2>3. lock = w
      BY <1>1 DEF IInv, At, LockedSteps
    <2>4. /\ seen' \in [Workers -> Rows] /\ seen'[w] = row'
          /\ pc' \in [Workers -> Steps] /\ pc'[w] = "launch"
          /\ \A u \in Workers : u # w => pc'[u] = pc[u] /\ seen'[u] = seen[u] /\ stat'[u] = stat[u] /\ lock # u
      BY <2>1, <2>2, <2>3 DEF IInv, TypeOK
    <2>5. TypeOK'
      BY <1>1, <2>1, <2>2, <2>4 DEF IInv, TypeOK
    <2>6. At(w)'
      BY <1>1, <2>1, <2>2, <2>3, <2>4 DEF IInv, At, Same
    <2>7. Durable' /\ StartedOnce' /\ ResultTruthful'
      BY <1>1, <2>2 DEF IInv, Durable, StartedOnce, ResultTruthful
    <2> QED BY <1>1, <2>4, <2>5, <2>6, <2>7, StepOfWorker
  <1> QED BY <1>2, <1>3

\* Where the row alone decides.
LEMMA RouteCases ==
    ASSUME NEW r \in Rows
    PROVE  /\ Route(r) \in {"acknowledge", "leave", "publish", "query"}
           /\ Route(r) = "acknowledge" => r.state = "terminal" /\ r.accepted
           /\ Route(r) = "publish" => r.state = "finalizing"
           /\ Route(r) = "query" => r.state \in {"none", "intent", "active"}
  <1>1. CASE r.state = "terminal"
    BY <1>1 DEF Route
  <1>2. CASE r.state = "finalizing"
    BY <1>2 DEF Route
  <1>3. CASE r.state \in {"none", "intent", "active"}
    BY <1>3 DEF Route
  <1> QED BY <1>1, <1>2, <1>3, RowTypes

LEMMA EnterStep ==
    ASSUME IInv, NEW w \in Workers, enter(w)
    PROVE  IInv'
  <1>1. /\ pc[w] = "enter" /\ row.state # "none" /\ Keep
        /\ UNCHANGED <<row, evidence, receipt, reached, files, lrec, lcancel, starts, lost, faults>>
    BY DEF enter, dbVars, launchVars
  <1>2. /\ seen[w] \in Rows /\ row \in Rows
        /\ stat[w] \in {"unknown", "active", "terminal"}
        /\ lock = w /\ Same(seen[w], row)
    BY <1>1 DEF IInv, TypeOK, At, LockedSteps
  <1>3. CASE Route(seen[w]) = "query" /\ stat[w] # "unknown"
    <2>1. Goto(w, stat[w]) /\ stat[w] \in Steps
      BY <1>2, <1>3 DEF enter, Steps
    <2>2. At(w)'
      BY <1>1, <1>2, <1>3, <2>1, Moves, RouteCases DEF IInv, At, Keep, Same, LockedSteps
    <2> QED BY <1>1, <2>1, <2>2, GotoStep DEF IInv, TypeOK
  <1>4. CASE ~(Route(seen[w]) = "query" /\ stat[w] # "unknown")
    <2>1. Goto(w, Route(seen[w])) /\ Route(seen[w]) \in Steps
      BY <1>2, <1>4, RouteCases DEF enter, Steps
    <2>2. At(w)'
      BY <1>1, <1>2, <2>1, Moves, RouteCases DEF IInv, At, Keep, Same, LockedSteps
    <2> QED BY <1>1, <2>1, <2>2, GotoStep DEF IInv, TypeOK
  <1> QED BY <1>3, <1>4

LEMMA LeavingStep ==
    ASSUME IInv, NEW w \in Workers, leave(w)
    PROVE  IInv'
  BY LeaveStep DEF IInv, TypeOK, leave, dbVars, launchVars

\* What an unlaunched operation's result makes of the row.
LEMMA UnlaunchedRow ==
    ASSUME NEW r \in Rows, NEW o \in {"cancelled", "failed_to_start"}
    PROVE  /\ Unlaunched(r, o) \in Rows
           /\ Unlaunched(r, o).state = "finalizing" /\ Unlaunched(r, o).outcome = o
           /\ Unlaunched(r, o).accepted = r.accepted /\ Unlaunched(r, o).ran = r.ran
           /\ Unlaunched(r, o).bound = r.bound
  BY DEF Unlaunched, Rows, Outcomes

\* An intent that the launcher knows nothing of gets its result under the lock.
LEMMA UnlaunchedStep ==
    ASSUME IInv, NEW w \in Workers, NEW o \in {"cancelled", "failed_to_start"},
           pc[w] \in LockedSteps, lrec.state = "absent", ~row.accepted,
           transitionProcessOperation(w, {"intent"}, Unlaunched(row, o), "publish"),
           UNCHANGED <<evidence, receipt, reached, files, lrec, lcancel, starts, lost, faults>>
    PROVE  IInv'
  <1> DEFINE new == Unlaunched(row, o)
  <1>1. /\ row \in Rows /\ new \in Rows /\ new.state = "finalizing" /\ new.outcome = o
        /\ ~new.accepted /\ new.ran = row.ran /\ new.bound = row.bound
    BY UnlaunchedRow DEF IInv, TypeOK
  <1>2. row.state \in {"intent"} =>
               /\ new.state # "none"
               /\ new.state \in {"finalizing", "terminal"} <=> new.outcome # "none"
               /\ new.state = "active" => new.accepted
               /\ new.state = "finalizing" => new.accepted \/ new.outcome \in {"cancelled", "failed_to_start"}
    BY <1>1
  <1>3. row.state \in {"intent"} /\ Same(row', new) /\ row' \in Rows => Durable' /\ ResultTruthful'
    BY <1>1 DEF IInv, Same, Durable, ResultTruthful
  <1>4. (/\ row.state \in {"intent"} /\ Same(row', new) /\ row' \in Rows
         /\ pc'[w] = "publish" /\ seen'[w] = row' /\ UNCHANGED <<lock, stat>>) => At(w)'
    BY <1>1 DEF IInv, At, Same
  <1> HIDE DEF new
  <1>5. "publish" \in Steps
    BY DEF Steps
  <1>6. transitionProcessOperation(w, {"intent"}, new, "publish")
    BY DEF new
  <1> QED BY <1>1, <1>2, <1>3, <1>4, <1>5, <1>6, TransitionStep

LEMMA GetOperationStep ==
    ASSUME IInv, NEW w \in Workers, getOperation(w)
    PROVE  IInv'
  <1>1. /\ pc[w] = "query" /\ pc[w] \in LockedSteps
        /\ UNCHANGED <<evidence, receipt, reached, files, lrec, lcancel, starts, lost, faults>>
    BY DEF getOperation, launchVars, LockedSteps
  <1>2. /\ row \in Rows /\ seen[w] \in Rows /\ lock = w /\ Same(seen[w], row)
        /\ row.state \in {"intent", "active"}
    BY <1>1 DEF IInv, TypeOK, At
  <1>3. CASE lrec.state # "absent"
    <2>1. /\ Status(lrec) \in {"active", "terminal"} /\ Status(lrec) \in Steps
          /\ Status(lrec) = "terminal" => lrec.state = "terminal"
      BY <1>3 DEF IInv, TypeOK, LauncherRecords, Status, Steps
    <2>2. /\ stat' = [stat EXCEPT ![w] = Status(lrec)]
          /\ pc' = [pc EXCEPT ![w] = Status(lrec)]
          /\ UNCHANGED <<row, lock, seen, sent>>
      BY <1>3 DEF getOperation, Goto
    <2>3. /\ stat' \in [Workers -> {"unknown", "active", "terminal"}] /\ stat'[w] = Status(lrec)
          /\ pc' \in [Workers -> Steps] /\ pc'[w] = Status(lrec)
          /\ \A u \in Workers : u # w => pc'[u] = pc[u] /\ seen'[u] = seen[u] /\ stat'[u] = stat[u] /\ lock # u
      BY <1>2, <2>1, <2>2 DEF IInv, TypeOK
    <2>4. TypeOK'
      BY <1>1, <2>2, <2>3 DEF IInv, TypeOK
    <2>5. At(w)'
      BY <1>1, <1>2, <1>3, <2>1, <2>2, <2>3 DEF IInv, At, Same
    <2>6. Durable' /\ StartedOnce' /\ ResultTruthful'
      BY <1>1, <2>2 DEF IInv, Durable, StartedOnce, ResultTruthful
    <2> QED BY <1>1, <2>2, <2>3, <2>4, <2>5, <2>6, StepOfWorker
  <1>4. CASE lrec.state = "absent" /\ (seen[w].state = "active" \/ seen[w].accepted)
    BY <1>1, <1>4, LeaveStep DEF IInv, TypeOK, getOperation
  <1>5. CASE lrec.state = "absent" /\ ~(seen[w].state = "active" \/ seen[w].accepted)
    <2>1. ~row.accepted /\ row.state = "intent"
      BY <1>2, <1>5 DEF Same
    <2>2. CASE transitionProcessOperation(w, {"intent"}, Unlaunched(row, "cancelled"), "publish")
      BY <1>1, <1>5, <2>1, <2>2, UnlaunchedStep
    <2>3. CASE transitionProcessOperation(w, {"intent"}, Unlaunched(row, "failed_to_start"), "publish")
      BY <1>1, <1>5, <2>1, <2>3, UnlaunchedStep
    <2>4. CASE Goto(w, "launch") /\ Keep /\ UNCHANGED row
      <3>1. "launch" \in Steps
        BY DEF Steps
      <3>2. At(w)'
        BY <1>1, <1>2, <2>1, <2>4, <3>1, Moves DEF IInv, At, Keep, Same
      <3> QED BY <1>1, <2>4, <3>1, <3>2, GotoStep DEF IInv, TypeOK
    <2> QED BY <1>5, <2>2, <2>3, <2>4 DEF getOperation
  <1> QED BY <1>3, <1>4, <1>5

\* The launcher accepts an identity once: its record goes forward.
LEMMA AcceptFacts ==
    ASSUME TypeOK, Accept
    PROVE  /\ lrec' \in LauncherRecords /\ lrec'.state # "absent"
           /\ lrec.state # "absent" => lrec' = lrec
           /\ lrec.state = "absent" => lrec'.state = "accepted" /\ ~lrec'.acked
  BY NoRecordType DEF TypeOK, Accept, NoRecord, LauncherRecords

\* An acceptance while the row is an intent, or after a session was lost, says
\* nothing the durable records deny.
LEMMA AcceptDurable ==
    ASSUME IInv, Accept, row.state = "intent" \/ lost,
           UNCHANGED <<row, evidence, receipt, files, starts, lost>>
    PROVE  Durable' /\ StartedOnce' /\ ResultTruthful'
  BY AcceptFacts DEF IInv, TypeOK, Durable, StartedOnce, ResultTruthful

LEMMA LeaveAfterAccept ==
    ASSUME IInv, NEW w \in Workers, Leave(w), Accept, row.state = "intent" \/ lost,
           UNCHANGED <<row, evidence, receipt, reached, files, lcancel, starts, lost>>,
           faults' \in 0..MaxFaults
    PROVE  IInv'
  <1>1. TypeOK'
    BY LeaveTypes, AcceptFacts DEF IInv, TypeOK
  <1>2. At(w)'
    <2>1. pc'[w] = "idle" /\ stat'[w] = "unknown"
      BY DEF IInv, TypeOK, Leave
    <2> QED BY <2>1 DEF At, LockedSteps
  <1>3. \A u \in Workers : u # w =>
            pc'[u] = pc[u] /\ seen'[u] = seen[u] /\ stat'[u] = stat[u] /\ (lock = u => lock' = u)
    BY DEF IInv, TypeOK, Leave
  <1>4. Same(row, row') /\ (lrec.state = "terminal" => lrec'.state = "terminal") /\ lrec'.state # "absent"
    BY AcceptFacts DEF IInv, Same
  <1> QED BY <1>1, <1>2, <1>3, <1>4, AcceptDurable, StepOfWorker

LEMMA LaunchStep ==
    ASSUME IInv, NEW w \in Workers, launch(w)
    PROVE  IInv'
  <1>1. /\ pc[w] = "launch"
        /\ UNCHANGED <<row, evidence, receipt, reached, files, lcancel, starts, lost, faults>>
    BY DEF launch, dbVars
  <1>2. lock = w /\ Same(seen[w], row) /\ row.state = "intent"
    BY <1>1 DEF IInv, At, LockedSteps
  <1>3. CASE UNCHANGED lrec /\ Leave(w)
    BY <1>1, <1>3, LeaveStep DEF IInv, TypeOK
  <1>4. CASE ~(UNCHANGED lrec /\ Leave(w))
    <2>1. /\ Accept
          /\ stat' = [stat EXCEPT ![w] = Status(lrec')]
          /\ pc' = [pc EXCEPT ![w] = Status(lrec')]
          /\ UNCHANGED <<lock, seen, sent>>
      BY <1>4 DEF launch, Goto
    <2>2. lrec' \in LauncherRecords /\ lrec'.state # "absent" /\ (lrec.state # "absent" => lrec' = lrec)
      BY <2>1, AcceptFacts DEF IInv
    <2>3. /\ Status(lrec') \in {"active", "terminal"} /\ Status(lrec') \in Steps
          /\ Status(lrec') = "terminal" => lrec'.state = "terminal"
      BY <2>2 DEF LauncherRecords, Status, Steps
    <2>4. /\ stat' \in [Workers -> {"unknown", "active", "terminal"}] /\ stat'[w] = Status(lrec')
          /\ pc' \in [Workers -> Steps] /\ pc'[w] = Status(lrec')
          /\ \A u \in Workers : u # w => pc'[u] = pc[u] /\ seen'[u] = seen[u] /\ stat'[u] = stat[u] /\ lock # u
      BY <1>2, <2>1, <2>3 DEF IInv, TypeOK
    <2>5. TypeOK'
      BY <1>1, <2>1, <2>2, <2>4 DEF IInv, TypeOK
    <2>6. At(w)'
      BY <1>1, <1>2, <2>1, <2>2, <2>3, <2>4 DEF IInv, At, Same
    <2> QED BY <1>1, <1>2, <2>1, <2>2, <2>4, <2>5, <2>6, AcceptDurable, StepOfWorker
  <1> QED BY <1>3, <1>4

LEMMA ActivatedRow ==
    ASSUME NEW r \in Rows
    PROVE  /\ Activated(r) \in Rows
           /\ Activated(r).state = "active" /\ Activated(r).accepted
           /\ Activated(r).outcome = r.outcome /\ Activated(r).ran = r.ran
           /\ Activated(r).bound = r.bound
  BY DEF Activated, Rows

\* The row of an intent the launcher has accepted becomes active.
LEMMA ActivateStep ==
    ASSUME IInv, NEW w \in Workers, pc[w] \in LockedSteps, lrec.state # "absent",
           NEW to \in {"observe", "terminal"}, to = "terminal" => lrec.state = "terminal",
           transitionProcessOperation(w, {"intent"}, Activated(row), to),
           UNCHANGED <<evidence, receipt, reached, files, lrec, lcancel, starts, lost, faults>>
    PROVE  IInv'
  <1> DEFINE new == Activated(row)
  <1>1. /\ row \in Rows /\ new \in Rows /\ new.state = "active" /\ new.accepted
        /\ new.outcome = row.outcome /\ new.ran = row.ran /\ new.bound = row.bound
    BY ActivatedRow DEF IInv, TypeOK
  <1>2. row.state = "intent" => row.outcome = "none"
    BY DEF IInv, TypeOK
  <1>3. row.state \in {"intent"} =>
               /\ new.state # "none"
               /\ new.state \in {"finalizing", "terminal"} <=> new.outcome # "none"
               /\ new.state = "active" => new.accepted
               /\ new.state = "finalizing" => new.accepted \/ new.outcome \in {"cancelled", "failed_to_start"}
    BY <1>1, <1>2
  <1>4. row.state \in {"intent"} /\ Same(row', new) /\ row' \in Rows => Durable' /\ ResultTruthful'
    BY <1>1, <1>2 DEF IInv, Same, Durable, ResultTruthful
  <1>5. (/\ row.state \in {"intent"} /\ Same(row', new) /\ row' \in Rows
         /\ pc'[w] = to /\ seen'[w] = row' /\ UNCHANGED <<lock, stat>>) => At(w)'
    BY <1>1 DEF IInv, At, Same
  <1> HIDE DEF new
  <1>6. to \in Steps
    BY DEF Steps
  <1>7. transitionProcessOperation(w, {"intent"}, new, to)
    BY DEF new
  <1> QED BY <1>1, <1>3, <1>4, <1>5, <1>6, <1>7, TransitionStep

LEMMA MarkActiveStep ==
    ASSUME IInv, NEW w \in Workers, markActive(w)
    PROVE  IInv'
  <1>1. /\ pc[w] = "active" /\ pc[w] \in LockedSteps
        /\ UNCHANGED <<evidence, receipt, reached, files, lrec, lcancel, starts, lost, faults>>
    BY DEF markActive, launchVars, LockedSteps
  <1>2. lock = w /\ Same(seen[w], row) /\ lrec.state # "absent"
    BY <1>1 DEF IInv, At
  <1>3. CASE seen[w].state = "active"
    <2>1. Goto(w, "observe") /\ Keep /\ UNCHANGED row /\ "observe" \in Steps
      BY <1>3 DEF markActive, Steps
    <2>2. At(w)'
      BY <1>1, <1>2, <1>3, <2>1, Moves DEF IInv, At, Keep, Same
    <2> QED BY <1>1, <2>1, <2>2, GotoStep DEF IInv, TypeOK
  <1>4. CASE seen[w].state # "active"
    <2>1. transitionProcessOperation(w, {"intent"}, Activated(row), "observe")
      BY <1>4 DEF markActive
    <2> QED BY <1>1, <1>2, <2>1, ActivateStep
  <1> QED BY <1>3, <1>4

LEMMA ObserveTerminalStep ==
    ASSUME IInv, NEW w \in Workers, observeTerminal(w)
    PROVE  IInv'
  <1>1. /\ pc[w] = "observe" /\ lrec.state = "terminal"
        /\ stat' = [stat EXCEPT ![w] = "terminal"]
        /\ seen' = [seen EXCEPT ![w] = row]
        /\ pc' = [pc EXCEPT ![w] = "terminal"] /\ "terminal" \in Steps
        /\ UNCHANGED <<row, evidence, receipt, reached, files, lrec, lcancel, starts, lock, sent, lost, faults>>
    BY DEF observeTerminal, Goto, Steps, dbVars, launchVars
  <1>2. lock = w /\ row.state = "active"
    BY <1>1 DEF IInv, At, LockedSteps
  <1>3. /\ stat' \in [Workers -> {"unknown", "active", "terminal"}] /\ stat'[w] = "terminal"
        /\ seen' \in [Workers -> Rows] /\ seen'[w] = row
        /\ pc' \in [Workers -> Steps] /\ pc'[w] = "terminal"
        /\ \A u \in Workers : u # w => pc'[u] = pc[u] /\ seen'[u] = seen[u] /\ stat'[u] = stat[u] /\ lock # u
    BY <1>1, <1>2 DEF IInv, TypeOK
  <1>4. TypeOK'
    BY <1>1, <1>3 DEF IInv, TypeOK
  <1>5. At(w)'
    BY <1>1, <1>2, <1>3 DEF At, Same
  <1>6. Durable' /\ StartedOnce' /\ ResultTruthful'
    BY <1>1 DEF IInv, Durable, StartedOnce, ResultTruthful
  <1> QED BY <1>1, <1>3, <1>4, <1>5, <1>6, StepOfWorker

LEMMA NotifyStep ==
    ASSUME IInv, NEW w \in Workers, notifyLauncherCancellation(w)
    PROVE  IInv'
  <1>1. /\ pc[w] \in {"notify", "observe"}
        /\ reached' = TRUE
        /\ UNCHANGED <<row, evidence, receipt, files, lrec, starts, lock, seen, lost, faults>>
    BY DEF notifyLauncherCancellation, Notifying
  <1>2. lcancel' \in BOOLEAN
    BY DEF IInv, TypeOK, notifyLauncherCancellation, Cancelled
  <1>3. sent' \in [Workers -> BOOLEAN]
    BY Zenon DEF IInv, TypeOK, notifyLauncherCancellation
  <1>4. Durable' /\ StartedOnce' /\ ResultTruthful'
    BY <1>1 DEF IInv, Durable, StartedOnce, ResultTruthful
  <1>5. Same(row, row')
    BY <1>1 DEF Same
  <1>6. CASE pc[w] = "notify"
    <2>1. /\ lrec.state # "absent"
          /\ Status(lrec) \in {"active", "terminal"}
          /\ Status(lrec) = "terminal" => lrec.state = "terminal"
      BY <1>6 DEF IInv, TypeOK, At, LauncherRecords, Status
    <2>2. /\ stat' = [stat EXCEPT ![w] = Status(lrec)]
          /\ pc' = [pc EXCEPT ![w] = "lock"] /\ "lock" \in Steps
      BY <1>6 DEF notifyLauncherCancellation, AfterNotify, Goto, Steps
    <2>3. /\ stat' \in [Workers -> {"unknown", "active", "terminal"}] /\ stat'[w] = Status(lrec)
          /\ pc' \in [Workers -> Steps] /\ pc'[w] = "lock"
          /\ \A u \in Workers : u # w => pc'[u] = pc[u] /\ stat'[u] = stat[u]
      BY <2>1, <2>2 DEF IInv, TypeOK
    <2>4. TypeOK'
      BY <1>1, <1>2, <1>3, <2>3 DEF IInv, TypeOK
    <2>5. At(w)'
      BY <1>1, <1>6, <2>1, <2>3 DEF At, LockedSteps
    <2> QED BY <1>1, <1>4, <1>5, <2>3, <2>4, <2>5, StepOfWorker
  <1>7. CASE pc[w] = "observe"
    <2>1. UNCHANGED stat /\ pc' = [pc EXCEPT ![w] = "observe"] /\ "observe" \in Steps
      BY <1>7 DEF notifyLauncherCancellation, AfterNotify, Goto, Steps
    <2>2. /\ pc' \in [Workers -> Steps] /\ pc'[w] = "observe"
          /\ \A u \in Workers : u # w => pc'[u] = pc[u] /\ stat'[u] = stat[u]
      BY <2>1 DEF IInv, TypeOK
    <2>3. TypeOK'
      BY <1>1, <1>2, <1>3, <2>1, <2>2 DEF IInv, TypeOK
    <2>4. At(w)'
      BY <1>1, <1>7, <2>1, <2>2 DEF IInv, At, Same
    <2> QED BY <1>1, <1>4, <1>5, <2>2, <2>3, <2>4, StepOfWorker
  <1> QED BY <1>1, <1>6, <1>7

\* A fault is counted within its bound.
LEMMA FaultCounted ==
    ASSUME TypeOK, Fault
    PROVE  faults' \in 0..MaxFaults
  BY ConstantsAssumption DEF TypeOK, Fault, ConstantsAssumption

LEMMA LockTimeoutStep ==
    ASSUME IInv, NEW w \in Workers, lockTimeout(w)
    PROVE  IInv'
  BY LeaveStep DEF IInv, TypeOK, lockTimeout, dbVars, launchVars

LEMMA AbandonStep ==
    ASSUME IInv, NEW w \in Workers, abandonObservation(w)
    PROVE  IInv'
  <1>1. lcancel' \in BOOLEAN
    BY DEF IInv, TypeOK, abandonObservation, Cancelled
  <1> QED BY <1>1, FaultCounted, LeaveStep DEF IInv, TypeOK, abandonObservation, dbVars

LEMMA DeadlineStep ==
    ASSUME IInv, NEW w \in Workers, observationDeadline(w)
    PROVE  IInv'
  <1>1. UNCHANGED <<row, evidence, receipt, reached, files, lrec, starts, lock, pc, seen, stat, lost>>
    BY DEF observationDeadline, dbVars
  <1>2. lcancel' \in BOOLEAN /\ faults' \in 0..MaxFaults
    BY FaultCounted DEF IInv, TypeOK, observationDeadline, Cancelled
  <1>3. sent' \in [Workers -> BOOLEAN]
    BY Zenon DEF IInv, TypeOK, observationDeadline
  <1>4. TypeOK'
    BY <1>1, <1>2, <1>3 DEF IInv, TypeOK
  <1>5. \A u \in Workers : At(u)'
    BY <1>1 DEF IInv, At, Same
  <1>6. Durable' /\ StartedOnce' /\ ResultTruthful'
    BY <1>1 DEF IInv, Durable, StartedOnce, ResultTruthful
  <1> QED BY <1>4, <1>5, <1>6 DEF IInv

\* A cancellation changes nothing else of the row.
LEMMA CancelledRow ==
    ASSUME IInv, row' = [row EXCEPT !.cancel = TRUE, !.revision = @ + 1]
    PROVE  row' \in Rows /\ Same(row, row')
  <1>1. row \in Rows /\ row.revision + 1 \in Nat
    BY RowTypes DEF IInv, TypeOK
  <1> QED BY <1>1 DEF Rows, Same

LEMMA CancelKeeps ==
    ASSUME IInv, row' = [row EXCEPT !.cancel = TRUE, !.revision = @ + 1],
           UNCHANGED <<evidence, receipt, files, lrec, starts, lost>>
    PROVE  Durable' /\ StartedOnce' /\ ResultTruthful'
  BY CancelledRow DEF IInv, Durable, StartedOnce, ResultTruthful, Same

LEMMA ShutdownStep ==
    ASSUME IInv, NEW w \in Workers, shutdown(w)
    PROVE  IInv'
  <1>1. /\ row' = [row EXCEPT !.cancel = TRUE, !.revision = @ + 1]
        /\ UNCHANGED <<evidence, receipt, reached, files, lrec, lcancel, starts, lock, pc, seen, stat, sent, lost>>
    BY DEF shutdown, launchVars, Keep
  <1>2. row' \in Rows /\ Same(row, row')
    BY <1>1, CancelledRow
  <1>3. faults' \in 0..MaxFaults
    BY FaultCounted DEF IInv, shutdown
  <1>4. TypeOK'
    BY <1>1, <1>2, <1>3 DEF IInv, TypeOK, Same
  <1>5. \A u \in Workers : At(u)'
    BY <1>1, <1>2, OthersKeep DEF Same
  <1> QED BY <1>1, <1>4, <1>5, CancelKeeps DEF IInv

LEMMA FinalizingRow ==
    ASSUME TypeOK
    PROVE  /\ Finalizing(row) \in Rows
           /\ Finalizing(row).state = "finalizing" /\ Finalizing(row).accepted
           /\ Finalizing(row).outcome = lrec.outcome /\ Finalizing(row).ran = lrec.ran
           /\ Finalizing(row).bound = row.bound
  <1>1. row \in Rows /\ lrec.outcome \in Outcomes \cup {"none"} /\ lrec.ran \in BOOLEAN
    BY DEF TypeOK, LauncherRecords
  <1> QED BY <1>1 DEF Finalizing, Rows

LEMMA MarkFinalizingStep ==
    ASSUME IInv, NEW w \in Workers, markFinalizing(w)
    PROVE  IInv'
  <1>1. /\ pc[w] = "terminal" /\ pc[w] \in LockedSteps
        /\ UNCHANGED <<evidence, receipt, reached, files, lrec, lcancel, starts, lost, faults>>
    BY DEF markFinalizing, launchVars, LockedSteps
  <1>2. /\ lock = w /\ Same(seen[w], row) /\ lrec.state = "terminal"
        /\ row.state \in {"intent", "active"} /\ seen[w].state \in {"intent", "active"}
    BY <1>1 DEF IInv, At, Same
  <1>3. CASE lrec.ran /\ ~lrec.output
    BY <1>1, <1>3, LeaveStep DEF IInv, TypeOK, markFinalizing
  <1>4. CASE ~(lrec.ran /\ ~lrec.output) /\ seen[w].state = "intent"
    <2>1. transitionProcessOperation(w, {"intent"}, Activated(row), "terminal")
      BY <1>4 DEF markFinalizing
    <2> QED BY <1>1, <1>2, <2>1, ActivateStep
  <1>5. CASE ~(lrec.ran /\ ~lrec.output) /\ seen[w].state = "active"
    <2> DEFINE new == Finalizing(row)
    <2>1. transitionProcessOperation(w, {"active"}, new, "publish")
      BY <1>5 DEF markFinalizing
    <2>2. /\ new \in Rows /\ new.state = "finalizing" /\ new.accepted
          /\ new.outcome = lrec.outcome /\ new.ran = lrec.ran /\ new.bound = row.bound
      BY FinalizingRow DEF IInv
    <2>3. lrec.outcome # "none" /\ "publish" \in Steps
      BY <1>2 DEF IInv, Durable, Steps
    <2>4. row.state \in {"active"} =>
               /\ new.state # "none"
               /\ new.state \in {"finalizing", "terminal"} <=> new.outcome # "none"
               /\ new.state = "active" => new.accepted
               /\ new.state = "finalizing" => new.accepted \/ new.outcome \in {"cancelled", "failed_to_start"}
      BY <2>2, <2>3
    <2>5. row.state \in {"active"} /\ Same(row', new) /\ row' \in Rows => Durable' /\ ResultTruthful'
      BY <1>1, <1>2, <2>2, <2>3 DEF IInv, Same, Durable, ResultTruthful
    <2>6. (/\ row.state \in {"active"} /\ Same(row', new) /\ row' \in Rows
           /\ pc'[w] = "publish" /\ seen'[w] = row' /\ UNCHANGED <<lock, stat>>) => At(w)'
      BY <1>1, <1>2, <2>2 DEF IInv, At, Same
    <2> HIDE DEF new
    <2> QED BY <1>1, <2>1, <2>2, <2>3, <2>4, <2>5, <2>6, TransitionStep
  <1> QED BY <1>2, <1>3, <1>4, <1>5

LEMMA PublishOutputStep ==
    ASSUME IInv, NEW w \in Workers, publishOutput(w)
    PROVE  IInv'
  <1>1. /\ pc[w] = "publish"
        /\ UNCHANGED <<row, evidence, receipt, reached, lrec, lcancel, starts, lost, faults>>
    BY DEF publishOutput, dbVars, launchVars
  <1>2. PICK s \in Unpublished(w) :
          IF lrec.output THEN files' = files \cup {s} /\ Keep /\ UNCHANGED pc
                         ELSE UNCHANGED files /\ Leave(w)
    BY DEF publishOutput
  <1>3. s \in Streams
    BY <1>2 DEF Unpublished
  <1>4. CASE ~lrec.output
    BY <1>1, <1>2, <1>4, LeaveStep DEF IInv, TypeOK
  <1>5. CASE lrec.output
    <2>1. files' = files \cup {s} /\ UNCHANGED <<lock, seen, stat, sent, pc>>
      BY <1>2, <1>5 DEF Keep
    <2>2. TypeOK'
      BY <1>1, <1>3, <2>1 DEF IInv, TypeOK
    <2>3. \A u \in Workers : At(u)'
      BY <1>1, <2>1 DEF IInv, At, Same
    <2>4. row.bound => files' = Streams
      BY <1>3, <2>1 DEF IInv, TypeOK, Durable
    <2>5. Durable' /\ StartedOnce' /\ ResultTruthful'
      BY <1>1, <2>4 DEF IInv, Durable, StartedOnce, ResultTruthful
    <2> QED BY <2>2, <2>3, <2>5 DEF IInv
  <1> QED BY <1>4, <1>5

LEMMA BindArtifactsStep ==
    ASSUME IInv, NEW w \in Workers, bindArtifacts(w)
    PROVE  IInv'
  <1>1. /\ pc[w] = "publish" /\ pc[w] \in LockedSteps /\ "evidence" \in Steps
        /\ UNCHANGED <<evidence, receipt, reached, files, lrec, lcancel, starts, lost, faults>>
    BY DEF bindArtifacts, launchVars, LockedSteps, Steps
  <1>2. /\ lock = w /\ Same(seen[w], row) /\ row \in Rows /\ seen[w] \in Rows
        /\ row.state = "finalizing"
    BY <1>1 DEF IInv, TypeOK, At
  <1>3. CASE ~(seen[w].ran /\ ~seen[w].bound)
    <2>1. Goto(w, "evidence") /\ Keep /\ UNCHANGED row
      BY <1>3 DEF bindArtifacts
    <2>2. At(w)'
      BY <1>1, <1>2, <1>3, <2>1, Moves DEF IInv, At, Keep, Same
    <2> QED BY <1>1, <2>1, <2>2, GotoStep DEF IInv, TypeOK
  <1>4. CASE seen[w].ran /\ ~seen[w].bound
    <2> DEFINE new == [row EXCEPT !.bound = TRUE]
    <2>1. transitionProcessOperation(w, {"finalizing"}, new, "evidence")
      BY <1>4 DEF bindArtifacts
    <2>2. files = Streams
      BY <1>4 DEF IInv, TypeOK, bindArtifacts, Unpublished
    <2>3. /\ new \in Rows /\ new.state = row.state /\ new.accepted = row.accepted
          /\ new.outcome = row.outcome /\ new.ran = row.ran /\ new.bound
      BY <1>2 DEF Rows
    <2>4. row.state \in {"finalizing"} =>
               /\ new.state # "none"
               /\ new.state \in {"finalizing", "terminal"} <=> new.outcome # "none"
               /\ new.state = "active" => new.accepted
               /\ new.state = "finalizing" => new.accepted \/ new.outcome \in {"cancelled", "failed_to_start"}
      BY <2>3 DEF IInv, TypeOK
    <2>5. row.state \in {"finalizing"} /\ Same(row', new) /\ row' \in Rows => Durable' /\ ResultTruthful'
      BY <1>1, <2>2, <2>3 DEF IInv, Same, Durable, ResultTruthful
    <2>6. (/\ row.state \in {"finalizing"} /\ Same(row', new) /\ row' \in Rows
           /\ pc'[w] = "evidence" /\ seen'[w] = row' /\ UNCHANGED <<lock, stat>>) => At(w)'
      BY <1>1, <1>2, <2>3 DEF IInv, At, Same
    <2> HIDE DEF new
    <2> QED BY <1>1, <2>1, <2>3, <2>4, <2>5, <2>6, TransitionStep
  <1> QED BY <1>3, <1>4

LEMMA TerminalEvidenceStep ==
    ASSUME IInv, NEW w \in Workers, publishTerminalEvidence(w)
    PROVE  IInv'
  <1>1. /\ pc[w] = "evidence" /\ "receipt" \in Steps
        /\ UNCHANGED <<row, receipt, reached, files, lrec, lcancel, starts, lost, faults>>
    BY DEF publishTerminalEvidence, launchVars, Steps
  <1>2. /\ lock = w /\ Same(seen[w], row) /\ row \in Rows
        /\ row.state = "finalizing"
    BY <1>1 DEF IInv, TypeOK, At, LockedSteps
  <1>3. CASE ~Recorded(evidence, seen[w].outcome)
    BY <1>1, <1>3, LeaveStep DEF IInv, TypeOK, publishTerminalEvidence
  <1>4. CASE Recorded(evidence, seen[w].outcome)
    <2>1. /\ evidence' = row.outcome
          /\ pc' = [pc EXCEPT ![w] = "receipt"]
          /\ UNCHANGED <<lock, seen, stat, sent>>
      BY <1>2, <1>4 DEF publishTerminalEvidence, Goto, Keep, Same
    <2>2. /\ pc' \in [Workers -> Steps] /\ pc'[w] = "receipt"
          /\ \A u \in Workers : u # w => pc'[u] = pc[u] /\ lock # u
      BY <1>1, <1>2, <2>1 DEF IInv, TypeOK
    <2>3. TypeOK'
      BY <1>1, <1>2, <2>1, <2>2, RowTypes DEF IInv, TypeOK
    <2>4. At(w)'
      BY <1>1, <1>2, <2>1, <2>2 DEF IInv, At, Same
    <2>5. Durable' /\ StartedOnce' /\ ResultTruthful'
      BY <1>1, <1>2 DEF IInv, Durable, StartedOnce, ResultTruthful
    <2> QED BY <1>1, <2>1, <2>2, <2>3, <2>4, <2>5, StepOfWorker
  <1> QED BY <1>3, <1>4

LEMMA ReceiptStep ==
    ASSUME IInv, NEW w \in Workers, recordOperationReceipt(w)
    PROVE  IInv'
  <1>1. /\ pc[w] = "receipt" /\ "close" \in Steps
        /\ UNCHANGED <<row, evidence, reached, files, lrec, lcancel, starts, lost, faults>>
    BY DEF recordOperationReceipt, launchVars, Steps
  <1>2. /\ lock = w /\ Same(seen[w], row) /\ row \in Rows
        /\ row.state = "finalizing"
    BY <1>1 DEF IInv, TypeOK, At, LockedSteps
  <1>3. CASE ~Recorded(receipt, seen[w].outcome)
    BY <1>1, <1>3, LeaveStep DEF IInv, TypeOK, recordOperationReceipt
  <1>4. CASE Recorded(receipt, seen[w].outcome)
    <2>1. /\ receipt' = row.outcome
          /\ pc' = [pc EXCEPT ![w] = "close"]
          /\ seen' = [seen EXCEPT ![w] = row]
          /\ UNCHANGED <<lock, stat, sent>>
      BY <1>2, <1>4 DEF recordOperationReceipt, Goto, Same
    <2>2. /\ pc' \in [Workers -> Steps] /\ pc'[w] = "close"
          /\ seen' \in [Workers -> Rows] /\ seen'[w] = row
          /\ \A u \in Workers : u # w => pc'[u] = pc[u] /\ seen'[u] = seen[u] /\ lock # u
      BY <1>1, <1>2, <2>1 DEF IInv, TypeOK
    <2>3. TypeOK'
      BY <1>1, <1>2, <2>1, <2>2, RowTypes DEF IInv, TypeOK
    <2>4. At(w)'
      BY <1>1, <1>2, <2>1, <2>2 DEF IInv, At, Same
    <2>5. Durable' /\ StartedOnce' /\ ResultTruthful'
      BY <1>1, <1>2 DEF IInv, Durable, StartedOnce, ResultTruthful
    <2> QED BY <1>1, <2>1, <2>2, <2>3, <2>4, <2>5, StepOfWorker
  <1> QED BY <1>3, <1>4

LEMMA CloseStep ==
    ASSUME IInv, NEW w \in Workers, closeOperation(w)
    PROVE  IInv'
  <1>1. /\ pc[w] = "close" /\ pc[w] \in LockedSteps
        /\ UNCHANGED <<evidence, receipt, reached, files, lrec, lcancel, starts, lost, faults>>
    BY DEF closeOperation, launchVars, LockedSteps
  <1>2. /\ lock = w /\ Same(seen[w], row) /\ row \in Rows
        /\ row.state = "finalizing" /\ seen[w].state = "finalizing"
        /\ row.ran => row.bound
        /\ evidence = row.outcome /\ receipt = row.outcome
        /\ row.outcome # "none"
    BY <1>1 DEF IInv, TypeOK, At, Same
  <1> DEFINE new == [row EXCEPT !.state = "terminal"]
             to  == AfterClose(row)
  <1>3. transitionProcessOperation(w, {"finalizing", "intent"}, new, to)
    BY <1>2 DEF closeOperation
  <1>4. /\ new \in Rows /\ new.state = "terminal" /\ new.accepted = row.accepted
        /\ new.outcome = row.outcome /\ new.ran = row.ran /\ new.bound = row.bound
    BY <1>2 DEF Rows
  <1>5. to \in Steps /\ to \in {"acknowledge", "leave"} /\ (to = "acknowledge" => row.accepted)
    BY DEF AfterClose, Steps
  <1>6. row.state \in {"finalizing", "intent"} =>
               /\ new.state # "none"
               /\ new.state \in {"finalizing", "terminal"} <=> new.outcome # "none"
               /\ new.state = "active" => new.accepted
               /\ new.state = "finalizing" => new.accepted \/ new.outcome \in {"cancelled", "failed_to_start"}
    BY <1>2, <1>4
  <1>7. row.state \in {"finalizing", "intent"} /\ Same(row', new) /\ row' \in Rows
            => Durable' /\ ResultTruthful'
    BY <1>1, <1>2, <1>4 DEF IInv, Same, Durable, ResultTruthful
  <1>8. (/\ row.state \in {"finalizing", "intent"} /\ Same(row', new) /\ row' \in Rows
         /\ pc'[w] = to /\ seen'[w] = row' /\ UNCHANGED <<lock, stat>>) => At(w)'
    BY <1>1, <1>2, <1>4, <1>5 DEF IInv, At, Same
  <1> HIDE DEF new, to
  <1> QED BY <1>1, <1>3, <1>4, <1>5, <1>6, <1>7, <1>8, TransitionStep

LEMMA AcknowledgeStep ==
    ASSUME IInv, NEW w \in Workers, acknowledge(w)
    PROVE  IInv'
  <1>1. /\ pc[w] = "acknowledge" /\ "acknowledged" \in Steps
        /\ UNCHANGED <<row, evidence, receipt, reached, files, lcancel, starts, lost, faults>>
    BY DEF acknowledge, dbVars, Steps
  <1>2. /\ lock = w /\ Same(seen[w], row)
        /\ row.state = "terminal" /\ row.accepted
    BY <1>1 DEF IInv, At, LockedSteps
  <1>3. CASE Leave(w) /\ UNCHANGED lrec
    BY <1>1, <1>3, LeaveStep DEF IInv, TypeOK
  <1>4. CASE ~(Leave(w) /\ UNCHANGED lrec)
    <2>1. /\ lrec.state = "terminal"
          /\ lrec' = [lrec EXCEPT !.acked = TRUE, !.output = FALSE]
          /\ pc' = [pc EXCEPT ![w] = "acknowledged"]
          /\ UNCHANGED <<lock, seen, stat, sent>>
      BY <1>4 DEF acknowledge, Goto, Keep
    <2>2. /\ lrec' \in LauncherRecords /\ lrec'.state = "terminal"
          /\ lrec'.outcome = lrec.outcome /\ lrec'.ran = lrec.ran
      BY <2>1 DEF IInv, TypeOK, LauncherRecords
    <2>3. /\ pc' \in [Workers -> Steps] /\ pc'[w] = "acknowledged"
          /\ \A u \in Workers : u # w => pc'[u] = pc[u] /\ lock # u
      BY <1>1, <1>2, <2>1 DEF IInv, TypeOK
    <2>4. TypeOK'
      BY <1>1, <2>1, <2>2, <2>3 DEF IInv, TypeOK
    <2>5. At(w)'
      BY <1>1, <1>2, <2>1, <2>2, <2>3 DEF IInv, At, Same
    <2>6. Durable' /\ StartedOnce' /\ ResultTruthful'
      BY <1>1, <1>2, <2>1, <2>2 DEF IInv, Durable, StartedOnce, ResultTruthful
    <2> QED BY <1>1, <2>1, <2>2, <2>3, <2>4, <2>5, <2>6, StepOfWorker
  <1> QED BY <1>3, <1>4

LEMMA AcknowledgeRowStep ==
    ASSUME IInv, NEW w \in Workers, acknowledgeRow(w)
    PROVE  IInv'
  <1> DEFINE new == [row EXCEPT !.acked = TRUE]
  <1>1. /\ pc[w] = "acknowledged" /\ pc[w] \in LockedSteps /\ "leave" \in Steps
        /\ transitionProcessOperation(w, {"terminal"}, new, "leave")
        /\ UNCHANGED <<evidence, receipt, reached, files, lrec, lcancel, starts, lost, faults>>
    BY DEF acknowledgeRow, launchVars, LockedSteps, Steps
  <1>2. lock = w /\ row \in Rows /\ (row.state = "terminal" => row.outcome # "none")
    BY <1>1 DEF IInv, TypeOK, At
  <1>3. /\ new \in Rows /\ new.state = row.state /\ new.accepted = row.accepted
        /\ new.outcome = row.outcome /\ new.ran = row.ran /\ new.bound = row.bound
    BY <1>2 DEF Rows
  <1>4. row.state \in {"terminal"} =>
               /\ new.state # "none"
               /\ new.state \in {"finalizing", "terminal"} <=> new.outcome # "none"
               /\ new.state = "active" => new.accepted
               /\ new.state = "finalizing" => new.accepted \/ new.outcome \in {"cancelled", "failed_to_start"}
    BY <1>2, <1>3
  <1>5. row.state \in {"terminal"} /\ Same(row', new) /\ row' \in Rows => Durable' /\ ResultTruthful'
    BY <1>1, <1>3 DEF IInv, Same, Durable, ResultTruthful
  <1>6. (/\ row.state \in {"terminal"} /\ Same(row', new) /\ row' \in Rows
         /\ pc'[w] = "leave" /\ seen'[w] = row' /\ UNCHANGED <<lock, stat>>) => At(w)'
    BY <1>1, <1>2 DEF IInv, At, Same
  <1> HIDE DEF new
  <1> QED BY <1>1, <1>3, <1>4, <1>5, <1>6, TransitionStep

LEMMA ReadToCancelStep ==
    ASSUME IInv, NEW w \in Workers, readToCancel(w)
    PROVE  IInv'
  <1>1. PICK to \in {"lockToCancel", "requested"} : Goto(w, to)
    BY DEF readToCancel
  <1>2. /\ pc[w] = "request" /\ to \in Steps
        /\ seen' = [seen EXCEPT ![w] = row]
        /\ pc' = [pc EXCEPT ![w] = to]
        /\ UNCHANGED <<row, evidence, receipt, reached, files, lrec, lcancel, starts, lock, stat, sent, lost, faults>>
    BY <1>1 DEF readToCancel, Goto, Steps, dbVars, launchVars
  <1>3. /\ seen' \in [Workers -> Rows]
        /\ pc' \in [Workers -> Steps] /\ pc'[w] = to
        /\ \A u \in Workers : u # w => pc'[u] = pc[u] /\ seen'[u] = seen[u]
    BY <1>2 DEF IInv, TypeOK
  <1>4. TypeOK'
    BY <1>2, <1>3 DEF IInv, TypeOK
  <1>5. At(w)'
    BY <1>2, <1>3 DEF IInv, At, LockedSteps
  <1>6. Durable' /\ StartedOnce' /\ ResultTruthful' /\ Same(row, row')
    BY <1>2 DEF IInv, Durable, StartedOnce, ResultTruthful, Same
  <1> QED BY <1>2, <1>3, <1>4, <1>5, <1>6, StepOfWorker

LEMMA RequestCancellationStep ==
    ASSUME IInv, NEW w \in Workers, requestProcessOperationCancellation(w)
    PROVE  IInv'
  <1>1. /\ pc[w] = "requested" /\ "lockToCancel" \in Steps
        /\ UNCHANGED <<evidence, receipt, reached, files, lrec, lcancel, starts, lost, faults>>
    BY DEF requestProcessOperationCancellation, launchVars, Steps
  <1>2. row.state # "none"
    BY <1>1 DEF IInv, At
  <1>3. CASE row.state # "terminal" /\ row.revision = seen[w].revision
    <2>1. /\ row' = [row EXCEPT !.cancel = TRUE, !.revision = @ + 1]
          /\ pc' = [pc EXCEPT ![w] = "lockToCancel"]
          /\ UNCHANGED <<lock, seen, stat, sent>>
      BY <1>3 DEF requestProcessOperationCancellation, Goto, Keep
    <2>2. row' \in Rows /\ Same(row, row')
      BY <2>1, CancelledRow
    <2>3. /\ pc' \in [Workers -> Steps] /\ pc'[w] = "lockToCancel"
          /\ \A u \in Workers : u # w => pc'[u] = pc[u]
      BY <1>1, <2>1 DEF IInv, TypeOK
    <2>4. TypeOK'
      BY <1>1, <2>1, <2>2, <2>3 DEF IInv, TypeOK, Same
    <2>5. At(w)'
      BY <1>1, <1>2, <2>1, <2>2, <2>3 DEF IInv, At, LockedSteps, Same
    <2>6. row'.state = row.state
      BY <2>2 DEF Same
    <2> QED BY <1>1, <2>1, <2>2, <2>3, <2>4, <2>5, <2>6, CancelKeeps, StepOfWorker
  <1>4. CASE UNCHANGED row /\ Goto(w, "lockToCancel") /\ Keep
    <2>1. At(w)'
      BY <1>1, <1>2, <1>4, Moves DEF IInv, At, Keep, LockedSteps
    <2> QED BY <1>1, <1>4, <2>1, GotoStep DEF IInv, TypeOK
  <1>5. CASE UNCHANGED row /\ Leave(w)
    BY <1>1, <1>5, LeaveStep DEF IInv, TypeOK
  <1> QED BY <1>3, <1>4, <1>5 DEF requestProcessOperationCancellation

LEMMA DisposeStep ==
    ASSUME IInv, NEW w \in Workers, disposeCancellation(w)
    PROVE  IInv'
  <1>1. /\ pc[w] = "dispose" /\ pc[w] \in LockedSteps
        /\ UNCHANGED <<evidence, receipt, reached, files, lrec, lcancel, starts, lost, faults>>
    BY DEF disposeCancellation, launchVars, LockedSteps
  <1>2. /\ lock = w /\ Same(seen[w], row) /\ seen[w] \in Rows /\ row \in Rows
        /\ row.state # "none"
    BY <1>1 DEF IInv, TypeOK, At
  <1>3. ASSUME NEW to \in {"lock", "notify"}, to = "notify" => lrec.state # "absent",
               lock' = NoWorker, Goto(w, to), UNCHANGED <<row, seen, stat, sent>>
        PROVE  IInv'
    <2>1. pc' = [pc EXCEPT ![w] = to] /\ to \in Steps
      BY <1>3 DEF Goto, Steps
    <2>2. /\ pc' \in [Workers -> Steps] /\ pc'[w] = to
          /\ \A u \in Workers : u # w => pc'[u] = pc[u] /\ lock # u
      BY <1>2, <2>1 DEF IInv, TypeOK
    <2>3. TypeOK'
      BY <1>1, <1>3, <2>2 DEF IInv, TypeOK
    <2>4. At(w)'
      BY <1>1, <1>3, <2>2 DEF IInv, At, LockedSteps
    <2>5. Durable' /\ StartedOnce' /\ ResultTruthful'
      BY <1>1, <1>3 DEF IInv, Durable, StartedOnce, ResultTruthful
    <2> QED BY <1>1, <1>3, <2>2, <2>3, <2>4, <2>5, StepOfWorker
  <1>4. CASE seen[w].state = "finalizing" \/ (seen[w].state = "terminal" /\ ~seen[w].acked)
    BY <1>3, <1>4 DEF disposeCancellation
  <1>5. CASE /\ ~(seen[w].state = "finalizing" \/ (seen[w].state = "terminal" /\ ~seen[w].acked))
             /\ seen[w].state = "terminal" \/ ~seen[w].cancel
    BY <1>1, <1>5, LeaveStep DEF IInv, TypeOK, disposeCancellation
  <1>6. CASE /\ ~(seen[w].state = "finalizing" \/ (seen[w].state = "terminal" /\ ~seen[w].acked))
             /\ ~(seen[w].state = "terminal" \/ ~seen[w].cancel)
    <2>1. CASE UnlaunchedForSure(seen[w])
      <3>1. lrec.state = "absent" /\ ~row.accepted
        BY <1>2, <2>1 DEF UnlaunchedForSure, Same
      <3>2. transitionProcessOperation(w, {"intent"}, Unlaunched(row, "cancelled"), "publish")
        BY <1>6, <2>1 DEF disposeCancellation
      <3> QED BY <1>1, <3>1, <3>2, UnlaunchedStep
    <2>2. CASE ~UnlaunchedForSure(seen[w])
      <3>1. lrec.state # "absent"
        <4>1. row.state \in {"intent", "active"}
          BY <1>2, <1>6, RowTypes DEF Same
        <4>2. CASE row.accepted
          BY <4>2 DEF IInv, Durable
        <4>3. CASE ~row.accepted
          BY <1>2, <2>2, <4>1, <4>3 DEF IInv, TypeOK, UnlaunchedForSure, Same
        <4> QED BY <4>2, <4>3
      <3>2. lock' = NoWorker /\ Goto(w, "notify") /\ UNCHANGED <<row, seen, stat, sent>>
        BY <1>6, <2>2 DEF disposeCancellation
      <3> QED BY <1>3, <3>1, <3>2
    <2> QED BY <2>1, <2>2
  <1> QED BY <1>4, <1>5, <1>6

-----------------------------------------------------------------------------
(* The launcher and the faults *)

\* The launcher's record moves on from accepted or active.
LEMMA LauncherStep ==
    ASSUME IInv, lrec.state \in {"accepted", "active"},
           lrec' \in LauncherRecords, lrec'.state \in {"active", "terminal"}, lrec'.acked = lrec.acked,
           lrec'.state = "terminal" => lrec'.outcome # "none",
           starts' \in Nat, starts' <= 1, lcancel' \in BOOLEAN, faults' \in 0..MaxFaults,
           UNCHANGED <<dbVars, files, lock, pc, seen, stat, sent, lost>>
    PROVE  IInv'
  <1>1. UNCHANGED <<row, evidence, receipt, reached>>
    BY DEF dbVars
  <1>2. TypeOK'
    BY <1>1 DEF IInv, TypeOK
  <1>3. \A u \in Workers : At(u)'
    BY <1>1 DEF IInv, At, Same
  <1>4. Durable' /\ StartedOnce' /\ ResultTruthful'
    BY <1>1 DEF IInv, Durable, StartedOnce, ResultTruthful
  <1> QED BY <1>2, <1>3, <1>4 DEF IInv

LEMMA EndedRecord ==
    ASSUME TypeOK, NEW o \in Outcomes, NEW ran \in BOOLEAN, Ended(o, ran)
    PROVE  /\ lrec' \in LauncherRecords /\ lrec'.state = "terminal"
           /\ lrec'.outcome # "none" /\ lrec'.acked = lrec.acked
  BY DEF TypeOK, Ended, LauncherRecords, Outcomes

LEMMA StartCommandStep ==
    ASSUME IInv, startCommand
    PROVE  IInv'
  <1>1. starts = 0 /\ starts' = 1
    BY DEF IInv, Durable, startCommand
  <1>2. lrec' \in LauncherRecords /\ lrec'.state = "active" /\ lrec'.acked = lrec.acked
    BY DEF IInv, TypeOK, LauncherRecords, startCommand
  <1> QED BY <1>1, <1>2, LauncherStep DEF IInv, TypeOK, startCommand

LEMMA EndCommandStep ==
    ASSUME IInv, endCommand
    PROVE  IInv'
  <1>1. PICK o \in {"completed", "cancelled"} : Ended(o, TRUE)
    BY DEF endCommand
  <1>2. o \in Outcomes /\ TRUE \in BOOLEAN
    BY DEF Outcomes
  <1>3. /\ lrec' \in LauncherRecords /\ lrec'.state = "terminal"
        /\ lrec'.outcome # "none" /\ lrec'.acked = lrec.acked
    BY <1>1, <1>2, EndedRecord DEF IInv
  <1> QED BY <1>3, LauncherStep DEF IInv, TypeOK, StartedOnce, endCommand

LEMMA FailCommandStep ==
    ASSUME IInv, failCommand
    PROVE  IInv'
  <1>1. PICK o \in {"failed_to_start", "runtime_interrupted"} : Ended(o, FALSE)
    BY DEF failCommand
  <1>2. o \in Outcomes /\ FALSE \in BOOLEAN
    BY DEF Outcomes
  <1>3. /\ lrec' \in LauncherRecords /\ lrec'.state = "terminal"
        /\ lrec'.outcome # "none" /\ lrec'.acked = lrec.acked
    BY <1>1, <1>2, EndedRecord DEF IInv
  <1> QED BY <1>3, LauncherStep DEF IInv, TypeOK, StartedOnce, failCommand

LEMMA RestartLauncherStep ==
    ASSUME IInv, restartLauncher
    PROVE  IInv'
  <1>1. "runtime_interrupted" \in Outcomes /\ FALSE \in BOOLEAN
    BY DEF Outcomes
  <1>2. /\ lrec' \in LauncherRecords /\ lrec'.state = "terminal"
        /\ lrec'.outcome # "none" /\ lrec'.acked = lrec.acked
    BY <1>1, EndedRecord DEF IInv, restartLauncher
  <1> QED BY <1>2, FaultCounted, LauncherStep DEF IInv, TypeOK, StartedOnce, restartLauncher

LEMMA CrashStep ==
    ASSUME IInv, NEW w \in Workers, crash(w)
    PROVE  IInv'
  BY FaultCounted, LeaveStep DEF IInv, TypeOK, crash, dbVars, launchVars

LEMMA LoseAnswerStep ==
    ASSUME IInv, NEW w \in Workers, loseAnswer(w)
    PROVE  IInv'
  <1>1. row.state = "intent"
    BY DEF IInv, At, loseAnswer
  <1> QED BY <1>1, FaultCounted, LeaveAfterAccept DEF IInv, loseAnswer, dbVars

LEMMA LaunchUnlockedStep ==
    ASSUME IInv, NEW w \in Workers, launchUnlocked(w)
    PROVE  IInv'
  <1>1. lost
    BY DEF IInv, At, launchUnlocked
  <1> QED BY <1>1, LeaveAfterAccept DEF IInv, TypeOK, launchUnlocked, dbVars

LEMMA LoseSessionStep ==
    ASSUME IInv, NEW w \in Workers, loseSession(w)
    PROVE  IInv'
  <1>1. /\ lock = w /\ lock' = NoWorker /\ lost' = TRUE
        /\ pc' = [pc EXCEPT ![w] = "launchUnlocked"] /\ "launchUnlocked" \in Steps
        /\ UNCHANGED <<row, evidence, receipt, reached, files, lrec, lcancel, starts, seen, stat, sent>>
    BY DEF loseSession, Goto, Steps, dbVars, launchVars
  <1>2. /\ pc' \in [Workers -> Steps] /\ pc'[w] = "launchUnlocked"
        /\ \A u \in Workers : u # w => pc'[u] = pc[u] /\ lock # u
    BY <1>1 DEF IInv, TypeOK
  <1>3. TypeOK'
    BY <1>1, <1>2, FaultCounted DEF IInv, TypeOK, loseSession
  <1>4. At(w)'
    BY <1>1, <1>2 DEF IInv, At, LockedSteps
  <1>5. Durable' /\ StartedOnce' /\ ResultTruthful'
    BY <1>1 DEF IInv, Durable, StartedOnce, ResultTruthful
  <1> QED BY <1>1, <1>2, <1>3, <1>4, <1>5, StepOfWorker

-----------------------------------------------------------------------------
(* The theorems *)

LEMMA InitInvariant == Init => IInv
  <1> SUFFICES ASSUME Init PROVE IInv
    OBVIOUS
  <1>1. sent \in [Workers -> BOOLEAN]
    BY Zenon DEF Init
  <1>2. TypeOK
    <2>1. /\ row \in Rows /\ row.state = "none" /\ row.outcome = "none"
          /\ lrec \in LauncherRecords /\ seen \in [Workers -> Rows]
      BY NoRowType, NoRecordType DEF Init, NoRow
    <2>2. /\ pc \in [Workers -> Steps]
          /\ stat \in [Workers -> {"unknown", "active", "terminal"}]
          /\ faults \in 0..MaxFaults
      BY ConstantsAssumption DEF Init, ConstantsAssumption, Steps
    <2> QED BY <1>1, <2>1, <2>2 DEF Init, TypeOK
  <1>3. \A w \in Workers : At(w)
    BY DEF Init, At, LockedSteps
  <1>4. Durable /\ StartedOnce /\ ResultTruthful
    BY DEF Init, Durable, StartedOnce, ResultTruthful, NoRow, NoRecord
  <1> QED BY <1>2, <1>3, <1>4 DEF IInv

LEMMA StutterInvariant ==
    ASSUME IInv, UNCHANGED vars
    PROVE  IInv'
  BY DEF IInv, TypeOK, At, Same, Durable, StartedOnce, ResultTruthful, vars

\* Every step keeps the invariant.
LEMMA NextInvariant == IInv /\ [Next]_vars => IInv'
  <1> SUFFICES ASSUME IInv, [Next]_vars PROVE IInv'
    OBVIOUS
  <1>1. ASSUME NEW w \in Workers, Step(w) PROVE IInv'
    BY <1>1, CreateIntentStep, EnterStep, LeavingStep, GetOperationStep, LaunchStep,
       LaunchUnlockedStep, MarkActiveStep, ObserveTerminalStep, NotifyStep, MarkFinalizingStep,
       PublishOutputStep, BindArtifactsStep, TerminalEvidenceStep, ReceiptStep, CloseStep,
       AcknowledgeStep, AcknowledgeRowStep, ReadToCancelStep, RequestCancellationStep, DisposeStep
    DEF Step
  <1>2. ASSUME NEW w \in Workers,
               \/ execute(w) \/ cancelRunOperations(w) \/ withProcessOperationLock(w)
               \/ lockTimeout(w)
               \/ abandonObservation(w) \/ observationDeadline(w) \/ shutdown(w)
               \/ crash(w) \/ loseAnswer(w) \/ loseSession(w)
        PROVE  IInv'
    BY <1>2, ExecuteStep, CancelRunStep, LockStep, LockTimeoutStep, AbandonStep, DeadlineStep,
       ShutdownStep, CrashStep, LoseAnswerStep, LoseSessionStep
  <1>3. CASE startCommand \/ endCommand \/ failCommand \/ restartLauncher
    BY <1>3, StartCommandStep, EndCommandStep, FailCommandStep, RestartLauncherStep
  <1>4. CASE UNCHANGED vars
    BY <1>4, StutterInvariant
  <1> QED BY <1>1, <1>2, <1>3, <1>4 DEF Next

THEOREM Invariance == Spec => []IInv
  <1> QED BY InitInvariant, NextInvariant, PTL DEF Spec

\* The variables keep their types and the row the shape its table demands
\* (process_operations_state_shape), so none of the guarded updates violates it.
THEOREM TypeCorrect == Spec => []TypeOK
  <1>1. IInv => TypeOK
    BY DEF IInv
  <1> QED BY <1>1, Invariance, PTL

\* However many calls reconcile the operation, and whatever crashes, lost answers
\* and lost lock sessions come between, the launcher starts the command once.
THEOREM CommandStartedOnce == Spec => []StartedOnce
  <1>1. IInv => StartedOnce
    BY DEF IInv
  <1> QED BY <1>1, Invariance, PTL

\* The result committed by markFinalizing is the launcher's; one committed for an
\* operation that was never launched is only there when the launcher has none,
\* unless a lock session was lost.
THEOREM ResultsAreTruthful == Spec => []ResultTruthful
  <1>1. IInv => ResultTruthful
    BY DEF IInv
  <1> QED BY <1>1, Invariance, PTL

\* acknowledge lets the launcher remove the output only after the artifacts are
\* published and bound, and evidence and receipt agree with the terminal row.
THEOREM OutputIsKept == Spec => []OutputKept
  <1>1. IInv => OutputKept
    <2> SUFFICES ASSUME IInv, lrec.acked
                 PROVE  OutputKept
      BY DEF OutputKept
    <2>1. row.state = "terminal" /\ row.accepted
      BY DEF IInv, Durable
    <2>2. row.outcome # "none"
      BY <2>1 DEF IInv, TypeOK
    <2>3. row.ran = lrec.ran
      BY <2>1, <2>2 DEF IInv, ResultTruthful
    <2> QED BY <2>1, <2>3 DEF IInv, Durable, OutputKept
  <1> QED BY <1>1, Invariance, PTL
=============================================================================
