----------------------- MODULE TicketLifecycleProofs -----------------------
(***************************************************************************)
(* Theorems about TicketLifecycle for every set of agents and requests and *)
(* every value of the limits and bounds.                                   *)
(***************************************************************************)
EXTENDS TicketLifecycle, TLAPS

USE DEF Ordinals, Statuses, Dispositions, RunStates, TerminalEvents, WorkStates,
        RequestKinds, Routes

\* A request record built by any preparation has its type.
LEMMA RequestType ==
    ASSUME TypeOK, NEW kind \in RequestKinds, NEW route \in Routes, NEW pred \in Nat
    PROVE  [kind |-> kind, route |-> route, limit |-> Effective(limit), pred |-> pred]
              \in RequestRecords
<1>1. Effective(limit) \in Nat
  BY ConstantsAssumption DEF TypeOK, Effective
<1> QED
  BY <1>1 DEF RequestRecords

LEMMA NoRequestType == NoRequest \in RequestRecords
BY DEF NoRequest, RequestRecords

\* A disposition derived from the members is one of the four.
LEMMA CandidateType ==
    ASSUME NEW m \in Ordinals
    PROVE  Candidate(m) \in Dispositions
BY DEF Candidate

\* The status after a settlement is one of three.
LEMMA StatusAfterType ==
    ASSUME NEW d \in Dispositions
    PROVE  StatusAfter(d) \in {"completed", "blocked", "open"}
BY DEF StatusAfter

\* A preparation only takes a request slot and, to block, part of a bound.
LEMMA PrepareType ==
    ASSUME TypeOK, NEW q \in Requests, NEW kind \in RequestKinds, NEW pred \in Nat,
           PrepareRequest(q, kind, pred)
    PROVE  /\ req' \in [Requests -> RequestRecords]
           /\ spent' \in [{"refusal", "change", "damage", "crash"} -> Nat]
<1>1. PICK route \in Routes :
        /\ req' = [req EXCEPT ![q] = [kind |-> kind, route |-> route,
                                      limit |-> Effective(limit), pred |-> pred]]
        /\ IF route = "admit" THEN UNCHANGED spent ELSE Spend("refusal")
  BY DEF PrepareRequest
<1>2. req' \in [Requests -> RequestRecords]
  BY <1>1, RequestType DEF TypeOK
<1>3. CASE route = "admit"
  BY <1>1, <1>2, <1>3 DEF TypeOK
<1>4. CASE route # "admit"
  <2>1. Spend("refusal")
    BY <1>1, <1>4
  <2> QED
    BY <1>2, <2>1 DEF TypeOK, Spend
<1> QED
  BY <1>3, <1>4

-----------------------------------------------------------------------------
(* The steps of the system by what they do to the ticket and its attempts *)

\* Nothing but requests, pending work and bounds changes.
Quiet == UNCHANGED <<shape, status, canceled, triage, refusal, limit,
                     n, disp, run, evidence>>

\* The settlement transaction writes the disposition and the status.
Settling ==
    \E m \in Ordinals :
        /\ Settleable(m)
        /\ SettleAttempt(m)
        /\ UNCHANGED <<shape, canceled, triage, refusal, limit, n, run, evidence>>

LEMMA SettlementStep ==
    ASSUME NEW m \in Ordinals, TransitionTicketAfterRun(m),
           UNCHANGED <<shape, canceled, triage, refusal, limit, n, run, evidence>>
    PROVE  Quiet \/ Settling
<1>1. CASE Settleable(m)
  BY <1>1 DEF TransitionTicketAfterRun, Settling
<1>2. CASE ~Settleable(m)
  BY <1>2 DEF TransitionTicketAfterRun, Quiet
<1> QED
  BY <1>1, <1>2

\* Every step is quiet, a settlement, or one of seven transactions.
LEMMA StepCases ==
    ASSUME TypeOK, [Next]_vars
    PROVE  \/ Quiet
           \/ Settling
           \/ \E q \in Requests : createRunsAndStartTicket(q) \/ blockTicket(q)
           \/ \E m \in Ordinals, a \in Agents :
                 \/ \E outcome \in Dispositions : terminalizeRun(m, a, outcome)
                 \/ terminalizeRunForReplayIntegrityFailure(m, a)
           \/ \E l \in Limits : updateTicketMaxAttempts(l)
           \/ resolveTicketTriageAndReproject
           \/ cancelTicket
<1>1. ASSUME NEW q \in Requests,
             createRunsForTicket(q) \/ rerunTicketFromBeginning(q)
                \/ releaseTicketAdmission(q) \/ refuseAdmission(q)
      PROVE  Quiet
  BY <1>1 DEF createRunsForTicket, rerunTicketFromBeginning, releaseTicketAdmission,
              refuseAdmission, Quiet, ticketVars, attemptVars
<1>2. ASSUME NEW q \in Requests, NEW m \in Ordinals, NEW a \in Agents,
             runAutoRetryAfterFailure(q, m, a)
      PROVE  Quiet
  BY <1>2 DEF runAutoRetryAfterFailure, Quiet, ticketVars, attemptVars
<1>3. ASSUME NEW m \in Ordinals, NEW a \in Agents, loseWork(m, a)
      PROVE  Quiet
  BY <1>3 DEF loseWork, Quiet, ticketVars, attemptVars
<1>4. ASSUME NEW m \in Ordinals, NEW a \in Agents, finalizeTicketForRun(m, a)
      PROVE  Quiet \/ Settling
  BY <1>4, SettlementStep DEF finalizeTicketForRun
<1>5. ASSUME reconcileUnfinalizedTicketsOnStartup
      PROVE  Quiet \/ Settling
  <2>1. n \in Ordinals
    BY <1>5 DEF TypeOK, reconcileUnfinalizedTicketsOnStartup, Reconcilable, Unsettled
  <2> QED
    BY <1>5, <2>1, SettlementStep DEF reconcileUnfinalizedTicketsOnStartup
<1>6. ASSUME UNCHANGED vars PROVE Quiet
  BY <1>6 DEF vars, Quiet
<1> QED
  BY <1>1, <1>2, <1>3, <1>4, <1>5, <1>6, Zenon DEF Next

-----------------------------------------------------------------------------
(* Types *)

LEMMA TypeStep == TypeOK /\ [Next]_vars => TypeOK'
<1> SUFFICES ASSUME TypeOK, [Next]_vars PROVE TypeOK'
  OBVIOUS
<1> USE ConstantsAssumption
<1>1. ASSUME NEW q \in Requests, createRunsForTicket(q) PROVE TypeOK'
  <2>1. PrepareRequest(q, "auto", 0)
    BY <1>1 DEF createRunsForTicket
  <2> QED
    BY <1>1, <2>1, PrepareType DEF TypeOK, createRunsForTicket, ticketVars, attemptVars
<1>2. ASSUME NEW q \in Requests, rerunTicketFromBeginning(q) PROVE TypeOK'
  <2>1. PrepareRequest(q, "rerun", 0)
    BY <1>2 DEF rerunTicketFromBeginning
  <2> QED
    BY <1>2, <2>1, PrepareType DEF TypeOK, rerunTicketFromBeginning, ticketVars, attemptVars
<1>3. ASSUME NEW q \in Requests, releaseTicketAdmission(q) PROVE TypeOK'
  <2>1. PrepareRequest(q, "release", 0)
    BY <1>3 DEF releaseTicketAdmission
  <2> QED
    BY <1>3, <2>1, PrepareType DEF TypeOK, releaseTicketAdmission, ticketVars, attemptVars
<1>4. ASSUME NEW q \in Requests, NEW m \in Ordinals, NEW a \in Agents,
             runAutoRetryAfterFailure(q, m, a)
      PROVE  TypeOK'
  <2>1. PrepareRequest(q, "retry", m) /\ m \in Nat
    BY <1>4 DEF runAutoRetryAfterFailure
  <2>2. req' \in [Requests -> RequestRecords]
        /\ spent' \in [{"refusal", "change", "damage", "crash"} -> Nat]
    BY <2>1, PrepareType
  <2> QED
    BY <1>4, <2>2 DEF TypeOK, runAutoRetryAfterFailure, ticketVars, attemptVars
<1>5. ASSUME NEW q \in Requests, createRunsAndStartTicket(q) PROVE TypeOK'
  <2>1. PICK batch \in SUBSET Agents :
          run' = [run EXCEPT ![n + 1] =
                    [a \in Agents |-> IF a \in batch THEN "active" ELSE "absent"]]
    BY <1>5 DEF createRunsAndStartTicket
  <2>2. run' \in [Ordinals -> [Agents -> RunStates]]
    BY <2>1 DEF TypeOK
  <2>3. n' \in 0 .. MaxOrdinal
    BY <1>5 DEF TypeOK, createRunsAndStartTicket
  <2>4. req' \in [Requests -> RequestRecords]
    BY <1>5, NoRequestType DEF TypeOK, createRunsAndStartTicket
  <2> QED
    BY <1>5, <2>2, <2>3, <2>4 DEF TypeOK, createRunsAndStartTicket
<1>6. ASSUME NEW q \in Requests, refuseAdmission(q) PROVE TypeOK'
  BY <1>6, NoRequestType DEF TypeOK, refuseAdmission, ticketVars, attemptVars
<1>7. ASSUME NEW q \in Requests, blockTicket(q) PROVE TypeOK'
  <2>1. req' \in [Requests -> RequestRecords]
    BY <1>7, NoRequestType DEF TypeOK, blockTicket
  <2>2. req[q].route \in {"triage", "refusal"}
    BY <1>7 DEF TypeOK, blockTicket, RequestRecords
  <2>3. CASE canceled \/ (req[q].route = "refusal" /\ status = "blocked")
    BY <1>7, <2>1, <2>3 DEF TypeOK, blockTicket, attemptVars
  <2>4. CASE ~(canceled \/ (req[q].route = "refusal" /\ status = "blocked"))
    BY <1>7, <2>1, <2>2, <2>4 DEF TypeOK, blockTicket, attemptVars
  <2> QED BY <2>3, <2>4
<1>8. ASSUME NEW m \in Ordinals, NEW a \in Agents, NEW outcome \in Dispositions,
             terminalizeRun(m, a, outcome)
      PROVE  TypeOK'
  <2>1. PICK w \in WorkStates : work' = [work EXCEPT ![m][a] = w]
    BY <1>8 DEF terminalizeRun
  <2> QED
    BY <1>8, <2>1 DEF TypeOK, terminalizeRun, ticketVars
<1>9. ASSUME NEW m \in Ordinals, NEW a \in Agents,
             terminalizeRunForReplayIntegrityFailure(m, a)
      PROVE  TypeOK'
  BY <1>9 DEF TypeOK, terminalizeRunForReplayIntegrityFailure, Spend, ticketVars
<1>10. ASSUME NEW m \in Ordinals, TransitionTicketAfterRun(m)
       PROVE  /\ disp' \in [Ordinals -> Dispositions \cup {"none"}]
              /\ status' \in Statuses
  <2>1. CASE Settleable(m)
    <3>1. SettleAttempt(m)
      BY <1>10, <2>1 DEF TransitionTicketAfterRun
    <3> QED
      BY <3>1, CandidateType, StatusAfterType DEF TypeOK, SettleAttempt
  <2>2. CASE ~Settleable(m)
    BY <1>10, <2>2 DEF TypeOK, TransitionTicketAfterRun
  <2> QED BY <2>1, <2>2
<1>11. ASSUME NEW m \in Ordinals, NEW a \in Agents, finalizeTicketForRun(m, a)
       PROVE  TypeOK'
  <2>1. PICK w \in WorkStates : work' = [work EXCEPT ![m][a] = w]
    <3>1. CASE work[m][a] = "finalize_retry" /\ ~SettlementThrows(m)
      BY <1>11, <3>1 DEF TypeOK, finalizeTicketForRun
    <3>2. CASE ~(work[m][a] = "finalize_retry" /\ ~SettlementThrows(m))
      BY <1>11, <3>2 DEF TypeOK, finalizeTicketForRun
    <3> QED BY <3>1, <3>2
  <2>2. TransitionTicketAfterRun(m)
    BY <1>11 DEF finalizeTicketForRun
  <2> QED
    BY <1>10, <1>11, <2>1, <2>2 DEF TypeOK, finalizeTicketForRun
<1>12. ASSUME NEW m \in Ordinals, NEW a \in Agents, loseWork(m, a) PROVE TypeOK'
  BY <1>12 DEF TypeOK, loseWork, Spend, ticketVars, attemptVars
<1>13. ASSUME reconcileUnfinalizedTicketsOnStartup PROVE TypeOK'
  <2>1. n \in Ordinals /\ TransitionTicketAfterRun(n)
    BY <1>13 DEF TypeOK, reconcileUnfinalizedTicketsOnStartup, Reconcilable, Unsettled
  <2> QED
    BY <1>10, <1>13, <2>1 DEF TypeOK, reconcileUnfinalizedTicketsOnStartup
<1>14. ASSUME NEW l \in Limits, updateTicketMaxAttempts(l) PROVE TypeOK'
  <2>1. LimitStatus(l) \in Statuses
    BY DEF TypeOK, LimitStatus
  <2> QED
    BY <1>14, <2>1 DEF TypeOK, updateTicketMaxAttempts, Spend, attemptVars
<1>15. ASSUME resolveTicketTriageAndReproject PROVE TypeOK'
  <2>1. \A ref \in {"none", "triage", "refusal"} : ResolvedStatus(ref) \in Statuses
    BY DEF TypeOK, ResolvedStatus
  <2>2. (IF refusal = "triage" THEN "none" ELSE refusal) \in {"none", "triage", "refusal"}
    BY DEF TypeOK
  <2> QED
    BY <1>15, <2>1, <2>2 DEF TypeOK, resolveTicketTriageAndReproject, Spend, attemptVars
<1>16. ASSUME cancelTicket PROVE TypeOK'
  BY <1>16 DEF TypeOK, cancelTicket, CancelRow, attemptVars
<1>17. ASSUME UNCHANGED vars PROVE TypeOK'
  BY <1>17 DEF TypeOK, vars
<1> QED
  BY <1>1, <1>2, <1>3, <1>4, <1>5, <1>6, <1>7, <1>8, <1>9, <1>11, <1>12, <1>13,
     <1>14, <1>15, <1>16, <1>17, Zenon DEF Next

LEMMA InitType == Init => TypeOK
  <1> USE ConstantsAssumption
  <1> SUFFICES ASSUME Init PROVE TypeOK
    OBVIOUS
  <1>1. status \in Statuses /\ n \in 0 .. MaxOrdinal
    BY DEF Init
  <1>2. /\ disp \in [Ordinals -> Dispositions \cup {"none"}]
        /\ run \in [Ordinals -> [Agents -> RunStates]]
        /\ work \in [Ordinals -> [Agents -> WorkStates]]
    BY DEF Init
  <1>3. evidence \in [Ordinals -> [Agents -> SUBSET TerminalEvents]]
    BY DEF Init
  <1>4. req \in [Requests -> RequestRecords]
    BY NoRequestType DEF Init
  <1>5. spent \in [{"refusal", "change", "damage", "crash"} -> Nat]
    BY DEF Init
  <1> QED
    BY <1>1, <1>2, <1>3, <1>4, <1>5 DEF Init, TypeOK

\* Every reachable state of the ticket, its attempts and the requests in flight
\* has the types of the rows and of the values the server keeps.
THEOREM TypeCorrect == Spec => []TypeOK
BY InitType, TypeStep, PTL DEF Spec

-----------------------------------------------------------------------------
(* The composer *)

\* What it means that the composer finds no blocker.
LEMMA ComposeNone ==
    ASSUME NEW tri, NEW last, NEW count \in Nat, NEW lim \in Nat, NEW shp, NEW ref,
           Compose(tri, last, count, lim, shp, ref) = "none"
    PROVE  /\ tri # "unresolved"
           /\ last # "blocked"
           /\ lim = NoLimit \/ count < lim
           /\ ~(shp = "child" /\ count = 0)
           /\ ref = "none"
BY DEF Compose, NoLimit

\* An intent is permitted only over a blocker that leaves room for an attempt,
\* or after an attempt that ended blocked.
LEMMA PermittedHeadroom ==
    ASSUME TypeOK, NEW i, i \in PermittedIntents(Governing)
    PROVE  limit = NoLimit \/ n < limit \/ Last = "blocked"
<1>1. n \in Nat /\ limit \in Nat
  BY ConstantsAssumption DEF TypeOK
<1>2. Governing \notin {"ticketTriageUnresolved", "maxAttemptsExhausted"}
  BY DEF PermittedIntents
<1> QED
  BY <1>1, <1>2 DEF Governing, Compose, NoLimit

\* The only intent a ticket under its admission hold admits is its release.
LEMMA HoldIntent ==
    ASSUME TypeOK, shape = "child", n = 0, NEW i, i \in PermittedIntents(Governing)
    PROVE  i = "release_hold"
<1>1. Last = "none"
  BY DEF Last
<1>2. Governing \in {"ticketTriageUnresolved", "maxAttemptsExhausted", "admissionHold"}
  BY <1>1 DEF Governing, Compose
<1> QED
  BY <1>2 DEF PermittedIntents

-----------------------------------------------------------------------------
(* The inductive invariant: SettledAttemptIsDone and what the status knows *)

CancelMatches == canceled <=> status = "canceled"

\* No path opens a child ticket before its first attempt.
HoldKeepsClosed == shape = "child" /\ n = 0 => status \in {"blocked", "canceled"}

\* A ticket that is open between attempts has room for another one.
OpenHasHeadroom == status = "open" /\ Settled => limit = NoLimit \/ n < limit

\* Completed dispositions and the status completed rest on completed runs.
CompletionProof ==
    /\ status = "completed" => n > 0 /\ disp[n] = "completed"
    /\ \A m \in Ordinals : disp[m] = "completed" =>
          \A a \in Agents : \/ run[m][a] \in {"absent", "completed"}
                           \/ "run.integrity_terminalized" \in evidence[m][a]

LifecycleInv ==
    /\ TypeOK
    /\ SettledAttemptIsDone
    /\ CancelMatches
    /\ HoldKeepsClosed
    /\ OpenHasHeadroom
    /\ CompletionProof

LEMMA LifecycleInit == Init => LifecycleInv
<1> SUFFICES ASSUME Init PROVE LifecycleInv
  OBVIOUS
<1>1. TypeOK
  BY InitType
<1>2. SettledAttemptIsDone
  BY ConstantsAssumption DEF Init, SettledAttemptIsDone
<1>3. CancelMatches /\ HoldKeepsClosed /\ CompletionProof
  BY DEF Init, CancelMatches, HoldKeepsClosed, CompletionProof
<1>4. OpenHasHeadroom
  BY <1>1, ConstantsAssumption DEF Init, OpenHasHeadroom, NoLimit, TypeOK
<1> QED
  BY <1>1, <1>2, <1>3, <1>4 DEF LifecycleInv

\* The attempts: at most the last one unsettled, no run of a settled one active.
LEMMA AttemptsStep == LifecycleInv /\ [Next]_vars => SettledAttemptIsDone'
<1> SUFFICES ASSUME LifecycleInv, [Next]_vars PROVE SettledAttemptIsDone'
  OBVIOUS
<1> USE ConstantsAssumption DEF LifecycleInv
<1>1. CASE Quiet
  BY <1>1 DEF Quiet, SettledAttemptIsDone, AllEnded
<1>2. CASE Settling
  <2>1. PICK m \in Ordinals :
          /\ m = n /\ AllEnded(m)
          /\ disp' = [disp EXCEPT ![m] = Candidate(m)]
          /\ UNCHANGED <<n, run>>
    BY <1>2 DEF Settling, Settleable, SettleAttempt
  <2>2. Candidate(m) # "none"
    BY DEF Candidate
  <2> QED
    BY <2>1, <2>2 DEF TypeOK, SettledAttemptIsDone, AllEnded
<1>3. ASSUME NEW q \in Requests, createRunsAndStartTicket(q) PROVE SettledAttemptIsDone'
  <2>1. PICK new \in [Agents -> RunStates] : run' = [run EXCEPT ![n + 1] = new]
    BY <1>3 DEF createRunsAndStartTicket
  <2>2. /\ n' = n + 1 /\ n + 1 \in Ordinals
        /\ n = 0 \/ disp[n] # "none"
        /\ UNCHANGED disp
    BY <1>3 DEF TypeOK, createRunsAndStartTicket, Admissible, Settled, Unsettled
  <2>3. disp[n + 1] = "none"
    BY <2>2 DEF TypeOK, SettledAttemptIsDone
  <2>4. ASSUME NEW m \in Ordinals
        PROVE  /\ m < n' => disp'[m] # "none"
               /\ m > n' => disp'[m] = "none" /\ \A a \in Agents : run'[m][a] = "absent"
               /\ disp'[m] # "none" => \A a \in Agents : run'[m][a] # "active"
    <3>1. CASE m = n + 1
      BY <2>2, <2>3, <3>1 DEF TypeOK
    <3>2. CASE m # n + 1
      <4>1. run'[m] = run[m]
        BY <2>1, <3>2 DEF TypeOK
      <4>2. m < n + 1 => m < n \/ m = n
        BY <3>2 DEF TypeOK
      <4> QED
        BY <2>2, <3>2, <4>1, <4>2 DEF TypeOK, SettledAttemptIsDone, AllEnded
    <3> QED BY <3>1, <3>2
  <2> QED
    BY <2>4 DEF SettledAttemptIsDone, AllEnded
<1>4. ASSUME NEW q \in Requests, blockTicket(q) PROVE SettledAttemptIsDone'
  BY <1>4 DEF blockTicket, attemptVars, SettledAttemptIsDone, AllEnded
<1>5. ASSUME NEW m \in Ordinals, NEW a \in Agents,
             NEW outcome \in Dispositions \cup {"contradicted"},
             run[m][a] # "absent",
             run' = [run EXCEPT ![m][a] = outcome],
             UNCHANGED <<n, disp>>
      PROVE  SettledAttemptIsDone'
  <2>1. ~(m > n)
    BY <1>5 DEF SettledAttemptIsDone
  <2>2. ASSUME NEW k \in Ordinals, NEW b \in Agents
        PROVE  /\ run'[k][b] = "active" => run[k][b] = "active"
               /\ k > n => run'[k][b] = run[k][b]
    BY <1>5, <2>1 DEF TypeOK
  <2> QED
    BY <1>5, <2>2 DEF TypeOK, SettledAttemptIsDone, AllEnded
<1>6. ASSUME NEW m \in Ordinals, NEW a \in Agents, NEW outcome \in Dispositions,
             terminalizeRun(m, a, outcome)
      PROVE  SettledAttemptIsDone'
  BY <1>5, <1>6 DEF terminalizeRun
<1>7. ASSUME NEW m \in Ordinals, NEW a \in Agents,
             terminalizeRunForReplayIntegrityFailure(m, a)
      PROVE  SettledAttemptIsDone'
  BY <1>5, <1>7 DEF terminalizeRunForReplayIntegrityFailure
<1>8. ASSUME NEW l \in Limits, updateTicketMaxAttempts(l) PROVE SettledAttemptIsDone'
  BY <1>8 DEF updateTicketMaxAttempts, attemptVars, SettledAttemptIsDone, AllEnded
<1>9. CASE resolveTicketTriageAndReproject
  BY <1>9 DEF resolveTicketTriageAndReproject, attemptVars, SettledAttemptIsDone, AllEnded
<1>10. CASE cancelTicket
  BY <1>10 DEF cancelTicket, attemptVars, SettledAttemptIsDone, AllEnded
<1> QED
  BY <1>1, <1>2, <1>3, <1>4, <1>6, <1>7, <1>8, <1>9, <1>10, StepCases, Zenon

\* The status says canceled exactly when the cancellation authority is committed.
LEMMA CancelStep == LifecycleInv /\ [Next]_vars => CancelMatches'
<1> SUFFICES ASSUME LifecycleInv, [Next]_vars PROVE CancelMatches'
  OBVIOUS
<1> USE DEF LifecycleInv
<1>1. CASE Quiet
  BY <1>1 DEF Quiet, CancelMatches
<1>2. CASE Settling
  <2>1. PICK m \in Ordinals : Settleable(m) /\ SettleAttempt(m) /\ UNCHANGED canceled
    BY <1>2 DEF Settling
  <2> QED
    BY <2>1, CandidateType, StatusAfterType DEF Settleable, SettleAttempt, CancelMatches
<1>3. ASSUME NEW q \in Requests, createRunsAndStartTicket(q) PROVE CancelMatches'
  BY <1>3 DEF createRunsAndStartTicket, Admissible, CancelMatches
<1>4. ASSUME NEW q \in Requests, blockTicket(q) PROVE CancelMatches'
  BY <1>4 DEF blockTicket, CancelMatches
<1>5. ASSUME NEW m \in Ordinals, NEW a \in Agents, NEW outcome \in Dispositions,
             terminalizeRun(m, a, outcome)
      PROVE  CancelMatches'
  BY <1>5 DEF terminalizeRun, ticketVars, CancelMatches
<1>6. ASSUME NEW m \in Ordinals, NEW a \in Agents,
             terminalizeRunForReplayIntegrityFailure(m, a)
      PROVE  CancelMatches'
  BY <1>6 DEF terminalizeRunForReplayIntegrityFailure, ticketVars, CancelMatches
<1>7. ASSUME NEW l \in Limits, updateTicketMaxAttempts(l) PROVE CancelMatches'
  BY <1>7 DEF updateTicketMaxAttempts, LimitStatus, CancelMatches
<1>8. CASE resolveTicketTriageAndReproject
  BY <1>8 DEF resolveTicketTriageAndReproject, ResolvedStatus, CancelMatches
<1>9. CASE cancelTicket
  BY <1>9 DEF cancelTicket, CancelRow, CancelMatches
<1> QED
  BY <1>1, <1>2, <1>3, <1>4, <1>5, <1>6, <1>7, <1>8, <1>9, StepCases, Zenon

\* No reprojection opens a child ticket that has had no attempt.
LEMMA HoldStep == LifecycleInv /\ [Next]_vars => HoldKeepsClosed'
<1> SUFFICES ASSUME LifecycleInv, [Next]_vars, (shape = "child" /\ n = 0)'
             PROVE  status' \in {"blocked", "canceled"}
  BY DEF HoldKeepsClosed
<1> USE ConstantsAssumption DEF LifecycleInv
<1>1. CASE Quiet
  BY <1>1 DEF Quiet, HoldKeepsClosed
<1>2. CASE Settling
  BY <1>2 DEF Settling, Settleable
<1>3. ASSUME NEW q \in Requests, createRunsAndStartTicket(q) PROVE FALSE
  BY <1>3 DEF TypeOK, createRunsAndStartTicket
<1>4. ASSUME NEW q \in Requests, blockTicket(q) PROVE status' \in {"blocked", "canceled"}
  BY <1>4 DEF blockTicket, attemptVars, HoldKeepsClosed
<1>5. ASSUME NEW m \in Ordinals, NEW a \in Agents, NEW outcome \in Dispositions,
             terminalizeRun(m, a, outcome)
      PROVE  status' \in {"blocked", "canceled"}
  BY <1>5 DEF terminalizeRun, ticketVars, HoldKeepsClosed
<1>6. ASSUME NEW m \in Ordinals, NEW a \in Agents,
             terminalizeRunForReplayIntegrityFailure(m, a)
      PROVE  status' \in {"blocked", "canceled"}
  BY <1>6 DEF terminalizeRunForReplayIntegrityFailure, ticketVars, HoldKeepsClosed
<1>7. ASSUME NEW l \in Limits, updateTicketMaxAttempts(l)
      PROVE  status' \in {"blocked", "canceled"}
  <2>1. shape = "child" /\ n = 0 /\ status' = LimitStatus(l)
    BY <1>7 DEF updateTicketMaxAttempts, attemptVars
  <2>2. Compose(triage, Last, n, l, shape, refusal) # "none"
    BY <2>1 DEF Compose
  <2> QED
    BY <2>1, <2>2 DEF LimitStatus, Unsettled, Last
<1>8. CASE resolveTicketTriageAndReproject
  <2>1. shape = "child" /\ n = 0
    BY <1>8 DEF resolveTicketTriageAndReproject, attemptVars
  <2>2. PICK ref : status' = ResolvedStatus(ref)
    BY <1>8 DEF resolveTicketTriageAndReproject
  <2>3. Compose("resolved", Last, n, limit, shape, ref) # "none"
    BY <2>1 DEF Compose
  <2> QED
    BY <2>1, <2>2, <2>3 DEF ResolvedStatus, HoldKeepsClosed
<1>9. CASE cancelTicket
  BY <1>9 DEF cancelTicket, CancelRow
<1> QED
  BY <1>1, <1>2, <1>3, <1>4, <1>5, <1>6, <1>7, <1>8, <1>9, StepCases, Zenon

\* A limit change and a settlement leave an open ticket room for an attempt.
LEMMA HeadroomStep == LifecycleInv /\ [Next]_vars => OpenHasHeadroom'
<1> SUFFICES ASSUME LifecycleInv, [Next]_vars, (status = "open" /\ Settled)'
             PROVE  (limit = NoLimit \/ n < limit)'
  BY DEF OpenHasHeadroom
<1> USE ConstantsAssumption DEF LifecycleInv
<1>0. n \in Nat /\ limit \in Nat /\ Limits \subseteq Nat
  BY DEF TypeOK
<1>1. CASE Quiet
  BY <1>1 DEF Quiet, OpenHasHeadroom, Settled, Unsettled
<1>2. CASE Settling
  <2>1. PICK m \in Ordinals :
          /\ m = n
          /\ status' = StatusAfter(Candidate(m))
          /\ UNCHANGED <<n, limit>>
    BY <1>2 DEF Settling, Settleable, SettleAttempt
  <2>2. Compose(triage, Candidate(m), n, limit, shape, refusal) = "none"
    BY <2>1 DEF StatusAfter
  <2> QED
    BY <1>0, <2>1, <2>2, ComposeNone
<1>3. ASSUME NEW q \in Requests, createRunsAndStartTicket(q) PROVE FALSE
  BY <1>3 DEF createRunsAndStartTicket
<1>4. ASSUME NEW q \in Requests, blockTicket(q) PROVE (limit = NoLimit \/ n < limit)'
  BY <1>4 DEF blockTicket, attemptVars, OpenHasHeadroom, Settled, Unsettled
<1>5. ASSUME NEW m \in Ordinals, NEW a \in Agents, NEW outcome \in Dispositions,
             terminalizeRun(m, a, outcome)
      PROVE  (limit = NoLimit \/ n < limit)'
  BY <1>5 DEF terminalizeRun, ticketVars, OpenHasHeadroom, Settled, Unsettled
<1>6. ASSUME NEW m \in Ordinals, NEW a \in Agents,
             terminalizeRunForReplayIntegrityFailure(m, a)
      PROVE  (limit = NoLimit \/ n < limit)'
  BY <1>6 DEF terminalizeRunForReplayIntegrityFailure, ticketVars, OpenHasHeadroom,
              Settled, Unsettled
<1>7. ASSUME NEW l \in Limits, updateTicketMaxAttempts(l)
      PROVE  (limit = NoLimit \/ n < limit)'
  <2>1. /\ limit' = l /\ UNCHANGED <<n, disp>>
        /\ LimitStatus(l) = "open"
        /\ ~Unsettled
    BY <1>7 DEF updateTicketMaxAttempts, attemptVars, Settled, Unsettled
  <2>2. Compose(triage, Last, n, l, shape, refusal) = "none"
    BY <2>1 DEF LimitStatus
  <2> QED
    BY <1>0, <2>1, <2>2, ComposeNone
<1>8. CASE resolveTicketTriageAndReproject
  <2>1. PICK ref : status' = ResolvedStatus(ref)
    BY <1>8 DEF resolveTicketTriageAndReproject
  <2>2. UNCHANGED <<n, disp, limit>>
    BY <1>8 DEF resolveTicketTriageAndReproject, attemptVars
  <2>3. CASE status = "blocked"
    <3>1. Compose("resolved", Last, n, limit, shape, ref) = "none"
      BY <2>1, <2>3 DEF ResolvedStatus
    <3> QED
      BY <1>0, <2>2, <3>1, ComposeNone
  <2>4. CASE status # "blocked"
    BY <2>1, <2>2, <2>4 DEF ResolvedStatus, OpenHasHeadroom, Settled, Unsettled
  <2> QED BY <2>3, <2>4
<1>9. CASE cancelTicket
  BY <1>9 DEF cancelTicket, CancelRow
<1> QED
  BY <1>1, <1>2, <1>3, <1>4, <1>5, <1>6, <1>7, <1>8, <1>9, StepCases, Zenon

\* Completed rests on completed runs, whatever the integrity path rewrites.
LEMMA CompletionStep == LifecycleInv /\ [Next]_vars => CompletionProof'
<1> SUFFICES ASSUME LifecycleInv, [Next]_vars PROVE CompletionProof'
  OBVIOUS
<1> USE ConstantsAssumption DEF LifecycleInv
<1> DEFINE Proven(m) ==
      \A a \in Agents : \/ run[m][a] \in {"absent", "completed"}
                       \/ "run.integrity_terminalized" \in evidence[m][a]
<1>1. CASE Quiet
  BY <1>1 DEF Quiet, CompletionProof
<1>2. CASE Settling
  <2>1. PICK m \in Ordinals :
          /\ m = n /\ AllEnded(m) /\ Provable(m)
          /\ disp' = [disp EXCEPT ![m] = Candidate(m)]
          /\ status' = StatusAfter(Candidate(m))
          /\ UNCHANGED <<n, run, evidence>>
    BY <1>2 DEF Settling, Settleable, SettleAttempt
  <2>2. Candidate(m) = "completed" => Proven(m)
    BY <2>1 DEF TypeOK, Candidate, AllEnded, Provable
  <2>3. StatusAfter(Candidate(m)) = "completed" => Candidate(m) = "completed"
    BY CandidateType DEF StatusAfter
  <2> QED
    BY <2>1, <2>2, <2>3 DEF TypeOK, CompletionProof
<1>3. ASSUME NEW q \in Requests, createRunsAndStartTicket(q) PROVE CompletionProof'
  <2>1. PICK new \in [Agents -> RunStates] : run' = [run EXCEPT ![n + 1] = new]
    BY <1>3 DEF createRunsAndStartTicket
  <2>2. status' = "in_progress" /\ n + 1 \in Ordinals /\ UNCHANGED <<disp, evidence>>
    BY <1>3 DEF TypeOK, createRunsAndStartTicket
  <2>3. disp[n + 1] = "none"
    BY <2>2 DEF TypeOK, SettledAttemptIsDone
  <2>4. \A m \in Ordinals : disp[m] = "completed" => run'[m] = run[m]
    BY <2>1, <2>3 DEF TypeOK
  <2> QED
    BY <2>2, <2>4 DEF CompletionProof
<1>4. ASSUME NEW q \in Requests, blockTicket(q) PROVE CompletionProof'
  BY <1>4 DEF blockTicket, attemptVars, CompletionProof
<1>5. ASSUME NEW m \in Ordinals, NEW a \in Agents, NEW outcome \in Dispositions,
             terminalizeRun(m, a, outcome)
      PROVE  CompletionProof'
  <2>1. /\ run[m][a] = "active"
        /\ run' = [run EXCEPT ![m][a] = outcome]
        /\ evidence' = [evidence EXCEPT ![m][a] = @ \cup {"run.terminalized"}]
        /\ UNCHANGED <<status, n, disp>>
    BY <1>5 DEF terminalizeRun, ticketVars
  <2>2. disp[m] = "none"
    BY <2>1 DEF TypeOK, SettledAttemptIsDone, AllEnded
  <2>3. \A k \in Ordinals : k # m => run'[k] = run[k] /\ evidence'[k] = evidence[k]
    BY <2>1 DEF TypeOK
  <2> QED
    BY <2>1, <2>2, <2>3 DEF CompletionProof
<1>6. ASSUME NEW m \in Ordinals, NEW a \in Agents,
             terminalizeRunForReplayIntegrityFailure(m, a)
      PROVE  CompletionProof'
  <2>1. /\ run' = [run EXCEPT ![m][a] =
                       IF @ = "completed" THEN "contradicted" ELSE "failed"]
        /\ evidence' = [evidence EXCEPT ![m][a] = @ \cup {"run.integrity_terminalized"}]
        /\ UNCHANGED <<status, n, disp>>
    BY <1>6 DEF terminalizeRunForReplayIntegrityFailure, ticketVars
  <2>2. ASSUME NEW k \in Ordinals, NEW b \in Agents
        PROVE  \/ run'[k][b] = run[k][b] /\ evidence'[k][b] = evidence[k][b]
               \/ "run.integrity_terminalized" \in evidence'[k][b]
    <3>1. CASE k = m /\ b = a
      BY <2>1, <3>1 DEF TypeOK
    <3>2. CASE ~(k = m /\ b = a)
      BY <2>1, <3>2 DEF TypeOK
    <3> QED BY <3>1, <3>2
  <2> QED
    BY <2>1, <2>2 DEF CompletionProof
<1>7. ASSUME NEW l \in Limits, updateTicketMaxAttempts(l) PROVE CompletionProof'
  <2>1. status' = LimitStatus(l) /\ UNCHANGED <<n, disp, run, evidence>>
    BY <1>7 DEF updateTicketMaxAttempts, attemptVars
  <2>2. LimitStatus(l) = "completed" => status = "completed" \/ Last = "completed"
    BY DEF LimitStatus
  <2>3. Last = "completed" => n > 0 /\ disp[n] = "completed"
    BY DEF TypeOK, Last
  <2> QED
    BY <2>1, <2>2, <2>3 DEF CompletionProof
<1>8. CASE resolveTicketTriageAndReproject
  <2>1. status' \in {"open", status} /\ UNCHANGED <<n, disp, run, evidence>>
    BY <1>8 DEF resolveTicketTriageAndReproject, ResolvedStatus, attemptVars
  <2> QED
    BY <2>1 DEF CompletionProof
<1>9. CASE cancelTicket
  BY <1>9 DEF cancelTicket, CancelRow, attemptVars, CompletionProof
<1> QED
  BY <1>1, <1>2, <1>3, <1>4, <1>5, <1>6, <1>7, <1>8, <1>9, StepCases, Zenon

LEMMA LifecycleStep == LifecycleInv /\ [Next]_vars => LifecycleInv'
<1> SUFFICES ASSUME LifecycleInv, [Next]_vars PROVE LifecycleInv'
  OBVIOUS
<1>1. TypeOK'
  BY TypeStep DEF LifecycleInv
<1> QED
  BY <1>1, AttemptsStep, CancelStep, HoldStep, HeadroomStep, CompletionStep DEF LifecycleInv

LEMMA LifecycleInvariant == Spec => []LifecycleInv
BY LifecycleInit, LifecycleStep, PTL DEF Spec

-----------------------------------------------------------------------------
(* Theorems *)

\* Only the current attempt may be unsettled, and no run of a settled attempt is
\* active, whoever admits and settles (transitionTicketAfterRun, rerunAdmitRuns).
THEOREM SettledDone == Spec => []SettledAttemptIsDone
<1>1. LifecycleInv => SettledAttemptIsDone
  BY DEF LifecycleInv
<1> QED
  BY <1>1, LifecycleInvariant, PTL

\* A completed ticket rests on an attempt whose runs all completed, except runs
\* the integrity path rewrote later (deriveTicketAttemptDisposition).
THEOREM CompletionProven == Spec => []CompletedTicketIsProven
<1>1. LifecycleInv => CompletedTicketIsProven
  BY DEF LifecycleInv, TypeOK, CompletionProof, CompletedTicketIsProven, Members
<1> QED
  BY <1>1, LifecycleInvariant, PTL

\* The disposition of an attempt is written once (transitionTicketAfterRun).
THEOREM DispositionFinal == Spec => DispositionWriteOnce
<1> DEFINE A == \A m \in Ordinals : disp[m] # "none" => disp'[m] = disp[m]
<1>1. LifecycleInv /\ [Next]_vars => A
  <2> SUFFICES ASSUME LifecycleInv, [Next]_vars PROVE A
    OBVIOUS
  <2>1. CASE Settling
    <3>1. PICK m \in Ordinals : disp[m] \in {"none", Candidate(m)}
                               /\ disp' = [disp EXCEPT ![m] = Candidate(m)]
      BY <2>1 DEF Settling, Settleable, SettleAttempt
    <3> QED
      BY <3>1 DEF LifecycleInv, TypeOK
  <2>2. CASE ~Settling
    <3>1. UNCHANGED disp
      BY <2>2, StepCases DEF LifecycleInv, Quiet, createRunsAndStartTicket, blockTicket,
         terminalizeRun, terminalizeRunForReplayIntegrityFailure, updateTicketMaxAttempts,
         resolveTicketTriageAndReproject, cancelTicket, attemptVars
    <3> QED BY <3>1
  <2> QED BY <2>1, <2>2
<1> QED
  BY <1>1, LifecycleInvariant, PTL DEF Spec, DispositionWriteOnce

\* After a cancellation nothing in flight changes the ticket or its attempts
\* (assertTicketCancellationNotCommitted in every writer).
THEOREM CancellationFinal == Spec => NothingAfterCancel
<1> DEFINE A == status = "canceled" =>
                   canceled' /\ status' = "canceled" /\ n' = n /\ disp' = disp
<1>1. LifecycleInv /\ [Next]_vars => A
  <2> SUFFICES ASSUME LifecycleInv, [Next]_vars, status = "canceled"
               PROVE  canceled' /\ status' = "canceled" /\ n' = n /\ disp' = disp
    OBVIOUS
  <2>0. canceled
    BY DEF LifecycleInv, CancelMatches
  <2>1. CASE Quiet
    BY <2>0, <2>1 DEF Quiet
  <2>2. ~Settling
    BY <2>0 DEF Settling, Settleable
  <2>3. ASSUME NEW q \in Requests, createRunsAndStartTicket(q) PROVE FALSE
    BY <2>0, <2>3 DEF createRunsAndStartTicket, Admissible
  <2>4. ASSUME NEW q \in Requests, blockTicket(q)
        PROVE  canceled' /\ status' = "canceled" /\ n' = n /\ disp' = disp
    BY <2>0, <2>4 DEF blockTicket, attemptVars
  <2>5. ASSUME NEW m \in Ordinals, NEW a \in Agents, NEW outcome \in Dispositions,
               terminalizeRun(m, a, outcome)
        PROVE  canceled' /\ status' = "canceled" /\ n' = n /\ disp' = disp
    BY <2>0, <2>5 DEF terminalizeRun, ticketVars
  <2>6. ASSUME NEW m \in Ordinals, NEW a \in Agents,
               terminalizeRunForReplayIntegrityFailure(m, a)
        PROVE  canceled' /\ status' = "canceled" /\ n' = n /\ disp' = disp
    BY <2>0, <2>6 DEF terminalizeRunForReplayIntegrityFailure, ticketVars
  <2>7. ASSUME NEW l \in Limits, updateTicketMaxAttempts(l) PROVE FALSE
    BY <2>0, <2>7 DEF updateTicketMaxAttempts
  <2>8. CASE resolveTicketTriageAndReproject
    BY <2>0, <2>8 DEF resolveTicketTriageAndReproject, ResolvedStatus, attemptVars
  <2>9. ~cancelTicket
    BY <2>0 DEF cancelTicket
  <2>10. TypeOK
    BY DEF LifecycleInv
  <2> QED
    BY <2>1, <2>2, <2>3, <2>4, <2>5, <2>6, <2>7, <2>8, <2>9, <2>10, StepCases, Zenon
<1> QED
  BY <1>1, LifecycleInvariant, PTL DEF Spec, NothingAfterCancel

\* Only an admission changes the number of attempts.
LEMMA AttemptAdmitted ==
    ASSUME TypeOK, [Next]_vars, n' # n
    PROVE  \E q \in Requests : createRunsAndStartTicket(q)
BY StepCases DEF Quiet, Settling, blockTicket, terminalizeRun,
   terminalizeRunForReplayIntegrityFailure, updateTicketMaxAttempts,
   resolveTicketTriageAndReproject, cancelTicket, attemptVars

\* A child ticket gets its first attempt only through releaseTicketAdmission.
THEOREM HoldReleased == Spec => HoldNeedsRelease
<1> DEFINE A == shape = "child" /\ n = 0 /\ n' = 1 =>
                   \E q \in Requests : req[q].kind = "release" /\ req'[q] = NoRequest
<1>1. LifecycleInv /\ [Next]_vars => A
  <2> SUFFICES ASSUME LifecycleInv, [Next]_vars, shape = "child", n = 0, n' = 1
               PROVE  \E q \in Requests : req[q].kind = "release" /\ req'[q] = NoRequest
    OBVIOUS
  <2>0. TypeOK /\ n' # n
    BY DEF LifecycleInv
  <2>1. PICK q \in Requests : createRunsAndStartTicket(q)
    BY <2>0, AttemptAdmitted
  <2>2. req[q].kind \in RequestKinds \ {"none"} /\ req'[q] = NoRequest
    BY <2>0, <2>1 DEF TypeOK, RequestRecords, createRunsAndStartTicket
  <2>3. status # "open"
    BY DEF LifecycleInv, HoldKeepsClosed
  <2>4. req[q].kind # "auto" /\ AuthorizedRerun(req[q])
    BY <2>1, <2>3 DEF createRunsAndStartTicket, Admissible, AuthorizedAuto
  <2>5. IntentOf(req[q].kind) = "release_hold"
    BY <2>0, <2>4, HoldIntent DEF AuthorizedRerun
  <2>6. req[q].kind = "release"
    BY <2>2, <2>4, <2>5 DEF IntentOf
  <2> QED
    BY <2>2, <2>6
<1> QED
  BY <1>1, LifecycleInvariant, PTL DEF Spec, HoldNeedsRelease

\* No attempt is admitted beyond a configured maxAttempts, except after an
\* attempt that ended blocked (composeBlockingAuthority, createRunsAndStartTicket).
THEOREM LimitHolds == Spec => AdmissionWithinLimit
<1> DEFINE A == n' # n => limit = NoLimit \/ n' <= limit \/ Last = "blocked"
<1>1. LifecycleInv /\ [Next]_vars => A
  <2> SUFFICES ASSUME LifecycleInv, [Next]_vars, n' # n
               PROVE  limit = NoLimit \/ n' <= limit \/ Last = "blocked"
    OBVIOUS
  <2>0. TypeOK /\ n \in Nat /\ limit \in Nat
    BY ConstantsAssumption DEF LifecycleInv, TypeOK
  <2>1. PICK q \in Requests : createRunsAndStartTicket(q)
    BY <2>0, AttemptAdmitted
  <2>2. n' = n + 1 /\ Settled
    BY <2>1 DEF createRunsAndStartTicket, Admissible
  <2>3. CASE req[q].kind = "auto"
    <3>1. status = "open"
      BY <2>1, <2>3 DEF createRunsAndStartTicket, Admissible, AuthorizedAuto
    <3>2. limit = NoLimit \/ n < limit
      BY <2>2, <3>1 DEF LifecycleInv, OpenHasHeadroom
    <3> QED
      BY <2>0, <2>2, <3>2
  <2>4. CASE req[q].kind # "auto"
    <3>1. IntentOf(req[q].kind) \in PermittedIntents(Governing)
      BY <2>1, <2>4 DEF createRunsAndStartTicket, Admissible, AuthorizedRerun
    <3>2. limit = NoLimit \/ n < limit \/ Last = "blocked"
      BY <2>0, <3>1, PermittedHeadroom
    <3> QED
      BY <2>0, <2>2, <3>2
  <2> QED BY <2>3, <2>4
<1> QED
  BY <1>1, LifecycleInvariant, PTL DEF Spec, AdmissionWithinLimit

\* An admission lands on the canonical projection.
LEMMA AdmissionProjects ==
    ASSUME LifecycleInv, NEW q \in Requests, createRunsAndStartTicket(q)
    PROVE  status' = Lifecycle'
<1>1. /\ n' = n + 1 /\ status' = "in_progress" /\ ~canceled'
      /\ UNCHANGED disp /\ n + 1 \in Ordinals /\ n' > 0
  BY ConstantsAssumption DEF LifecycleInv, TypeOK, createRunsAndStartTicket, Admissible
<1>2. disp[n + 1] = "none"
  BY <1>1 DEF LifecycleInv, TypeOK, SettledAttemptIsDone
<1> QED
  BY <1>1, <1>2 DEF Lifecycle, Unsettled

\* A settlement lands on the canonical projection.
LEMMA SettlementProjects ==
    ASSUME LifecycleInv, Settling
    PROVE  status' = Lifecycle'
<1>1. PICK m \in Ordinals :
        /\ m = n /\ ~canceled
        /\ disp' = [disp EXCEPT ![m] = Candidate(m)]
        /\ status' = StatusAfter(Candidate(m))
        /\ UNCHANGED <<shape, canceled, triage, refusal, limit, n>>
  BY DEF Settling, Settleable, SettleAttempt
<1>2. n' > 0 /\ disp'[n'] = Candidate(m) /\ Candidate(m) \in Dispositions
  BY <1>1, CandidateType DEF LifecycleInv, TypeOK
<1>3. ~Unsettled' /\ Last' = Candidate(m) /\ ~canceled'
  BY <1>1, <1>2 DEF Unsettled, Last
<1>4. Governing' = Compose(triage, Candidate(m), n, limit, shape, refusal)
  BY <1>1, <1>3 DEF Governing, Compose
<1>5. CASE Candidate(m) = "completed"
  BY <1>1, <1>3, <1>5 DEF StatusAfter, Lifecycle
<1>6. CASE Candidate(m) = "blocked"
  <2>1. Compose(triage, Candidate(m), n, limit, shape, refusal) # "none"
    BY <1>6 DEF Compose
  <2> QED
    BY <1>1, <1>3, <1>4, <1>6, <2>1 DEF StatusAfter, Lifecycle
<1>7. CASE Candidate(m) \notin {"completed", "blocked"}
  BY <1>1, <1>3, <1>4, <1>7 DEF StatusAfter, Lifecycle
<1> QED
  BY <1>5, <1>6, <1>7

\* Admission and settlement restore the canonical projection of the ticket, even
\* over a status that blockTicket wrote (transitionTicketAfterRun).
THEOREM StepsProject == Spec => AttemptStepsProject
<1> DEFINE A == n' # n \/ disp' # disp => status' = Lifecycle'
<1>1. LifecycleInv /\ [Next]_vars => A
  <2> SUFFICES ASSUME LifecycleInv, [Next]_vars, n' # n \/ disp' # disp
               PROVE  status' = Lifecycle'
    OBVIOUS
  <2>0. TypeOK
    BY DEF LifecycleInv
  <2>1. CASE n' # n
    BY <2>0, <2>1, AttemptAdmitted, AdmissionProjects
  <2>2. CASE n' = n
    <3>1. \A q \in Requests : ~createRunsAndStartTicket(q)
      BY <2>0, <2>2 DEF TypeOK, createRunsAndStartTicket
    <3>2. Settling
      BY <2>0, <2>2, <3>1, StepCases DEF Quiet, blockTicket, terminalizeRun,
         terminalizeRunForReplayIntegrityFailure, updateTicketMaxAttempts,
         resolveTicketTriageAndReproject, cancelTicket, attemptVars
    <3> QED
      BY <3>2, SettlementProjects
  <2> QED BY <2>1, <2>2
<1> QED
  BY <1>1, LifecycleInvariant, PTL DEF Spec, AttemptStepsProject

-----------------------------------------------------------------------------
(* The status as a projection, when no preparation blocks the ticket *)

\* Without blocking preparations no request is on its way to blockTicket.
NoRefusals ==
    /\ triage = "none"
    /\ refusal = "none"
    /\ \A q \in Requests : req[q].route = "admit"

LEMMA PrepareAdmits ==
    ASSUME MaxRefusals = 0, TypeOK, NoRefusals, NEW q \in Requests,
           NEW kind, NEW pred, PrepareRequest(q, kind, pred)
    PROVE  \A r \in Requests : req'[r].route = "admit"
<1>1. ~Spend("refusal")
  BY DEF TypeOK, Spend, Bounds
<1>2. req' = [req EXCEPT ![q] = [kind |-> kind, route |-> "admit",
                                 limit |-> Effective(limit), pred |-> pred]]
  BY <1>1 DEF PrepareRequest
<1> QED
  BY <1>2 DEF TypeOK, NoRefusals

LEMMA NoRefusalsStep ==
    ASSUME MaxRefusals = 0, TypeOK, NoRefusals, [Next]_vars
    PROVE  NoRefusals'
<1>1. ASSUME NEW q \in Requests,
             createRunsForTicket(q) \/ rerunTicketFromBeginning(q)
                \/ releaseTicketAdmission(q)
      PROVE  NoRefusals'
  <2>1. \E kind, pred : PrepareRequest(q, kind, pred)
    BY <1>1 DEF createRunsForTicket, rerunTicketFromBeginning, releaseTicketAdmission
  <2>2. UNCHANGED <<triage, refusal>>
    BY <1>1 DEF createRunsForTicket, rerunTicketFromBeginning, releaseTicketAdmission,
                ticketVars
  <2> QED
    BY <2>1, <2>2, PrepareAdmits DEF NoRefusals
<1>2. ASSUME NEW q \in Requests, NEW m \in Ordinals, NEW a \in Agents,
             runAutoRetryAfterFailure(q, m, a)
      PROVE  NoRefusals'
  BY <1>2, PrepareAdmits DEF runAutoRetryAfterFailure, ticketVars, NoRefusals
<1>3. ASSUME NEW q \in Requests, createRunsAndStartTicket(q) \/ refuseAdmission(q)
      PROVE  NoRefusals'
  <2>1. req' = [req EXCEPT ![q] = NoRequest] /\ UNCHANGED triage /\ refusal' = "none"
    BY <1>3 DEF createRunsAndStartTicket, refuseAdmission, ticketVars, NoRefusals
  <2> QED
    BY <2>1 DEF TypeOK, NoRefusals, NoRequest
<1>4. ASSUME NEW q \in Requests PROVE ~blockTicket(q)
  BY <1>4 DEF blockTicket, NoRefusals
<1>5. ASSUME NEW m \in Ordinals, NEW a \in Agents,
             \/ \E outcome \in Dispositions : terminalizeRun(m, a, outcome)
             \/ terminalizeRunForReplayIntegrityFailure(m, a)
             \/ finalizeTicketForRun(m, a)
             \/ loseWork(m, a)
      PROVE  NoRefusals'
  BY <1>5 DEF terminalizeRun, terminalizeRunForReplayIntegrityFailure,
              finalizeTicketForRun, loseWork, ticketVars, NoRefusals
<1>6. CASE reconcileUnfinalizedTicketsOnStartup
  BY <1>6 DEF reconcileUnfinalizedTicketsOnStartup, NoRefusals
<1>7. ASSUME NEW l \in Limits, updateTicketMaxAttempts(l) PROVE NoRefusals'
  BY <1>7 DEF updateTicketMaxAttempts, NoRefusals
<1>8. ~resolveTicketTriageAndReproject
  BY DEF resolveTicketTriageAndReproject, NoRefusals
<1>9. CASE cancelTicket
  BY <1>9 DEF cancelTicket, NoRefusals
<1>10. CASE UNCHANGED vars
  BY <1>10 DEF vars, NoRefusals
<1> QED
  BY <1>1, <1>2, <1>3, <1>4, <1>5, <1>6, <1>7, <1>8, <1>9, <1>10, Zenon DEF Next

LEMMA ProjectedStep ==
    ASSUME LifecycleInv, NoRefusals, StatusProjected, [Next]_vars
    PROVE  StatusProjected'
<1> USE DEF StatusProjected
<1>1. CASE Quiet
  BY <1>1 DEF Quiet, Lifecycle, Unsettled, Last, Governing, Compose
<1>2. CASE Settling
  BY <1>2, SettlementProjects
<1>3. ASSUME NEW q \in Requests, createRunsAndStartTicket(q) PROVE StatusProjected'
  BY <1>3, AdmissionProjects
<1>4. ASSUME NEW q \in Requests PROVE ~blockTicket(q)
  BY <1>4 DEF blockTicket, NoRefusals
<1>5. ASSUME NEW m \in Ordinals, NEW a \in Agents,
             \/ \E outcome \in Dispositions : terminalizeRun(m, a, outcome)
             \/ terminalizeRunForReplayIntegrityFailure(m, a)
      PROVE  StatusProjected'
  <2>1. UNCHANGED <<shape, status, canceled, triage, refusal, limit, n, disp>>
    BY <1>5 DEF terminalizeRun, terminalizeRunForReplayIntegrityFailure, ticketVars
  <2> QED
    BY <2>1 DEF Lifecycle, Unsettled, Last, Governing, Compose
<1>6. ASSUME NEW l \in Limits, updateTicketMaxAttempts(l) PROVE StatusProjected'
  <2>1. /\ ~canceled /\ limit' = l /\ status' = LimitStatus(l)
        /\ UNCHANGED <<shape, canceled, triage, refusal, n, disp>>
    BY <1>6 DEF updateTicketMaxAttempts, attemptVars
  <2>2. /\ Unsettled' = Unsettled /\ Last' = Last
        /\ Governing' = Compose(triage, Last, n, l, shape, refusal)
    BY <2>1 DEF Unsettled, Last, Governing, Compose
  <2>3. CASE Unsettled
    BY <2>1, <2>2, <2>3 DEF LimitStatus, Lifecycle
  <2>4. CASE ~Unsettled
    BY <2>1, <2>2, <2>4 DEF LimitStatus, Lifecycle
  <2> QED BY <2>3, <2>4
<1>7. ~resolveTicketTriageAndReproject
  BY DEF resolveTicketTriageAndReproject, NoRefusals
<1>8. CASE cancelTicket
  BY <1>8 DEF cancelTicket, CancelRow, Lifecycle
<1>9. TypeOK
  BY DEF LifecycleInv
<1> QED
  BY <1>1, <1>2, <1>3, <1>4, <1>5, <1>6, <1>7, <1>8, <1>9, StepCases, Zenon

\* tickets.status is projectTicketLifecycle of the durable facts in every state,
\* as long as no preparation ends in blockTicket.
THEOREM StatusIsProjection ==
    ASSUME MaxRefusals = 0
    PROVE  Spec => []StatusProjected
<1> DEFINE Inv == LifecycleInv /\ NoRefusals /\ StatusProjected
<1>1. Init => Inv
  <2> SUFFICES ASSUME Init PROVE NoRefusals /\ StatusProjected
    BY LifecycleInit
  <2>1. NoRefusals
    BY DEF Init, NoRefusals, NoRequest
  <2>2. limit = NoLimit \/ ~(n >= limit)
    BY ConstantsAssumption DEF Init, NoLimit
  <2>3. Governing = IF shape = "child" THEN "admissionHold" ELSE "none"
    BY <2>2 DEF Init, Governing, Compose, Last
  <2>4. StatusProjected
    BY <2>3 DEF Init, StatusProjected, Lifecycle, Unsettled, Last
  <2> QED BY <2>1, <2>4
<1>2. Inv /\ [Next]_vars => Inv'
  BY LifecycleStep, NoRefusalsStep, ProjectedStep DEF LifecycleInv
<1>3. Inv => StatusProjected
  OBVIOUS
<1> QED
  BY <1>1, <1>2, <1>3, PTL DEF Spec
=============================================================================
