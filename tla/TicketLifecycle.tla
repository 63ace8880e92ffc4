--------------------------- MODULE TicketLifecycle ---------------------------
(***************************************************************************)
(* The lifecycle of one ticket: attempts, blockers and cancellation.       *)
(*                                                                         *)
(* A ticket is worked on in attempts.  An attempt is a batch of runs that  *)
(* is admitted in one transaction and settled, once, with a disposition    *)
(* derived from its runs.  The ticket's status is a projection of durable  *)
(* facts: the cancellation authority, the attempts, and the blocker the    *)
(* composer of ticket-blocking-authority-composer.js finds.                *)
(*                                                                         *)
(* Every method of the store is one transaction and one action.  What the  *)
(* server does around it is split where it awaits: an admission request    *)
(* reads the ticket and prepares its run drafts, and commits (or blocks    *)
(* the ticket) later; a run is ended in one transaction and its attempt    *)
(* settled in the next, and the process may die in between.                *)
(*                                                                         *)
(* Of run execution only the outcome is kept (see RunLease).               *)
(***************************************************************************)
EXTENDS Naturals

CONSTANTS
    Agents,             \* agents an attempt may have a run for
    Requests,           \* admission requests in flight at the same time
    Shapes,             \* kinds of ticket: "plain", "child", "structured"
    Limits,             \* values the operator sets executionPolicy.maxAttempts to
    DefaultMaxAttempts, \* runtime_limit_config.max_attempts
    MaxOrdinal,         \* bound: attempts of the ticket
    MaxRefusals,        \* bound: preparations that end by blocking the ticket
    MaxChanges,         \* bound: maxAttempts changes and triage resolutions
    MaxDamage,          \* bound: runs ended by the replay integrity path
    MaxCrashes          \* bound: processes that die before settling a run

NoLimit == 0            \* executionPolicy.maxAttempts IS NULL

ASSUME ConstantsAssumption ==
    /\ Shapes \subseteq {"plain", "child", "structured"}
    /\ Limits \subseteq Nat
    /\ DefaultMaxAttempts \in Nat \ {0}
    /\ MaxOrdinal \in Nat \ {0}
    /\ MaxRefusals \in Nat
    /\ MaxChanges \in Nat
    /\ MaxDamage \in Nat
    /\ MaxCrashes \in Nat

VARIABLES
    shape,     \* how the ticket was created; never changes
    status,    \* tickets.status
    canceled,  \* tickets.cancellation_authority IS NOT NULL
    triage,    \* body.triage: absent, required and unresolved, or resolved
    refusal,   \* what the latest reasoned ticket.blocked event is about, unless
               \* a later event superseded it
    limit,     \* body.executionPolicy.maxAttempts
    n,         \* ordinal of the current attempt
    disp,      \* ticket_attempts.disposition
    run,       \* the runs of each attempt, by agent
    evidence,  \* terminal events of each run
    work,      \* what the process that ended a run has yet to do for its ticket
    req,       \* admission requests between their reads and their commit
    spent      \* bounded steps taken so far

ticketVars  == <<status, canceled, triage, refusal, limit>>
attemptVars == <<n, disp, run, evidence>>
vars        == <<shape, status, canceled, triage, refusal, limit,
                 n, disp, run, evidence, work, req, spent>>

-----------------------------------------------------------------------------
(* Values *)

Ordinals     == 1 .. MaxOrdinal
Statuses     == {"open", "in_progress", "completed", "blocked", "canceled"}
Dispositions == {"completed", "failed", "interrupted", "blocked"}

\* What a run contributes to its attempt: its disposition or, when its row says
\* failed and its completion decision says completed, a contradiction.
RunStates    == Dispositions \cup {"absent", "active", "contradicted"}
TerminalEvents == {"run.terminalized", "run.integrity_terminalized"}

WorkStates     == {"none", "finalize", "finalize_retry", "retry"}
RequestKinds == {"none", "auto", "rerun", "retry", "release"}
Routes       == {"admit", "triage", "refusal"}

\* A request: who asked, what preparation decided, the attempt limit frozen in
\* the run drafts and, for a retry, the attempt of the failed predecessor.
RequestRecords == [kind : RequestKinds, route : Routes, limit : Nat, pred : Nat]
NoRequest == [kind |-> "none", route |-> "admit", limit |-> 0, pred |-> 0]

Effective(l) == IF l = NoLimit THEN DefaultMaxAttempts ELSE l

Bounds == [refusal |-> MaxRefusals, change |-> MaxChanges,
           damage |-> MaxDamage, crash |-> MaxCrashes]
Spend(k) == /\ spent[k] < Bounds[k]
            /\ spent' = [spent EXCEPT ![k] = @ + 1]

-----------------------------------------------------------------------------
(* Attempts *)

Members(m)   == {a \in Agents : run[m][a] # "absent"}
AllEnded(m)  == \A a \in Agents : run[m][a] # "active"
NoActiveRun(a) == \A m \in Ordinals : run[m][a] # "active"
Unsettled    == n > 0 /\ disp[n] = "none"
Settled      == ~Unsettled

\* evaluateAttemptCompletionAuthority throws COMPLETION_EVIDENCE_MISSING otherwise.
Provable(m) == \A a \in Agents : run[m][a] # "contradicted"

\* deriveTicketAttemptDisposition: one member decides for all, in this order.
CandidateFirst(m) ==
    IF \E a \in Agents : run[m][a] = "completed" THEN "completed" ELSE "failed"
Candidate(m) ==
    IF \E a \in Agents : run[m][a] = "blocked" THEN "blocked"
    ELSE IF \E a \in Agents : run[m][a] = "failed" THEN "failed"
    ELSE IF \E a \in Agents : run[m][a] = "interrupted" THEN "interrupted"
    ELSE "completed"

-----------------------------------------------------------------------------
(* The blocking-authority composer and the five-state projection, as functions
   of the facts they read: triage, disposition of the latest attempt, number of
   attempts, maxAttempts, kind of ticket, unsuperseded refusal *)

ComposeOffByOne(tri, last, count, lim, shp, ref) ==
    IF tri = "unresolved" THEN "ticketTriageUnresolved"
    ELSE IF last = "blocked" THEN "settledBlockedAttempt"
    ELSE IF lim # NoLimit /\ count > lim THEN "maxAttemptsExhausted"
    ELSE IF shp = "child" /\ count = 0 THEN "admissionHold"
    ELSE IF ref # "none" THEN "persistedRefusalEventId"
    ELSE "none"

\* composeBlockingAuthority: the blocker that governs, by precedence.
Compose(tri, last, count, lim, shp, ref) ==
    IF tri = "unresolved" THEN "ticketTriageUnresolved"
    ELSE IF last = "blocked" THEN "settledBlockedAttempt"
    ELSE IF lim # NoLimit /\ count >= lim THEN "maxAttemptsExhausted"
    ELSE IF shp = "child" /\ count = 0 THEN "admissionHold"
    ELSE IF ref # "none" THEN "persistedRefusalEventId"
    ELSE "none"

Last == IF n = 0 THEN "none" ELSE disp[n]

Governing == Compose(triage, Last, n, limit, shape, refusal)

\* projectTicketLifecycle.
Lifecycle ==
    IF canceled THEN "canceled"
    ELSE IF Unsettled THEN "in_progress"
    ELSE IF Last = "completed" THEN "completed"
    ELSE IF Governing # "none" THEN "blocked"
    ELSE "open"

\* assertAdmissionIntentAuthorized: the blockers each intent may supersede.
PermittedIntents(governing) ==
    IF governing \in {"ticketTriageUnresolved", "maxAttemptsExhausted"} THEN {}
    ELSE IF governing = "admissionHold" THEN {"release_hold"}
    ELSE IF governing = "persistedRefusalEventId" THEN {"retry_structured_refusal"}
    ELSE IF governing = "settledBlockedAttempt" THEN {"rerun_terminal"}
    ELSE {"rerun_terminal", "retry_auto"}

IntentOf(kind) ==
    IF kind = "release" THEN "release_hold"
    ELSE IF kind = "retry" THEN "retry_auto"
    ELSE IF shape = "structured" THEN "retry_structured_refusal"
    ELSE "rerun_terminal"

-----------------------------------------------------------------------------
\* A child ticket of executeTicketPlan is created blocked and without a run.
Init ==
    /\ shape \in Shapes
    /\ limit \in Limits
    /\ status = IF shape = "child" THEN "blocked" ELSE "open"
    /\ canceled = FALSE
    /\ triage = "none"
    /\ refusal = "none"
    /\ n = 0
    /\ disp = [m \in Ordinals |-> "none"]
    /\ run = [m \in Ordinals |-> [a \in Agents |-> "absent"]]
    /\ evidence = [m \in Ordinals |-> [a \in Agents |-> {}]]
    /\ work = [m \in Ordinals |-> [a \in Agents |-> "none"]]
    /\ req = [q \in Requests |-> NoRequest]
    /\ spent = [k \in {"refusal", "change", "damage", "crash"} |-> 0]

-----------------------------------------------------------------------------
(* Admission requests: reads and preparation of run drafts *)

\* What preparation may decide: drafts to admit, or a reason to block the ticket
\* (ambiguous objective, infeasible scope, no permitted model provider, or the
\* refusal of the structured planner).
PrepareRequest(q, kind, pred) ==
    \E route \in IF shape = "structured" /\ kind # "release"
                 THEN {"admit", "refusal"} ELSE {"admit", "triage"} :
        /\ (kind = "auto" /\ route # "admit") \/ n < Effective(limit)
        /\ req[q] = NoRequest
        /\ req' = [req EXCEPT ![q] = [kind |-> kind, route |-> route,
                                      limit |-> Effective(limit), pred |-> pred]]
        /\ IF route = "admit" THEN UNCHANGED spent ELSE Spend("refusal")

\* createRunsForTicket after a ticket was created or reassigned.
createRunsForTicket(q) ==
    /\ status = "open"
    /\ triage # "unresolved"
    /\ \E a \in Agents : NoActiveRun(a)
    /\ PrepareRequest(q, "auto", 0)
    /\ UNCHANGED <<shape, ticketVars, attemptVars, work>>

\* rerunTicketFromBeginning, once the runs still active have been interrupted.
rerunTicketFromBeginning(q) ==
    /\ triage # "unresolved"
    /\ ~(status = "blocked" /\ shape = "child")
    /\ n > 0 => AllEnded(n)
    /\ PrepareRequest(q, "rerun", 0)
    /\ UNCHANGED <<shape, ticketVars, attemptVars, work>>

\* releaseTicketAdmission: any ticket, whatever its state.
releaseTicketAdmission(q) ==
    /\ \E a \in Agents : NoActiveRun(a)
    /\ PrepareRequest(q, "release", 0)
    /\ UNCHANGED <<shape, ticketVars, attemptVars, work>>

\* runAutoRetryAfterFailureIfPolicyAllows, in the process that failed the run.
runAutoRetryAfterFailure(q, m, a) ==
    /\ work[m][a] = "retry"
    /\ NoActiveRun(a)
    /\ PrepareRequest(q, "retry", m)
    /\ work' = [work EXCEPT ![m][a] = "none"]
    /\ UNCHANGED <<shape, ticketVars, attemptVars>>

-----------------------------------------------------------------------------
(* Admission requests: commit *)

\* createRunsAndStartTicket on its own: only an open ticket.
AuthorizedAuto(d) ==
    /\ status = "open"
    /\ triage # "unresolved"
    /\ shape = "structured" => n = 0

\* rerunAdmitRuns and the leaf continuation: the blocker is derived again under
\* the locks and must be one the intent may supersede.
AuthorizedRerun(d) ==
    /\ status \notin {"canceled", "in_progress"}
    /\ IntentOf(d.kind) \in PermittedIntents(Governing)
    /\ shape = "structured" => n = 0
    /\ d.kind = "retry" => d.pred = n

AdmissibleOverUnsettled(d) ==
    /\ ~canceled
    /\ IF d.kind = "auto" THEN AuthorizedAuto(d) ELSE AuthorizedRerun(d)
    /\ n + 1 <= d.limit
\* What the admission transaction requires of the rows it locks.
Admissible(d) ==
    /\ ~canceled
    /\ IF d.kind = "auto" THEN AuthorizedAuto(d) ELSE AuthorizedRerun(d)
    /\ n + 1 <= d.limit
    /\ Settled

\* createRunsAndStartTicket: attempt, runs, ticket.attempt_admitted (which
\* supersedes every earlier refusal) and the status in one transaction.
createRunsAndStartTicket(q) ==
    /\ req[q].kind # "none"
    /\ req[q].route = "admit"
    /\ Admissible(req[q])
    /\ n < MaxOrdinal
    /\ \E batch \in SUBSET Agents \ {{}} :
          /\ req[q].kind = "retry" =>
                \A a \in Agents : a \in batch <=> run[n][a] # "absent"
          /\ run' = [run EXCEPT ![n + 1] =
                       [a \in Agents |-> IF a \in batch THEN "active" ELSE "absent"]]
    /\ n' = n + 1
    /\ status' = "in_progress"
    /\ refusal' = "none"
    /\ req' = [req EXCEPT ![q] = NoRequest]
    /\ UNCHANGED <<shape, canceled, triage, limit, disp, evidence, work, spent>>

\* The transaction refuses.
refuseAdmission(q) ==
    /\ req[q].kind # "none"
    /\ req[q].route = "admit"
    /\ ~Admissible(req[q])
    /\ req' = [req EXCEPT ![q] = NoRequest]
    /\ UNCHANGED <<shape, ticketVars, attemptVars, work, spent>>

\* blockTicket: from any status but canceled, with a reasoned ticket.blocked
\* event and, for the writers that pair it, an unresolved triage.
blockTicket(q) ==
    /\ req[q].kind # "none"
    /\ req[q].route # "admit"
    /\ IF canceled \/ (req[q].route = "refusal" /\ status = "blocked")
          THEN UNCHANGED <<status, triage, refusal>>
          ELSE /\ status' = "blocked"
               /\ refusal' = req[q].route
               /\ triage' = IF req[q].route = "triage" THEN "unresolved" ELSE triage
    /\ req' = [req EXCEPT ![q] = NoRequest]
    /\ UNCHANGED <<shape, canceled, limit, attemptVars, work, spent>>

-----------------------------------------------------------------------------
(* Runs end, attempts settle *)

\* assessAutoRetryAfterFailureIfPolicyAllows, before the run is terminalized.
Retriable(m, a) ==
    /\ shape # "structured"
    /\ Members(m) = {a}
    /\ triage # "unresolved"
    /\ n < Effective(limit)

\* terminalizeRun by the executor, an operator, a rerun, a cancellation or
\* recovery; the caller goes on to settle the attempt.
terminalizeRun(m, a, outcome) ==
    /\ run[m][a] = "active"
    /\ run' = [run EXCEPT ![m][a] = outcome]
    /\ evidence' = [evidence EXCEPT ![m][a] = @ \cup {"run.terminalized"}]
    /\ \/ work' = [work EXCEPT ![m][a] = "finalize"]
       \/ /\ outcome = "failed"
          /\ Retriable(m, a)
          /\ work' = [work EXCEPT ![m][a] = "finalize_retry"]
    /\ UNCHANGED <<shape, ticketVars, n, disp, req, spent>>

\* terminalizeRunForReplayIntegrityFailure: whatever the run's status, and the
\* caller does nothing for the ticket.  The completion decision of a run that had
\* completed stays and contradicts the row.
terminalizeRunForReplayIntegrityFailure(m, a) ==
    /\ run[m][a] # "absent"
    /\ "run.integrity_terminalized" \notin evidence[m][a]
    /\ run' = [run EXCEPT ![m][a] = IF @ = "completed" THEN "contradicted" ELSE "failed"]
    /\ evidence' = [evidence EXCEPT ![m][a] = @ \cup {"run.integrity_terminalized"}]
    /\ Spend("damage")
    /\ UNCHANGED <<shape, ticketVars, n, disp, work, req>>

\* transitionTicketAfterRun for a run of attempt m.
Settleable(m) ==
    /\ m = n
    /\ ~canceled
    /\ AllEnded(m)
    /\ Provable(m)
    /\ disp[m] \in {"none", Candidate(m)}

\* COMPLETION_EVIDENCE_MISSING, TICKET_ATTEMPT_DISPOSITION_CONFLICT.
SettlementThrows(m) ==
    /\ m = n
    /\ ~canceled
    /\ AllEnded(m)
    /\ ~Settleable(m)

StatusAfterComposed(d) ==
    IF Compose(triage, d, n, limit, shape, refusal) # "none" THEN "blocked"
    ELSE IF d = "completed" THEN "completed" ELSE "open"
StatusAfter(d) ==
    IF d \in {"completed", "blocked"} THEN d
    ELSE IF Compose(triage, d, n, limit, shape, refusal) # "none" THEN "blocked" ELSE "open"

SettleAttempt(m) ==
    /\ disp' = [disp EXCEPT ![m] = Candidate(m)]
    /\ status' = StatusAfter(Candidate(m))

TransitionTicketAfterRun(m) ==
    IF Settleable(m) THEN SettleAttempt(m) ELSE UNCHANGED <<disp, status>>

\* finalizeTicketForRun and updateTicketAfterRunInterrupted; the process that
\* failed a run goes on to the retry it assessed, unless the settlement throws.
finalizeTicketForRun(m, a) ==
    /\ work[m][a] \in {"finalize", "finalize_retry"}
    /\ TransitionTicketAfterRun(m)
    /\ work' = [work EXCEPT ![m][a] =
                  IF @ = "finalize_retry" /\ ~SettlementThrows(m) THEN "retry" ELSE "none"]
    /\ UNCHANGED <<shape, canceled, triage, refusal, limit, n, run, evidence, req, spent>>

\* The process dies before it has settled or retried.
loseWork(m, a) ==
    /\ work[m][a] # "none"
    /\ work' = [work EXCEPT ![m][a] = "none"]
    /\ Spend("crash")
    /\ UNCHANGED <<shape, ticketVars, attemptVars, req>>

NeverReconcilable == FALSE
\* reconcileUnfinalizedTicketsOnStartup visits tickets in_progress whose current
\* attempt is unsettled and whose members have all been terminalized.  A settlement
\* that throws changes nothing (and ends the start of the process).
Reconcilable ==
    /\ status = "in_progress"
    /\ Unsettled
    /\ AllEnded(n)
    /\ \A a \in Members(n) : "run.terminalized" \in evidence[n][a]

reconcileUnfinalizedTicketsOnStartup ==
    /\ Reconcilable
    /\ TransitionTicketAfterRun(n)
    /\ UNCHANGED <<shape, canceled, triage, refusal, limit, n, run, evidence, work, req, spent>>

-----------------------------------------------------------------------------
(* Operators *)

\* The status a settled ticket gets when its limit changes.
LimitStatusUnchanged(l) == status
LimitStatus(l) ==
    IF Unsettled THEN status
    ELSE IF Last = "completed" THEN "completed"
    ELSE IF Compose(triage, Last, n, l, shape, refusal) # "none" THEN "blocked" ELSE "open"

updateTicketMaxAttempts(l) ==
    /\ ~canceled
    /\ limit' = l
    /\ status' = LimitStatus(l)
    /\ Spend("change")
    /\ UNCHANGED <<shape, canceled, triage, refusal, attemptVars, work, req>>

\* The status a ticket gets when its triage is resolved.
ResolvedStatusOpen(ref) == IF status = "blocked" THEN "open" ELSE status
ResolvedStatus(ref) ==
    IF status = "blocked" /\ Compose("resolved", Last, n, limit, shape, ref) = "none"
    THEN "open" ELSE status

\* resolveTicketTriageAndReproject; ticket.triage_resolved supersedes a refusal
\* with the reason of the triage.
resolveTicketTriageAndReproject ==
    LET remaining == IF refusal = "triage" THEN "none" ELSE refusal IN
    /\ triage = "unresolved"
    /\ triage' = "resolved"
    /\ refusal' = remaining
    /\ status' = ResolvedStatus(remaining)
    /\ Spend("change")
    /\ UNCHANGED <<shape, canceled, limit, attemptVars, work, req>>

CancelStatusOnly == status' = "canceled" /\ UNCHANGED canceled
CancelRow        == status' = "canceled" /\ canceled' = TRUE

\* cancelTicket: not a completed ticket, nor one whose completion is inevitable or
\* contradicted.
cancelTicket ==
    /\ ~canceled
    /\ status # "completed"
    /\ n > 0 /\ AllEnded(n) => Provable(n) /\ Candidate(n) # "completed"
    /\ CancelRow
    /\ UNCHANGED <<shape, triage, refusal, limit, attemptVars, work, req, spent>>

-----------------------------------------------------------------------------
Next ==
    \/ \E q \in Requests :
          \/ createRunsForTicket(q)
          \/ rerunTicketFromBeginning(q)
          \/ releaseTicketAdmission(q)
          \/ \E m \in Ordinals, a \in Agents : runAutoRetryAfterFailure(q, m, a)
          \/ createRunsAndStartTicket(q)
          \/ refuseAdmission(q)
          \/ blockTicket(q)
    \/ \E m \in Ordinals, a \in Agents :
          \/ \E outcome \in Dispositions : terminalizeRun(m, a, outcome)
          \/ terminalizeRunForReplayIntegrityFailure(m, a)
          \/ finalizeTicketForRun(m, a)
          \/ loseWork(m, a)
    \/ reconcileUnfinalizedTicketsOnStartup
    \/ \E l \in Limits : updateTicketMaxAttempts(l)
    \/ resolveTicketTriageAndReproject
    \/ cancelTicket

Spec == Init /\ [][Next]_vars

\* A process that ended a run goes on to settle its attempt unless it dies, and
\* a process that died is started again and reconciles.
FairSpec ==
    /\ Spec
    /\ \A m \in Ordinals, a \in Agents : WF_vars(finalizeTicketForRun(m, a))
    /\ WF_vars(reconcileUnfinalizedTicketsOnStartup)

-----------------------------------------------------------------------------
(* Properties *)

\* The variables have their types.
TypeOK ==
    /\ shape \in Shapes
    /\ status \in Statuses
    /\ canceled \in BOOLEAN
    /\ triage \in {"none", "unresolved", "resolved"}
    /\ refusal \in {"none", "triage", "refusal"}
    /\ limit \in Limits
    /\ n \in 0 .. MaxOrdinal
    /\ disp \in [Ordinals -> Dispositions \cup {"none"}]
    /\ run \in [Ordinals -> [Agents -> RunStates]]
    /\ evidence \in [Ordinals -> [Agents -> SUBSET TerminalEvents]]
    /\ work \in [Ordinals -> [Agents -> WorkStates]]
    /\ req \in [Requests -> RequestRecords]
    /\ spent \in [{"refusal", "change", "damage", "crash"} -> Nat]

\* Only the current attempt may be unsettled, and no run of a settled or a
\* future attempt is active: a settlement never leaves work behind that nobody
\* waits for, and never precedes the end of a member (transitionTicketAfterRun).
SettledAttemptIsDone ==
    \A m \in Ordinals :
        /\ m < n => disp[m] # "none"
        /\ m > n => disp[m] = "none" /\ \A a \in Agents : run[m][a] = "absent"
        /\ disp[m] # "none" => AllEnded(m)

\* A ticket is completed only by an attempt whose runs all completed; a run that
\* the integrity path rewrote afterwards says so (deriveTicketAttemptDisposition).
CompletedTicketIsProven ==
    status = "completed" =>
        /\ n > 0
        /\ \A a \in Members(n) : \/ run[n][a] = "completed"
                                 \/ "run.integrity_terminalized" \in evidence[n][a]

\* tickets.status is the canonical projection of the durable facts, as long as
\* no preparation blocks the ticket (projectTicketLifecycle).
StatusProjected == status = Lifecycle

\* Admitting and settling an attempt land on the canonical projection even after
\* blockTicket wrote over the status of a ticket with an attempt under way.
AttemptStepsProject ==
    [][n' # n \/ disp' # disp => status' = Lifecycle']_vars

\* No attempt is admitted beyond the maxAttempts the ticket has at that moment,
\* though the run drafts carry a limit that was read before; except after an
\* attempt that ended blocked, which outranks exhaustion in the composer.
AdmissionWithinLimit ==
    [][n' # n => limit = NoLimit \/ n' <= limit \/ Last = "blocked"]_vars

\* A disposition is written once, also when the integrity path rewrites a member
\* of a settled attempt (TICKET_ATTEMPT_DISPOSITION_CONFLICT).
DispositionWriteOnce ==
    [][\A m \in Ordinals : disp[m] # "none" => disp'[m] = disp[m]]_vars

\* After a cancellation no request, settlement or reprojection in flight changes
\* the ticket or admits an attempt.
NothingAfterCancel ==
    [][status = "canceled" =>
          canceled' /\ status' = "canceled" /\ n' = n /\ disp' = disp]_vars

\* A child ticket that executeTicketPlan created starts only by a release of its
\* admission hold: no triage resolution or limit change opens it.
HoldNeedsRelease ==
    [][shape = "child" /\ n = 0 /\ n' = 1 =>
          \E q \in Requests : req[q].kind = "release" /\ req'[q] = NoRequest]_vars

\* An attempt whose runs have all ended is settled, unless the ticket is canceled
\* or the integrity path ended one of the runs (finalizeTicketForRun, or the
\* startup reconciliation after a crash).  So long as no refused preparation has
\* blocked the ticket (MaxRefusals = 0), since the reconciliation reads tickets in
\* progress only, and no contradicted attempt of another ticket stops it.
UndamagedAttemptSettles ==
    \A m \in Ordinals :
        (m = n /\ AllEnded(m) /\ disp[m] = "none") ~>
            \/ disp[m] # "none"
            \/ canceled
            \/ \E a \in Agents : "run.integrity_terminalized" \in evidence[m][a]

-----------------------------------------------------------------------------
(* What the repository says of the program and the code does not do *)

\* store.js, updateTicketMaxAttempts: a blocker "must never demote a genuinely
\* completed Ticket (frozen rule 3 outranks rule 4)".
CompletedNotDemoted ==
    [][Last = "completed" /\ status = "completed" /\ n' = n => status' = "completed"]_vars

\* server.js, the startup reconciliation: it heals "the terminalized-run /
\* unfinalized-ticket disagreement", also where the integrity path ended a run.
AttemptSettles ==
    \A m \in Ordinals :
        (m = n /\ AllEnded(m) /\ disp[m] = "none") ~> (disp[m] # "none" \/ canceled)
=============================================================================
