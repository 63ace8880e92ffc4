-------------------------- MODULE GovernedRequests --------------------------
(***************************************************************************)
(* Governed provider requests of leaf runs and the account that pays them. *)
(*                                                                         *)
(* A leaf run may contact a model provider only through                    *)
(* runGovernedLeafRequest: it reserves the maximum liability of a logical  *)
(* request on the account that all leaf runs of the ticket share, wins the *)
(* start of the reservation, sends the request and settles what it cost.   *)
(* Calls for the same logical request may be in flight at the same time: a *)
(* duplicate inside a process, an executor whose lease lapsed, the one     *)
(* that resumes the run after it, and any of them may die between two      *)
(* transactions.                                                           *)
(*                                                                         *)
(* Every transaction is one action, except the start of a request: it runs *)
(* under READ COMMITTED and does not lock the run, so that the claim it    *)
(* compares may be superseded before its conditional UPDATE.               *)
(*                                                                         *)
(* Of the run only its claim and its lease are kept: it moves as           *)
(* RunStanding says, which RunLease implements.                            *)
(***************************************************************************)
EXTENDS Integers, FiniteSets, FiniteSetsExt

CONSTANTS
    Runs,             \* leaf runs of one ticket
    Requests,         \* logical requests (logicalSourceIdentity)
    RunOf,            \* the run of each logical request
    NoRequest,        \* a caller that is not in runGovernedLeafRequest
    Callers,          \* calls of runGovernedLeafRequest in flight
    Liability,        \* maximumPerRequestMicroUsd of each run's authority
    MaximumRequests,  \* maximumProviderRequests, or the lower runtime maximum
    Authorized,       \* ticket_economic_accounts.authorized_micro_usd
    MaxClaims         \* bound: claims of each run

ASSUME ConstantsAssumption ==
    /\ IsFiniteSet(Requests)
    /\ NoRequest \notin Requests
    /\ RunOf \in [Requests -> Runs]
    /\ Liability \in [Runs -> Nat \ {0}]
    /\ MaximumRequests \in Nat
    /\ Authorized \in Nat
    /\ MaxClaims \in [Runs -> Nat]

VARIABLES
    reserved,  \* ticket_economic_accounts.reserved_micro_usd
    settled,   \* ticket_economic_accounts.settled_micro_usd
    state,     \* economic_request_reservations.state, or "absent"
    ordinal,   \* model_request_ordinal
    response,  \* response_hash IS NOT NULL
    charged,   \* settled_micro_usd of the reservation
    sent,      \* times the bytes were handed to the transport
    blocked,   \* runs.body.governedProgressBlock is set
    claim,     \* newest run.lease_acquired event of each run
    lease,     \* how each run stands
    pc,        \* where each call stands
    call       \* what each call carries from one transaction to the next

accountVars == <<reserved, settled>>
rowVars     == <<state, ordinal, response, charged>>
runVars     == <<blocked, claim, lease>>
callVars    == <<pc, call>>
vars        == <<reserved, settled, state, ordinal, response, charged, sent,
                 blocked, claim, lease, pc, call>>

-----------------------------------------------------------------------------
(* Values *)

States      == {"absent", "reserved", "request_started", "response_persisted",
                "settled", "released"}
OpenStates  == {"reserved", "request_started", "response_persisted"}

\* Phases of a call.  In the last four the call owns the dispatch.
Phases == {"idle", "entered", "prepared", "starting", "lost", "observing", "closing",
           "won", "unconfirmed", "received", "settling"}
OwnerPhases == {"won", "unconfirmed", "received", "settling"}

\* What a call carries: its logical request, the claim read on entry, and whether
\* it lost the start transition.
Calls  == [request : Requests \cup {NoRequest}, claim : Nat, lost : BOOLEAN]
NoCall == [request |-> NoRequest, claim |-> 0, lost |-> FALSE]

Maximum(q)   == Liability[RunOf[q]]
RequestOf(c) == call[c].request
Owns(c, q)   == pc[c] \in OwnerPhases /\ call[c].request = q

\* How the run of a call stands (see RunLease).
Standing == INSTANCE RunStanding WITH standing <- lease

\* isRunExecutorActive: a live lease, whoever holds it.
ExecutorActive(r) == lease[r] = "held"

Goto(c, phase) == pc' = [pc EXCEPT ![c] = phase] /\ UNCHANGED call
Return(c)      == pc' = [pc EXCEPT ![c] = "idle"] /\ call' = [call EXCEPT ![c] = NoCall]

-----------------------------------------------------------------------------
Init ==
    /\ reserved = 0
    /\ settled = 0
    /\ state = [q \in Requests |-> "absent"]
    /\ ordinal = [q \in Requests |-> 0]
    /\ response = [q \in Requests |-> FALSE]
    /\ charged = [q \in Requests |-> 0]
    /\ sent = [q \in Requests |-> 0]
    /\ blocked = [r \in Runs |-> FALSE]
    /\ claim = [r \in Runs |-> 0]
    /\ Standing!Init
    /\ pc = [c \in Callers |-> "idle"]
    /\ call = [c \in Callers |-> NoCall]

-----------------------------------------------------------------------------
(* The run's lease, as far as it matters here *)

\* A claim, which appends a run.lease_acquired event.
claimPendingRun(r) ==
    /\ Standing!Move(r, "held")
    /\ Standing!Claims(r)
    /\ claim[r] < MaxClaims[r]
    /\ claim' = [claim EXCEPT ![r] = @ + 1]
    /\ UNCHANGED <<accountVars, rowVars, sent, blocked, callVars>>

\* Every other move: a claim is returned, a lease lapses, recovery takes the run
\* (which appends no run.lease_acquired) and sends it back, or the run ends.
leaseStep(r) ==
    /\ \E s \in Standing!Standings : Standing!Move(r, s)
    /\ ~Standing!Claims(r)
    /\ UNCHANGED <<accountVars, rowVars, sent, blocked, claim, callVars>>

-----------------------------------------------------------------------------
(* runGovernedLeafRequest: reservation *)

\* The claim is read on entry.  A call belongs to an execution, so the run has
\* been claimed before; the execution may be a stale one.
enter(c, q) ==
    /\ pc[c] = "idle"
    /\ claim[RunOf[q]] > 0
    /\ pc' = [pc EXCEPT ![c] = "entered"]
    /\ call' = [call EXCEPT ![c] = [request |-> q, claim |-> claim[RunOf[q]],
                                    lost |-> FALSE]]
    /\ UNCHANGED <<accountVars, rowVars, sent, runVars>>

\* The ledger of a run; an ordinal is spent once, also by a released request.
Siblings(q)           == {s \in Requests : RunOf[s] = RunOf[q] /\ state[s] # "absent"}
NextOrdinalByCount(q) == Cardinality({s \in Siblings(q) : state[s] # "released"}) + 1
NextOrdinal(q)        == Max({ordinal[s] : s \in Siblings(q)} \cup {0}) + 1

FundsIgnoringSettled(q) == reserved + Maximum(q) <= Authorized
FundsAvailable(q)       == reserved + settled + Maximum(q) <= Authorized

Reserve(q) ==
    /\ state' = [state EXCEPT ![q] = "reserved"]
    /\ ordinal' = [ordinal EXCEPT ![q] = NextOrdinal(q)]
    /\ reserved' = reserved + Maximum(q)
    /\ UNCHANGED <<settled, response, charged>>

Reservable(q) ==
    /\ state[q] = "absent"
    /\ NextOrdinal(q) <= MaximumRequests
    /\ FundsAvailable(q)

\* The durable state of an existing reservation decides what the call does next:
\* start it, observe the call that started it, settle its response, or nothing.
ContinueFrom(c, found) ==
    CASE found = "reserved"           -> Goto(c, "prepared")
      [] found = "request_started"    -> Goto(c, "observing")
      [] found = "response_persisted" -> Goto(c, "closing")
      [] OTHER                        -> Return(c)

\* prepareAndReserveNextGovernedRunRequest with reserveEconomicRequest, under the
\* locks of the run and of the account: reserves, re-reports or refuses.
prepareAndReserve(c) ==
    LET q == RequestOf(c) IN
    /\ pc[c] = "entered"
    /\ \/ /\ ~blocked[RunOf[q]]
          /\ Reservable(q)
          /\ Reserve(q)
          /\ Goto(c, "prepared")
       \/ /\ ~blocked[RunOf[q]]
          /\ state[q] # "absent"
          /\ ContinueFrom(c, state[q])
          /\ UNCHANGED <<accountVars, rowVars>>
       \/ /\ blocked[RunOf[q]] \/ (state[q] = "absent" /\ ~Reservable(q))
          /\ Return(c)
          /\ UNCHANGED <<accountVars, rowVars>>
    /\ UNCHANGED <<sent, runVars>>

\* The verified-progress evaluation refuses and its block is persisted.
blockGovernedRunForProgressDecision(c) ==
    /\ pc[c] = "entered"
    /\ ~blocked[RunOf[RequestOf(c)]]
    /\ blocked' = [blocked EXCEPT ![RunOf[RequestOf(c)]] = TRUE]
    /\ Return(c)
    /\ UNCHANGED <<accountVars, rowVars, sent, claim, lease>>

-----------------------------------------------------------------------------
(* runGovernedLeafRequest: start *)

ReleasableUnanswered(q) == state[q] \in {"reserved", "request_started"}
Releasable(q)           == state[q] = "reserved"

\* Credentials are missing: releaseUndispatchedEconomicReservation, which throws
\* when the request has been started in the meantime.
releaseUndispatched(c) ==
    LET q == RequestOf(c) IN
    /\ pc[c] = "prepared"
    /\ IF Releasable(q)
       THEN /\ state' = [state EXCEPT ![q] = "released"]
            /\ reserved' = reserved - Maximum(q)
       ELSE UNCHANGED <<state, reserved>>
    /\ Return(c)
    /\ UNCHANGED <<settled, ordinal, response, charged, sent, runVars>>

\* markEconomicRequestStarted compares the claim of the entry with the newest.
checkClaim(c) ==
    /\ pc[c] = "prepared"
    /\ IF claim[RunOf[RequestOf(c)]] = call[c].claim THEN Goto(c, "starting") ELSE Return(c)
    /\ UNCHANGED <<accountVars, rowVars, sent, runVars>>

StartableOpen(q) == state[q] \in {"reserved", "request_started"}
Startable(q)     == state[q] = "reserved"

\* markEconomicRequestStarted: one winner.
markEconomicRequestStarted(c) ==
    LET q == RequestOf(c) IN
    /\ pc[c] = "starting"
    /\ IF Startable(q)
       THEN state' = [state EXCEPT ![q] = "request_started"] /\ Goto(c, "won")
       ELSE UNCHANGED state /\ Goto(c, "lost")
    /\ UNCHANGED <<accountVars, ordinal, response, charged, sent, runVars>>

\* A call that lost the start reads the reservation again; a durable response is
\* settled.
getEconomicReservation(c) ==
    LET now == state[RequestOf(c)] IN
    /\ pc[c] = "lost"
    /\ pc' = [pc EXCEPT ![c] =
                IF now \in {"response_persisted", "settled"} THEN "closing" ELSE "observing"]
    /\ call' = [call EXCEPT ![c].lost = TRUE]
    /\ UNCHANGED <<accountVars, rowVars, sent, runVars>>

\* resolveStartedRequest: with a live lease the request is in flight or its
\* delivery uncertain, and nothing is changed; without one it is closed, but
\* never by a call that lost the start.
resolveStartedRequest(c) ==
    /\ pc[c] = "observing"
    /\ IF ExecutorActive(RunOf[RequestOf(c)]) \/ call[c].lost
       THEN Return(c) ELSE Goto(c, "closing")
    /\ UNCHANGED <<accountVars, rowVars, sent, runVars>>

-----------------------------------------------------------------------------
(* runGovernedLeafRequest: dispatch and settlement *)

\* dispatchGovernedRequest: the transport answers or fails, maybe before a byte
\* has left; in either case the bytes count as handed over.
dispatchGovernedRequest(c) ==
    /\ pc[c] = "won"
    /\ sent' = [sent EXCEPT ![RequestOf(c)] = @ + 1]
    /\ Goto(c, "received") \/ Goto(c, "unconfirmed")
    /\ UNCHANGED <<accountVars, rowVars, runVars>>

\* markEconomicResponsePersisted throws when someone closed the request.
markEconomicResponsePersisted(c) ==
    LET q == RequestOf(c) IN
    /\ pc[c] = "received"
    /\ IF state[q] = "request_started"
       THEN /\ state' = [state EXCEPT ![q] = "response_persisted"]
            /\ response' = [response EXCEPT ![q] = TRUE]
            /\ Goto(c, "settling")
       ELSE UNCHANGED <<state, response>> /\ Return(c)
    /\ UNCHANGED <<accountVars, ordinal, charged, sent, runVars>>

\* settleEconomicRequest: the whole reserve goes, the actual cost is charged.
SettleKeepingReserve(q, amount) ==
    /\ state' = [state EXCEPT ![q] = "settled"]
    /\ charged' = [charged EXCEPT ![q] = amount]
    /\ settled' = settled + amount
    /\ reserved' = reserved - amount
Settle(q, amount) ==
    /\ state' = [state EXCEPT ![q] = "settled"]
    /\ charged' = [charged EXCEPT ![q] = amount]
    /\ settled' = settled + amount
    /\ reserved' = reserved - Maximum(q)

SettleableAgain(q) == state[q] \in {"request_started", "response_persisted", "settled"}
Settleable(q)      == state[q] \in {"request_started", "response_persisted"}

\* settleFromDurableFacts without reported usage: the reserved maximum, unless
\* the request has been settled already.
settleMaximum(c) ==
    LET q == RequestOf(c) IN
    /\ pc[c] \in {"closing", "unconfirmed"}
    /\ IF Settleable(q) THEN Settle(q, Maximum(q))
                        ELSE UNCHANGED <<accountVars, state, charged>>
    /\ Return(c)
    /\ UNCHANGED <<ordinal, response, sent, runVars>>

\* settleFromDurableFacts by the winner: what the provider metered.  Usage worth
\* more than the reserve is refused and the reservation stays as it is.
settleMetered(c) ==
    LET q == RequestOf(c) IN
    /\ pc[c] = "settling"
    /\ IF Settleable(q)
       THEN \/ \E amount \in 0 .. Maximum(q) : Settle(q, amount)
            \/ UNCHANGED <<accountVars, state, charged>>
       ELSE UNCHANGED <<accountVars, state, charged>>
    /\ Return(c)
    /\ UNCHANGED <<ordinal, response, sent, runVars>>

\* The process dies, or an error (evidence that cannot be written, a lost
\* connection) leaves runGovernedLeafRequest.
abandon(c) ==
    /\ pc[c] # "idle"
    /\ Return(c)
    /\ UNCHANGED <<accountVars, rowVars, sent, runVars>>

-----------------------------------------------------------------------------
\* Every run was ended before its first claim: no call will ever be made.
allSettled ==
    /\ \A r \in Runs : lease[r] = "ended" /\ claim[r] = 0
    /\ UNCHANGED vars

Next ==
    \/ \E r \in Runs : claimPendingRun(r) \/ leaseStep(r)
    \/ allSettled
    \/ \E c \in Callers :
          \/ \E q \in Requests : enter(c, q)
          \/ prepareAndReserve(c)
          \/ blockGovernedRunForProgressDecision(c)
          \/ releaseUndispatched(c)
          \/ checkClaim(c)
          \/ markEconomicRequestStarted(c)
          \/ getEconomicReservation(c)
          \/ resolveStartedRequest(c)
          \/ dispatchGovernedRequest(c)
          \/ markEconomicResponsePersisted(c)
          \/ settleMaximum(c)
          \/ settleMetered(c)
          \/ abandon(c)

Spec == Init /\ [][Next]_vars

-----------------------------------------------------------------------------
(* Properties *)

\* The variables have their types, and no ordinal exceeds the ceiling.
TypeOK ==
    /\ reserved \in Int
    /\ settled \in Int
    /\ state \in [Requests -> States]
    /\ ordinal \in [Requests -> 0 .. MaximumRequests]
    /\ response \in [Requests -> BOOLEAN]
    /\ charged \in [Requests -> Nat]
    /\ sent \in [Requests -> Nat]
    /\ blocked \in [Runs -> BOOLEAN]
    /\ claim \in [Runs -> Nat]
    /\ lease \in [Runs -> Standing!Standings]
    /\ pc \in [Callers -> Phases]
    /\ call \in [Callers -> Calls]
    /\ \A c \in Callers : pc[c] = "idle" \/ call[c].request \in Requests

\* The account is the sum of its reservations: what is open is reserved at its
\* maximum and what is settled is charged once, whoever settled it.
AccountBalances ==
    /\ reserved = SumFunction([q \in Requests |-> IF state[q] \in OpenStates THEN Maximum(q) ELSE 0])
    /\ settled = SumFunction(charged)

\* The authorized amount is never exceeded, so the CHECK
\* ticket_economic_accounts_within_authority never fails a transaction.
WithinAuthority == reserved + settled <= Authorized

\* A logical request is handed to the transport at most once, over duplicates,
\* stale executors, reclaims and crashes (the one-winner start).
SentAtMostOnce == \A q \in Requests : sent[q] <= 1

\* Money for a request that was handed over is never given back: it is still
\* reserved or settled, and without a response it is settled at the maximum.
SentIsAccounted ==
    \A q \in Requests : sent[q] > 0 =>
        \/ state[q] \in {"request_started", "response_persisted"}
        \/ state[q] = "settled" /\ (response[q] \/ charged[q] = Maximum(q))

\* A run hands over no more requests than it is authorized to, and the ordinals
\* of its requests are distinct, also after a release.
RequestsWithinAuthority ==
    /\ \A r \in Runs : SumFunctionOnSet(sent, {q \in Requests : RunOf[q] = r}) <= MaximumRequests
    /\ \A q, s \in Requests :
          q # s /\ RunOf[q] = RunOf[s] /\ ordinal[q] = ordinal[s] => ordinal[q] = 0

\* What the calls do to the ledger together is what RequestLedger says of each
\* request alone: duplicates, lost starts, stale claims, crashes and conservative
\* settlements add nothing to it, and the account's two counters decide as the
\* ledger would.
Ledger == INSTANCE RequestLedger WITH
    phase    <- state,
    answered <- response,
    paid     <- charged,
    out      <- sent
ImplementsLedger == Ledger!Spec
=============================================================================
