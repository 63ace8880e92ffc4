---------------------------- MODULE RequestLedger ----------------------------
(***************************************************************************)
(* What the account of a ticket promises about provider requests.          *)
(*                                                                         *)
(* A request of a run is reserved when what is committed already leaves    *)
(* room for its maximum, and when the run has not spent its number of      *)
(* reservations, the released ones included.  It goes out once, after its  *)
(* start, and is paid once: what was metered when its answer is on record, *)
(* and its maximum otherwise.  A request that is paid before it goes out   *)
(* has been paid in full.                                                  *)
(*                                                                         *)
(* The module says nothing of calls, claims, leases, ordinals or the       *)
(* counters of the account: GovernedRequests implements it with those.     *)
(***************************************************************************)
EXTENDS Integers, FiniteSets, Functions

CONSTANTS Runs, Requests, RunOf, Liability, MaximumRequests, Authorized

VARIABLES
    phase,     \* how far each request has come
    answered,  \* its answer is on record
    paid,      \* what it was charged
    out        \* how often it was handed to the transport

ledgerVars == <<phase, answered, paid, out>>

Bound(q)     == Liability[RunOf[q]]
Spent(r)     == {q \in Requests : RunOf[q] = r /\ phase[q] # "absent"}
Committed(q) == IF phase[q] \in {"reserved", "request_started", "response_persisted"}
                THEN Bound(q) ELSE paid[q]

Init ==
    /\ phase = [q \in Requests |-> "absent"]
    /\ answered = [q \in Requests |-> FALSE]
    /\ paid = [q \in Requests |-> 0]
    /\ out = [q \in Requests |-> 0]

Reserve(q) ==
    /\ phase[q] = "absent"
    /\ Cardinality(Spent(RunOf[q])) < MaximumRequests
    /\ SumFunction([s \in Requests |-> Committed(s)]) + Bound(q) <= Authorized
    /\ phase' = [phase EXCEPT ![q] = "reserved"]
    /\ UNCHANGED <<answered, paid, out>>

Release(q) ==
    /\ phase[q] = "reserved"
    /\ phase' = [phase EXCEPT ![q] = "released"]
    /\ UNCHANGED <<answered, paid, out>>

Start(q) ==
    /\ phase[q] = "reserved"
    /\ phase' = [phase EXCEPT ![q] = "request_started"]
    /\ UNCHANGED <<answered, paid, out>>

Send(q) ==
    /\ out[q] = 0
    /\ \/ phase[q] = "request_started"
       \/ phase[q] = "settled" /\ paid[q] = Bound(q)
    /\ out' = [out EXCEPT ![q] = 1]
    /\ UNCHANGED <<phase, answered, paid>>

Answer(q) ==
    /\ phase[q] = "request_started"
    /\ out[q] = 1
    /\ phase' = [phase EXCEPT ![q] = "response_persisted"]
    /\ answered' = [answered EXCEPT ![q] = TRUE]
    /\ UNCHANGED <<paid, out>>

Pay(q, amount) ==
    /\ phase[q] \in {"request_started", "response_persisted"}
    /\ amount = Bound(q) \/ answered[q]
    /\ phase' = [phase EXCEPT ![q] = "settled"]
    /\ paid' = [paid EXCEPT ![q] = amount]
    /\ UNCHANGED <<answered, out>>

Next ==
    \E q \in Requests :
        \/ Reserve(q)
        \/ Release(q)
        \/ Start(q)
        \/ Send(q)
        \/ Answer(q)
        \/ \E amount \in 0 .. Bound(q) : Pay(q, amount)

Spec == Init /\ [][Next]_ledgerVars
=============================================================================
