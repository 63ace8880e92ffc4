----------------------- MODULE GovernedRequestsProofs -----------------------
(***************************************************************************)
(* Proofs about GovernedRequests: a request is handed over at most once,   *)
(* its money is never given back, the account is the sum of its ledger and *)
(* within what was authorized, and no run hands over more requests than it *)
(* may, for any number of runs, requests, calls and claims.                *)
(***************************************************************************)
EXTENDS GovernedRequests, FiniteSetTheorems, WellFoundedInduction, TLAPS

-----------------------------------------------------------------------------
(* Sums and maxima *)

\* The element that a sum over s takes first.
Pick(s) == CHOOSE x \in s : TRUE

\* g gives every part of S the sum of f over it.
IsTotal(f, S, g) ==
    g = [s \in SUBSET S |-> IF s = {} THEN 0 ELSE f[Pick(s)] + g[s \ {Pick(s)}]]

\* The same, as facts, for a sum of integers.
SumsOf(f, S, g) ==
    /\ g \in [SUBSET S -> Int]
    /\ SumFunctionOnSet(f, S) = g[S]
    /\ g[{}] = 0
    /\ \A s \in SUBSET S : s # {} => g[s] = f[Pick(s)] + g[s \ {Pick(s)}]

\* Every set of natural numbers that is not empty has a least element.
LEMMA LeastNatural ==
    ASSUME NEW T \in SUBSET Nat, T # {}
    PROVE  \E n \in T : \A m \in T : n <= m
<1> DEFINE R == {pair \in Nat \X Nat : pair[1] < pair[2]}
<1>1. IsWellFoundedOn(R, Nat)
  BY NatLessThanWellFounded DEF OpToRel, IsWellFoundedOn
<1>2. \E x \in T : \A y \in T : ~ (<<y, x>> \in R)
  <2> HIDE DEF R
  <2> QED BY <1>1, WFMin, Zenon
<1>3. PICK n \in T : \A y \in T : ~ (<<y, n>> \in R)
  BY <1>2
<1>4. \A m \in T : n <= m
  <2> TAKE m \in T
  <2>1. n \in Nat /\ m \in Nat /\ <<m, n>> \in Nat \X Nat /\ <<m, n>>[1] = m /\ <<m, n>>[2] = n
    OBVIOUS
  <2>2. ~(m < n)
    BY <1>3, <2>1
  <2> QED BY <2>1, <2>2
<1> QED
  BY <1>4

\* Taking the first element away.
LEMMA PickFacts ==
    ASSUME NEW S, IsFiniteSet(S), NEW s \in SUBSET S
    PROVE  /\ IsFiniteSet(s) /\ Cardinality(s) \in Nat
           /\ Cardinality(s) = 0 <=> s = {}
           /\ s # {} => /\ Pick(s) \in s
                        /\ s \ {Pick(s)} \in SUBSET S
                        /\ Cardinality(s \ {Pick(s)}) = Cardinality(s) - 1
<1>1. IsFiniteSet(s)
  BY FS_Subset
<1>2. Cardinality(s) \in Nat /\ (Cardinality(s) = 0 <=> s = {})
  BY <1>1, FS_CardinalityType, FS_EmptySet
<1>3. ASSUME s # {} PROVE Pick(s) \in s
  BY <1>3 DEF Pick
<1>4. ASSUME s # {} PROVE Cardinality(s \ {Pick(s)}) = Cardinality(s) - 1
  BY <1>1, <1>3, <1>4, FS_RemoveElement
<1> QED
  BY <1>1, <1>2, <1>3, <1>4

\* Induction over the parts of a finite set, along Pick.
LEMMA PartInduction ==
    ASSUME NEW S, IsFiniteSet(S), NEW Good, {} \in Good,
           \A s \in SUBSET S : s # {} /\ s \ {Pick(s)} \in Good => s \in Good
    PROVE  \A s \in SUBSET S : s \in Good
<1> DEFINE Bad == {n \in Nat : \E s \in SUBSET S : s \notin Good /\ Cardinality(s) = n}
<1>1. SUFFICES ASSUME NEW t \in SUBSET S, t \notin Good PROVE FALSE
  OBVIOUS
<1>2. Cardinality(t) \in Bad
  BY <1>1, PickFacts
<1>3. PICK n \in Bad : \A m \in Bad : n <= m
  <2> HIDE DEF Bad
  <2>1. Bad # {} BY <1>2
  <2>2. Bad \in SUBSET Nat BY DEF Bad
  <2> QED BY <2>1, <2>2, LeastNatural
<1>4. PICK s \in SUBSET S : s \notin Good /\ Cardinality(s) = n
  OBVIOUS
<1>5. s # {}
  BY <1>4
<1>6. s \ {Pick(s)} \in SUBSET S /\ Cardinality(s \ {Pick(s)}) = n - 1 /\ n - 1 \in Nat
  <2>1. Cardinality(s \ {Pick(s)}) \in Nat
    BY <1>5, PickFacts
  <2> QED BY <1>4, <1>5, <2>1, PickFacts
<1>7. s \ {Pick(s)} \notin Good
  BY <1>4, <1>5
<1>8. n - 1 \in Bad
  BY <1>6, <1>7
<1> QED
  BY <1>3, <1>6, <1>8

\* The recursion that defines a sum over a finite set has a solution.
LEMMA TotalExists ==
    ASSUME NEW S, IsFiniteSet(S), NEW f, \A x \in S : f[x] \in Int
    PROVE  \E g \in [SUBSET S -> Int] : IsTotal(f, S, g)
<1> DEFINE Small(n) == {s \in SUBSET S : Cardinality(s) <= n}
           Value(g, s) == IF s = {} THEN 0 ELSE f[Pick(s)] + g[s \ {Pick(s)}]
           Part(n) == \E g \in [Small(n) -> Int] : \A s \in Small(n) : g[s] = Value(g, s)
           Bad == {n \in Nat : ~ Part(n)}
<1>1. Part(0)
  <2> DEFINE g == [s \in Small(0) |-> 0]
  <2>1. g \in [Small(0) -> Int]
    OBVIOUS
  <2>2. \A s \in Small(0) : s = {}
    <3> TAKE s \in Small(0)
    <3>1. s \in SUBSET S /\ Cardinality(s) <= 0
      OBVIOUS
    <3>2. Cardinality(s) \in Nat /\ (Cardinality(s) = 0 <=> s = {})
      BY <3>1, PickFacts
    <3> QED BY <3>1, <3>2
  <2>3. \A s \in Small(0) : g[s] = Value(g, s)
    BY <2>2
  <2> QED BY <2>1, <2>3
<1>2. ASSUME NEW n \in Nat, n # 0, Part(n - 1) PROVE Part(n)
  <2>1. PICK g \in [Small(n - 1) -> Int] : \A s \in Small(n - 1) : g[s] = Value(g, s)
    BY <1>2
  <2> DEFINE h == [s \in Small(n) |-> Value(g, s)]
  <2>2. ASSUME NEW s \in Small(n), s # {}
        PROVE  s \ {Pick(s)} \in Small(n - 1) /\ Pick(s) \in S
    <3>1. s \in SUBSET S /\ Cardinality(s) <= n
      OBVIOUS
    <3> QED BY <2>2, <3>1, PickFacts
  <2>3. \A s \in Small(n) : Value(g, s) \in Int
    <3> TAKE s \in Small(n)
    <3>1. CASE s = {} BY <3>1
    <3>2. CASE s # {}
      <4>1. f[Pick(s)] \in Int /\ g[s \ {Pick(s)}] \in Int
        <5> HIDE DEF Small
        <5> QED BY <2>2, <3>2, <2>1
      <4> QED BY <3>2, <4>1
    <3> QED BY <3>1, <3>2
  <2>4. h \in [Small(n) -> Int]
    <3> HIDE DEF Small, Value
    <3> QED BY <2>3
  <2>5. \A s \in Small(n - 1) : s \in Small(n) /\ h[s] = g[s]
    <3>1. \A s \in Small(n - 1) : s \in Small(n)
      <4> TAKE s \in Small(n - 1)
      <4>1. s \in SUBSET S /\ Cardinality(s) <= n - 1 /\ Cardinality(s) \in Nat
        BY PickFacts
      <4> QED BY <4>1
    <3> HIDE DEF Small, Value
    <3> QED BY <2>1, <3>1
  <2>6. \A s \in Small(n) : h[s] = Value(h, s)
    <3> TAKE s \in Small(n)
    <3>1. h[s] = Value(g, s)
      BY DEF h
    <3>2. s # {} => h[s \ {Pick(s)}] = g[s \ {Pick(s)}]
      <4> HIDE DEF h, Small, Value
      <4> QED BY <2>2, <2>5
    <3> HIDE DEF h, Small
    <3> QED BY <3>1, <3>2
  <2> HIDE DEF h, Small, Value
  <2> QED BY <2>4, <2>6
<1>3. \A n \in Nat : Part(n)
  <2>1. SUFFICES ASSUME Bad # {} PROVE FALSE
    OBVIOUS
  <2>2. PICK n \in Bad : \A m \in Bad : n <= m
    <3>1. Bad \in SUBSET Nat OBVIOUS
    <3> HIDE DEF Bad
    <3> QED BY <2>1, <3>1, LeastNatural
  <2>3. n \in Nat /\ ~ Part(n)
    OBVIOUS
  <2> HIDE DEF Part
  <2>4. n # 0
    BY <1>1, <2>3
  <2>5. n - 1 \notin Bad /\ n - 1 \in Nat
    BY <2>2, <2>3, <2>4
  <2> QED BY <1>2, <2>3, <2>4, <2>5
<1>4. Cardinality(S) \in Nat /\ Small(Cardinality(S)) = SUBSET S
  BY FS_CardinalityType, FS_Subset
<1>5. PICK g \in [SUBSET S -> Int] : \A s \in SUBSET S : g[s] = Value(g, s)
  <2> HIDE DEF Small, Value
  <2> QED BY <1>3, <1>4
<1>6. IsTotal(f, S, g)
  BY <1>5, Zenon DEF IsTotal
<1> QED
  BY <1>6

\* And only one.
LEMMA TotalUnique ==
    ASSUME NEW S, IsFiniteSet(S), NEW f, NEW g, NEW h, IsTotal(f, S, g), IsTotal(f, S, h)
    PROVE  g = h
<1> DEFINE Good == {s \in SUBSET S : g[s] = h[s]}
<1>1. /\ \A s \in SUBSET S : g[s] = IF s = {} THEN 0 ELSE f[Pick(s)] + g[s \ {Pick(s)}]
      /\ \A s \in SUBSET S : h[s] = IF s = {} THEN 0 ELSE f[Pick(s)] + h[s \ {Pick(s)}]
  BY Zenon DEF IsTotal
<1>2. {} \in Good
  BY <1>1
<1>3. \A s \in SUBSET S : s # {} /\ s \ {Pick(s)} \in Good => s \in Good
  BY <1>1
<1>4. \A s \in SUBSET S : s \in Good
  <2> HIDE DEF Good
  <2> QED BY <1>2, <1>3, PartInduction
<1>5. \E G, H : g = [s \in SUBSET S |-> G[s]] /\ h = [s \in SUBSET S |-> H[s]]
  <2>1. g = [s \in SUBSET S |-> g[s]] /\ h = [s \in SUBSET S |-> h[s]]
    BY Zenon DEF IsTotal
  <2> QED BY <2>1
<1> QED
  BY <1>4, <1>5

\* A sum over a finite set is the value of that recursion.
LEMMA SumIsTotal ==
    ASSUME NEW S, IsFiniteSet(S), NEW f, \A x \in S : f[x] \in Int
    PROVE  \E g : SumsOf(f, S, g)
<1>1. PICK g \in [SUBSET S -> Int] : IsTotal(f, S, g)
  BY TotalExists
<1>2. \E h : IsTotal(f, S, h) /\ SumFunctionOnSet(f, S) = h[S]
  BY <1>1, Zenon DEF IsTotal, SumFunctionOnSet, FoldFunctionOnSet, MapThenFoldSet, Pick
<1>3. SumFunctionOnSet(f, S) = g[S]
  BY <1>1, <1>2, TotalUnique
<1>4. \A s \in SUBSET S : g[s] = IF s = {} THEN 0 ELSE f[Pick(s)] + g[s \ {Pick(s)}]
  BY <1>1, Zenon DEF IsTotal
<1>5. g[{}] = 0
  BY <1>4
<1>6. SumsOf(f, S, g)
  BY <1>1, <1>3, <1>4, <1>5 DEF SumsOf
<1> QED
  BY <1>6
\* A sum of integers is an integer.
LEMMA SumType ==
    ASSUME NEW S, IsFiniteSet(S), NEW f, \A x \in S : f[x] \in Int
    PROVE  SumFunctionOnSet(f, S) \in Int
<1>1. PICK g : SumsOf(f, S, g)
  BY SumIsTotal
<1> QED
  BY <1>1 DEF SumsOf

\* A sum changes by what its only changed summand changes by.
LEMMA SumChange ==
    ASSUME NEW S, IsFiniteSet(S), NEW q \in S,
           NEW f, \A x \in S : f[x] \in Int,
           NEW h, \A x \in S : h[x] \in Int,
           \A x \in S : x # q => h[x] = f[x]
    PROVE  SumFunctionOnSet(h, S) = SumFunctionOnSet(f, S) + h[q] - f[q]
<1>1. PICK F : SumsOf(f, S, F)
  BY SumIsTotal
<1>2. PICK H : SumsOf(h, S, H)
  BY SumIsTotal
<1> DEFINE Good == {s \in SUBSET S : H[s] = F[s] + IF q \in s THEN h[q] - f[q] ELSE 0}
<1>3. {} \in Good
  BY <1>1, <1>2 DEF SumsOf
<1>4. ASSUME NEW s \in SUBSET S, s # {}, s \ {Pick(s)} \in Good
      PROVE  s \in Good
  <2> DEFINE t == s \ {Pick(s)}
  <2>1. Pick(s) \in s /\ Pick(s) \in S /\ t \in SUBSET S
    BY <1>4, PickFacts
  <2>2. F[s] = f[Pick(s)] + F[t] /\ H[s] = h[Pick(s)] + H[t]
    BY <1>1, <1>2, <1>4 DEF SumsOf
  <2>3. /\ f[Pick(s)] \in Int /\ h[Pick(s)] \in Int /\ f[q] \in Int /\ h[q] \in Int
        /\ F[s] \in Int /\ F[t] \in Int /\ H[s] \in Int /\ H[t] \in Int
    BY <1>1, <1>2, <2>1 DEF SumsOf
  <2>4. H[t] = F[t] + IF q \in t THEN h[q] - f[q] ELSE 0
    BY <1>4
  <2>5. CASE Pick(s) = q
    <3>1. q \in s /\ q \notin t
      BY <2>1, <2>5
    <3> HIDE DEF t
    <3>2. H[s] = F[s] + (h[q] - f[q])
      BY <2>2, <2>3, <2>4, <2>5, <3>1
    <3> QED BY <3>1, <3>2
  <2>6. CASE Pick(s) # q
    <3>1. q \in s <=> q \in t
      BY <2>6
    <3>2. h[Pick(s)] = f[Pick(s)]
      BY <2>1, <2>6
    <3> HIDE DEF t
    <3>3. H[s] = F[s] + IF q \in s THEN h[q] - f[q] ELSE 0
      BY <2>2, <2>3, <2>4, <3>1, <3>2
    <3> QED BY <3>3
  <2> QED BY <2>5, <2>6
<1>5. S \in Good
  <2> HIDE DEF Good
  <2> QED BY <1>3, <1>4, PartInduction
<1>6. H[S] = F[S] + (h[q] - f[q]) /\ H[S] \in Int /\ F[S] \in Int /\ h[q] \in Int /\ f[q] \in Int
  BY <1>1, <1>2, <1>5 DEF SumsOf
<1> QED
  BY <1>1, <1>2, <1>6 DEF SumsOf

\* The sum of a function with the values 0 and 1 counts the ones.
LEMMA SumCounts ==
    ASSUME NEW S, IsFiniteSet(S), NEW f, \A x \in S : f[x] \in {0, 1}
    PROVE  SumFunctionOnSet(f, S) = Cardinality({x \in S : f[x] = 1})
<1> DEFINE Ones(s) == {x \in s : f[x] = 1}
<1>1. PICK F : SumsOf(f, S, F)
  <2>1. \A x \in S : f[x] \in Int
    OBVIOUS
  <2> QED BY <2>1, SumIsTotal
<1> DEFINE Good == {s \in SUBSET S : F[s] = Cardinality(Ones(s))}
<1>2. {} \in Good
  <2>1. Ones({}) = {}
    OBVIOUS
  <2> QED BY <1>1, <2>1, FS_EmptySet DEF SumsOf
<1>3. ASSUME NEW s \in SUBSET S, s # {}, s \ {Pick(s)} \in Good
      PROVE  s \in Good
  <2> DEFINE t == s \ {Pick(s)}
  <2>1. Pick(s) \in s /\ Pick(s) \in S /\ t \in SUBSET S /\ IsFiniteSet(t)
    <3>1. Pick(s) \in s /\ t \in SUBSET S
      BY <1>3, PickFacts
    <3>2. IsFiniteSet(t)
      BY <3>1, FS_Subset
    <3> QED BY <3>1, <3>2
  <2>2. F[s] = f[Pick(s)] + F[t]
    BY <1>1, <1>3 DEF SumsOf
  <2>3. F[t] = Cardinality(Ones(t))
    BY <1>3
  <2>4. IsFiniteSet(Ones(t)) /\ Cardinality(Ones(t)) \in Nat
    <3>1. Ones(t) \subseteq t
      OBVIOUS
    <3>2. IsFiniteSet(Ones(t))
      BY <2>1, <3>1, FS_Subset
    <3> QED BY <3>2, FS_CardinalityType
  <2>5. CASE f[Pick(s)] = 0
    <3>1. Ones(s) = Ones(t)
      BY <2>1, <2>5
    <3>2. F[s] = Cardinality(Ones(s))
      <4> HIDE DEF Ones, t
      <4> QED BY <2>2, <2>3, <2>4, <2>5, <3>1
    <3> QED BY <3>2
  <2>6. CASE f[Pick(s)] = 1
    <3>1. Ones(s) = Ones(t) \cup {Pick(s)} /\ Pick(s) \notin Ones(t)
      BY <2>1, <2>6
    <3>2. Cardinality(Ones(s)) = Cardinality(Ones(t)) + 1
      <4> HIDE DEF Ones
      <4> QED BY <2>4, <3>1, FS_AddElement
    <3>3. F[s] = Cardinality(Ones(s))
      <4> HIDE DEF Ones, t
      <4> QED BY <2>2, <2>3, <2>4, <2>6, <3>2
    <3> QED BY <3>3
  <2> QED BY <2>1, <2>5, <2>6
<1>4. S \in Good
  <2> HIDE DEF Good
  <2> QED BY <1>2, <1>3, PartInduction
<1> QED
  BY <1>1, <1>4 DEF SumsOf

\* A set of natural numbers with a bound has its maximum.
LEMMA MaxFacts ==
    ASSUME NEW N \in Nat, NEW T \in SUBSET (0 .. N), T # {}
    PROVE  Max(T) \in T /\ \A x \in T : x <= Max(T)
<1> DEFINE Rest == {N - x : x \in T}
<1>1. Rest \in SUBSET Nat /\ Rest # {}
  <2>1. \A x \in T : N - x \in Nat
    OBVIOUS
  <2> QED BY <2>1
<1>2. PICK n \in Rest : \A m \in Rest : n <= m
  <2> HIDE DEF Rest
  <2> QED BY <1>1, LeastNatural
<1>3. PICK x \in T : n = N - x
  OBVIOUS
<1>4. \A y \in T : x >= y
  <2> TAKE y \in T
  <2>1. N - y \in Rest
    OBVIOUS
  <2>2. N - x <= N - y
    BY <1>2, <1>3, <2>1
  <2> QED BY <2>2
<1>5. Max(T) \in T /\ \A y \in T : Max(T) >= y
  BY <1>4, Zenon DEF Max
<1>6. \A y \in T : y \in Int
  OBVIOUS
<1> QED
  BY <1>5, <1>6

-----------------------------------------------------------------------------
(* Values *)

\* The types the arguments about dispatch rest on.
Types ==
    /\ reserved \in Int
    /\ settled \in Int
    /\ state \in [Requests -> States]
    /\ response \in [Requests -> BOOLEAN]
    /\ charged \in [Requests -> Nat]
    /\ sent \in [Requests -> Nat]
    /\ claim \in [Runs -> Nat]
    /\ pc \in [Callers -> Phases]
    /\ call \in [Callers -> Calls]
    /\ \A c \in Callers : pc[c] = "idle" \/ call[c].request \in Requests

\* The maximum liability of a request is a natural number.
LEMMA MaximumType == \A q \in Requests : Maximum(q) \in Nat
  BY ConstantsAssumption DEF Maximum

\* The empty call is a call.
LEMMA NoCallType == NoCall \in Calls
  BY DEF NoCall, Calls

\* Moving to a phase, or returning, keeps the types of the calls.
LEMMA GotoType ==
  ASSUME Types, NEW c \in Callers, NEW phase \in Phases, pc[c] # "idle", Goto(c, phase)
  PROVE  /\ pc' \in [Callers -> Phases]
         /\ call' \in [Callers -> Calls]
         /\ \A d \in Callers : pc'[d] = "idle" \/ call'[d].request \in Requests
  BY DEF Types, Goto

LEMMA ReturnType ==
  ASSUME Types, NEW c \in Callers, Return(c)
  PROVE  /\ pc' \in [Callers -> Phases]
         /\ call' \in [Callers -> Calls]
         /\ \A d \in Callers : pc'[d] = "idle" \/ call'[d].request \in Requests
  BY NoCallType DEF Types, Return, Phases

-----------------------------------------------------------------------------
(* The kinds of steps *)

\* No call becomes an owner or moves on as one.
OwnersShrink ==
    \A c \in Callers : pc'[c] \in OwnerPhases => pc'[c] = pc[c] /\ call'[c] = call[c]

\* Nothing durable changes.
Quiet == UNCHANGED <<reserved, settled, state, response, charged, sent>> /\ OwnersShrink

\* A request is reserved within the authorized amount.
Reserving(q) ==
    /\ state[q] = "absent"
    /\ FundsAvailable(q)
    /\ state' = [state EXCEPT ![q] = "reserved"]
    /\ reserved' = reserved + Maximum(q)
    /\ UNCHANGED <<settled, response, charged, sent>>
    /\ OwnersShrink

\* A request that was never started is released.
Releasing(q) ==
    /\ state[q] = "reserved"
    /\ state' = [state EXCEPT ![q] = "released"]
    /\ reserved' = reserved - Maximum(q)
    /\ UNCHANGED <<settled, response, charged, sent>>
    /\ OwnersShrink

\* Call c wins the start of its request.
Starting(c) ==
    /\ call[c].request \in Requests
    /\ state[call[c].request] = "reserved"
    /\ state' = [state EXCEPT ![call[c].request] = "request_started"]
    /\ pc' = [pc EXCEPT ![c] = "won"]
    /\ UNCHANGED <<call, reserved, settled, response, charged, sent>>

\* The owner c hands the bytes over.
Dispatching(c) ==
    /\ call[c].request \in Requests
    /\ pc[c] = "won"
    /\ sent' = [sent EXCEPT ![call[c].request] = @ + 1]
    /\ \E p \in {"received", "unconfirmed"} : pc' = [pc EXCEPT ![c] = p]
    /\ UNCHANGED <<call, reserved, settled, state, response, charged>>

\* The owner c persists the response.
Answering(c) ==
    /\ call[c].request \in Requests
    /\ pc[c] = "received"
    /\ state[call[c].request] = "request_started"
    /\ state' = [state EXCEPT ![call[c].request] = "response_persisted"]
    /\ response' = [response EXCEPT ![call[c].request] = TRUE]
    /\ pc' = [pc EXCEPT ![c] = "settling"]
    /\ UNCHANGED <<call, reserved, settled, charged, sent>>

\* A started request is settled: at its maximum or, by its owner, as metered.
Settling(c) ==
    /\ call[c].request \in Requests
    /\ state[call[c].request] \in {"request_started", "response_persisted"}
    /\ \E amount \in 0 .. Maximum(call[c].request) :
          /\ amount = Maximum(call[c].request) \/ pc[c] = "settling"
          /\ Settle(call[c].request, amount)
    /\ UNCHANGED <<response, sent>>
    /\ OwnersShrink

\* Every step is of one of these kinds.
LEMMA StepCases ==
  ASSUME Types, [Next]_vars
  PROVE  \/ Quiet
         \/ \E q \in Requests : Reserving(q) \/ Releasing(q)
         \/ \E c \in Callers : Starting(c) \/ Dispatching(c) \/ Answering(c) \/ Settling(c)
<1> USE DEF Types, OwnersShrink, OwnerPhases, Goto, Return, RequestOf,
            accountVars, rowVars, runVars, callVars
<1>1. CASE UNCHANGED vars \/ allSettled
  BY <1>1 DEF allSettled, vars, Quiet
<1>2. ASSUME NEW r \in Runs, claimPendingRun(r) \/ leaseStep(r)
      PROVE  Quiet
  BY <1>2 DEF claimPendingRun, leaseStep, Quiet
<1>3. ASSUME NEW c \in Callers, NEW q \in Requests, enter(c, q)
      PROVE  Quiet
  BY <1>3 DEF enter, Quiet
<1>4. ASSUME NEW c \in Callers, prepareAndReserve(c)
      PROVE  Quiet \/ \E q \in Requests : Reserving(q)
  <2> DEFINE q == call[c].request
  <2>0. q \in Requests
    BY <1>4 DEF prepareAndReserve
  <2>1. CASE Reservable(q) /\ Reserve(q) /\ Goto(c, "prepared") /\ UNCHANGED sent
    BY <2>0, <2>1 DEF Reservable, Reserve, Reserving
  <2>2. CASE ContinueFrom(c, state[q]) /\ UNCHANGED <<accountVars, rowVars, sent>>
    BY <2>0, <2>2 DEF ContinueFrom, Quiet
  <2>3. CASE Return(c) /\ UNCHANGED <<accountVars, rowVars, sent>>
    BY <2>0, <2>3 DEF Quiet
  <2> QED
    BY <1>4, <2>1, <2>2, <2>3 DEF prepareAndReserve
<1>5. ASSUME NEW c \in Callers,
             blockGovernedRunForProgressDecision(c) \/ checkClaim(c)
               \/ getEconomicReservation(c) \/ resolveStartedRequest(c) \/ abandon(c)
      PROVE  Quiet
  BY <1>5 DEF blockGovernedRunForProgressDecision, checkClaim, getEconomicReservation,
              resolveStartedRequest, abandon, Quiet
<1>6. ASSUME NEW c \in Callers, releaseUndispatched(c)
      PROVE  Quiet \/ \E q \in Requests : Releasing(q)
  <2> DEFINE q == call[c].request
  <2>0. q \in Requests
    BY <1>6 DEF releaseUndispatched
  <2>1. CASE Releasable(q)
    BY <1>6, <2>0, <2>1 DEF releaseUndispatched, Releasable, Releasing
  <2>2. CASE ~Releasable(q)
    BY <1>6, <2>0, <2>2 DEF releaseUndispatched, Quiet
  <2> QED
    BY <2>1, <2>2
<1>7. ASSUME NEW c \in Callers, markEconomicRequestStarted(c)
      PROVE  Quiet \/ Starting(c)
  BY <1>7 DEF markEconomicRequestStarted, Startable, Starting, Quiet
<1>8. ASSUME NEW c \in Callers, dispatchGovernedRequest(c)
      PROVE  Dispatching(c)
  BY <1>8 DEF dispatchGovernedRequest, Dispatching
<1>9. ASSUME NEW c \in Callers, markEconomicResponsePersisted(c)
      PROVE  Quiet \/ Answering(c)
  BY <1>9 DEF markEconomicResponsePersisted, Answering, Quiet
<1>10. ASSUME NEW c \in Callers, settleMaximum(c)
       PROVE  Quiet \/ Settling(c)
  <2> DEFINE q == call[c].request
  <2>0. q \in Requests /\ Maximum(q) \in 0 .. Maximum(q)
    BY <1>10, MaximumType DEF settleMaximum
  <2>1. CASE Settleable(q)
    BY <1>10, <2>0, <2>1 DEF settleMaximum, Settleable, Settling
  <2>2. CASE ~Settleable(q)
    BY <1>10, <2>0, <2>2 DEF settleMaximum, Quiet
  <2> QED
    BY <2>1, <2>2
<1>11. ASSUME NEW c \in Callers, settleMetered(c)
       PROVE  Quiet \/ Settling(c)
  <2> DEFINE q == call[c].request
  <2>0. q \in Requests
    BY <1>11 DEF settleMetered
  <2>1. ASSUME Settleable(q), NEW amount \in 0 .. Maximum(q), Settle(q, amount)
        PROVE  Settling(c)
    BY <1>11, <2>0, <2>1 DEF settleMetered, Settleable, Settling
  <2>2. CASE UNCHANGED <<accountVars, state, charged>>
    BY <1>11, <2>0, <2>2 DEF settleMetered, Quiet
  <2> QED
    BY <1>11, <2>1, <2>2 DEF settleMetered
<1> QED
  BY <1>1, <1>2, <1>3, <1>4, <1>5, <1>6, <1>7, <1>8, <1>9, <1>10, <1>11 DEF Next

-----------------------------------------------------------------------------
(* Types *)

\* The calls keep their types.
LEMMA CallsStep ==
  ASSUME Types, [Next]_vars
  PROVE  /\ claim' \in [Runs -> Nat]
         /\ pc' \in [Callers -> Phases]
         /\ call' \in [Callers -> Calls]
         /\ \A d \in Callers : pc'[d] = "idle" \/ call'[d].request \in Requests
<1> DEFINE Goal == /\ claim' \in [Runs -> Nat]
                   /\ pc' \in [Callers -> Phases]
                   /\ call' \in [Callers -> Calls]
                   /\ \A d \in Callers : pc'[d] = "idle" \/ call'[d].request \in Requests
<1> USE DEF accountVars, rowVars, runVars, callVars
<1>1. CASE UNCHANGED vars \/ allSettled
  BY <1>1 DEF allSettled, vars, Types
<1>2. ASSUME NEW r \in Runs, claimPendingRun(r) \/ leaseStep(r)
      PROVE  Goal
  BY <1>2 DEF claimPendingRun, leaseStep, Types
<1>3. ASSUME NEW c \in Callers, NEW q \in Requests, enter(c, q)
      PROVE  Goal
  <2>1. [request |-> q, claim |-> claim[RunOf[q]], lost |-> FALSE] \in Calls
    BY ConstantsAssumption DEF Types, Calls
  <2>2. "entered" \in Phases
    BY DEF Phases
  <2> QED
    BY <1>3, <2>1, <2>2 DEF enter, Types
<1>4. ASSUME NEW c \in Callers, pc[c] # "idle", UNCHANGED claim,
             Return(c) \/ \E phase \in Phases : Goto(c, phase)
      PROVE  Goal
  BY <1>4, GotoType, ReturnType DEF Types
<1>5. ASSUME NEW c \in Callers, getEconomicReservation(c)
      PROVE  Goal
  <2> DEFINE new == [call[c] EXCEPT !.lost = TRUE]
  <2>1. new \in Calls /\ new.request = call[c].request
    BY DEF Types, Calls
  <2>2. call' = [call EXCEPT ![c] = new]
    BY <1>5 DEF getEconomicReservation
  <2> HIDE DEF new
  <2>3. call' \in [Callers -> Calls]
    BY <2>1, <2>2 DEF Types
  <2>4. pc' \in [Callers -> Phases]
    BY <1>5 DEF getEconomicReservation, Types, Phases
  <2>5. ASSUME NEW d \in Callers
        PROVE  pc'[d] = "idle" \/ call'[d].request \in Requests
    <3>1. CASE d = c
      BY <1>5, <2>1, <2>2, <3>1 DEF getEconomicReservation, Types
    <3>2. CASE d # c
      BY <1>5, <2>2, <3>2 DEF getEconomicReservation, Types
    <3> QED
      BY <3>1, <3>2
  <2> QED
    BY <1>5, <2>3, <2>4, <2>5 DEF getEconomicReservation, Types
<1>6. ASSUME NEW c \in Callers,
             \/ prepareAndReserve(c) \/ blockGovernedRunForProgressDecision(c)
             \/ releaseUndispatched(c) \/ checkClaim(c) \/ markEconomicRequestStarted(c)
             \/ resolveStartedRequest(c) \/ dispatchGovernedRequest(c)
             \/ markEconomicResponsePersisted(c) \/ settleMaximum(c)
             \/ settleMetered(c) \/ abandon(c)
      PROVE  Goal
  <2>1. pc[c] # "idle" /\ UNCHANGED claim
    BY <1>6 DEF prepareAndReserve, blockGovernedRunForProgressDecision, releaseUndispatched,
                checkClaim, markEconomicRequestStarted, resolveStartedRequest,
                dispatchGovernedRequest, markEconomicResponsePersisted, settleMaximum,
                settleMetered, abandon
  <2>2. Return(c) \/ \E phase \in Phases : Goto(c, phase)
    BY <1>6 DEF prepareAndReserve, blockGovernedRunForProgressDecision, releaseUndispatched,
                checkClaim, markEconomicRequestStarted, resolveStartedRequest,
                dispatchGovernedRequest, markEconomicResponsePersisted, settleMaximum,
                settleMetered, abandon, ContinueFrom, Phases
  <2> QED
    BY <1>4, <2>1, <2>2
<1> QED
  BY <1>1, <1>2, <1>3, <1>5, <1>6 DEF Next

\* The types are invariant.
LEMMA TypesStep == Types /\ [Next]_vars => Types'
<1> SUFFICES ASSUME Types, [Next]_vars PROVE Types'
  OBVIOUS
<1>1. CASE Quiet
  BY <1>1, CallsStep DEF Quiet, Types
<1>2. ASSUME NEW q \in Requests, Reserving(q) \/ Releasing(q)
      PROVE  Types'
  BY <1>2, CallsStep, MaximumType DEF Reserving, Releasing, Types, States
<1>3. ASSUME NEW c \in Callers, Starting(c) \/ Dispatching(c) \/ Answering(c)
      PROVE  Types'
  <2>1. CASE Starting(c)
    BY <2>1, CallsStep DEF Starting, Types, States
  <2>2. CASE Dispatching(c)
    BY <2>2, CallsStep DEF Dispatching, Types
  <2>3. CASE Answering(c)
    <3>1. response' \in [Requests -> BOOLEAN]
      BY <2>3 DEF Answering, Types
    <3>2. state' \in [Requests -> States]
      BY <2>3 DEF Answering, Types, States
    <3> QED
      BY <2>3, <3>1, <3>2, CallsStep DEF Answering, Types
  <2> QED
    BY <1>3, <2>1, <2>2, <2>3
<1>4. ASSUME NEW c \in Callers, Settling(c)
      PROVE  Types'
  BY <1>4, CallsStep, MaximumType DEF Settling, Settle, Types, States
<1> QED
  BY <1>1, <1>2, <1>3, <1>4, StepCases

\* So are the types of what the arguments leave out.
OtherTypes ==
    /\ blocked \in [Runs -> BOOLEAN]
    /\ lease \in [Runs -> Standing!Standings]

LEMMA OtherTypesStep == OtherTypes /\ [Next]_vars => OtherTypes'
<1> SUFFICES ASSUME OtherTypes, [Next]_vars PROVE OtherTypes'
  OBVIOUS
<1> USE DEF OtherTypes, rowVars, runVars
<1>1. CASE UNCHANGED vars \/ allSettled
  BY <1>1 DEF allSettled, vars
<1>2. ASSUME NEW r \in Runs, claimPendingRun(r) \/ leaseStep(r)
      PROVE  OtherTypes'
  BY <1>2 DEF claimPendingRun, leaseStep, Standing!Move, Standing!Standings
<1>3. ASSUME NEW c \in Callers, prepareAndReserve(c)
      PROVE  OtherTypes'
  BY <1>3 DEF prepareAndReserve
<1>4. ASSUME NEW c \in Callers, blockGovernedRunForProgressDecision(c)
      PROVE  OtherTypes'
  <2>1. blocked' \in [Runs -> BOOLEAN]
    BY <1>4, Zenon DEF blockGovernedRunForProgressDecision
  <2> QED
    BY <1>4, <2>1 DEF blockGovernedRunForProgressDecision
<1>5. ASSUME NEW c \in Callers,
             \/ \E q \in Requests : enter(c, q)
             \/ releaseUndispatched(c) \/ checkClaim(c) \/ markEconomicRequestStarted(c)
             \/ getEconomicReservation(c) \/ resolveStartedRequest(c)
             \/ dispatchGovernedRequest(c) \/ markEconomicResponsePersisted(c)
             \/ settleMaximum(c) \/ settleMetered(c) \/ abandon(c)
      PROVE  UNCHANGED <<blocked, lease>>
  BY <1>5 DEF enter, releaseUndispatched, checkClaim, markEconomicRequestStarted,
              getEconomicReservation, resolveStartedRequest, dispatchGovernedRequest,
              markEconomicResponsePersisted, settleMaximum, settleMetered, abandon
<1> QED
  BY <1>1, <1>2, <1>3, <1>4, <1>5 DEF Next

-----------------------------------------------------------------------------
(* The inductive invariant *)

\* A request has one owner at most, and an owned request has been started.
OneOwner ==
    /\ \A c, d \in Callers : pc[c] \in OwnerPhases /\ pc[d] \in OwnerPhases
                               /\ call[c].request = call[d].request => c = d
    /\ \A c \in Callers : pc[c] \in OwnerPhases =>
          state[call[c].request] \in {"request_started", "response_persisted", "settled"}

\* Nothing was handed over before the start, nor before the owner did.
HandedOver ==
    /\ \A q \in Requests : state[q] \in {"absent", "reserved", "released"} => sent[q] = 0
    /\ \A c \in Callers : pc[c] = "won" => sent[call[c].request] = 0
    /\ SentAtMostOnce

\* Only a request with a response is settled below its maximum.
SettledFully ==
    /\ \A c \in Callers : pc[c] = "settling" => response[call[c].request]
    /\ \A q \in Requests : state[q] = "settled" => response[q] \/ charged[q] = Maximum(q)

\* The invariant.
DispatchInv == Types /\ OneOwner /\ HandedOver /\ SettledFully /\ WithinAuthority

\* It holds initially.
LEMMA DispatchInit == Init => DispatchInv
  BY ConstantsAssumption, NoCallType
  DEF Init, DispatchInv, Types, OneOwner, HandedOver, SettledFully, WithinAuthority,
      SentAtMostOnce, OwnerPhases, Phases, States

\* Every step keeps the owner of a request unique: a start needs a request nobody
\* has started.
LEMMA OwnerStep == DispatchInv /\ [Next]_vars => OneOwner'
<1> SUFFICES ASSUME DispatchInv, [Next]_vars PROVE OneOwner'
  OBVIOUS
<1>0. \A c \in Callers : pc[c] \in OwnerPhases => call[c].request \in Requests
  BY DEF DispatchInv, Types, OwnerPhases
<1>1. CASE Quiet
  BY <1>0, <1>1 DEF Quiet, OwnersShrink, DispatchInv, OneOwner
<1>2. ASSUME NEW q \in Requests, Reserving(q) \/ Releasing(q)
      PROVE  OneOwner'
  BY <1>0, <1>2 DEF Reserving, Releasing, OwnersShrink, DispatchInv, OneOwner, Types
<1>3. ASSUME NEW c \in Callers, Starting(c)
      PROVE  OneOwner'
  BY <1>0, <1>3 DEF Starting, DispatchInv, OneOwner, Types, OwnerPhases
<1>4. ASSUME NEW c \in Callers, Dispatching(c)
      PROVE  OneOwner'
  BY <1>0, <1>4 DEF Dispatching, DispatchInv, OneOwner, Types, OwnerPhases
<1>5. ASSUME NEW c \in Callers, Answering(c)
      PROVE  OneOwner'
  BY <1>0, <1>5 DEF Answering, DispatchInv, OneOwner, Types, OwnerPhases
<1>6. ASSUME NEW c \in Callers, Settling(c)
      PROVE  OneOwner'
  BY <1>0, <1>6 DEF Settling, Settle, OwnersShrink, DispatchInv, OneOwner, Types
<1> QED
  BY <1>1, <1>2, <1>3, <1>4, <1>5, <1>6, StepCases DEF DispatchInv

\* A hand-over is the owner's, once.
LEMMA HandedOverStep == DispatchInv /\ [Next]_vars => HandedOver'
<1> SUFFICES ASSUME DispatchInv, [Next]_vars PROVE HandedOver'
  OBVIOUS
<1>0. \A c \in Callers : pc[c] \in OwnerPhases => call[c].request \in Requests
  BY DEF DispatchInv, Types, OwnerPhases
<1>1. CASE Quiet
  BY <1>0, <1>1 DEF Quiet, OwnersShrink, OwnerPhases, DispatchInv, HandedOver, SentAtMostOnce
<1>2. ASSUME NEW q \in Requests, Reserving(q) \/ Releasing(q)
      PROVE  HandedOver'
  BY <1>0, <1>2
  DEF Reserving, Releasing, OwnersShrink, OwnerPhases, DispatchInv, HandedOver, SentAtMostOnce, Types
<1>3. ASSUME NEW c \in Callers, Starting(c)
      PROVE  HandedOver'
  BY <1>0, <1>3 DEF Starting, DispatchInv, HandedOver, SentAtMostOnce, Types
<1>4. ASSUME NEW c \in Callers, Dispatching(c)
      PROVE  HandedOver'
  <2> DEFINE q == call[c].request
  <2>1. /\ q \in Requests
        /\ sent[q] = 0
        /\ state[q] \in {"request_started", "response_persisted", "settled"}
    BY <1>4 DEF Dispatching, DispatchInv, HandedOver, OneOwner, OwnerPhases
  <2>2. \A s \in Requests : sent'[s] = IF s = q THEN 1 ELSE sent[s]
    BY <1>4, <2>1 DEF Dispatching, DispatchInv, Types
  <2>3. ASSUME NEW d \in Callers, pc'[d] = "won"
        PROVE  d # c /\ pc[d] = "won" /\ call'[d] = call[d] /\ call[d].request # q
    BY <1>4, <2>3 DEF Dispatching, DispatchInv, OneOwner, OwnerPhases, Types
  <2>4. \A d \in Callers : pc'[d] = "won" => sent'[call'[d].request] = 0
    BY <1>0, <2>2, <2>3 DEF DispatchInv, HandedOver, OwnerPhases
  <2> QED
    BY <1>4, <2>1, <2>2, <2>4 DEF Dispatching, DispatchInv, HandedOver, SentAtMostOnce
<1>5. ASSUME NEW c \in Callers, Answering(c)
      PROVE  HandedOver'
  BY <1>0, <1>5 DEF Answering, DispatchInv, HandedOver, SentAtMostOnce, Types
<1>6. ASSUME NEW c \in Callers, Settling(c)
      PROVE  HandedOver'
  BY <1>0, <1>6
  DEF Settling, Settle, OwnersShrink, OwnerPhases, DispatchInv, HandedOver, SentAtMostOnce, Types
<1> QED
  BY <1>1, <1>2, <1>3, <1>4, <1>5, <1>6, StepCases DEF DispatchInv

\* A metered settlement comes from the owner that has persisted the response.
LEMMA SettledStep == DispatchInv /\ [Next]_vars => SettledFully'
<1> SUFFICES ASSUME DispatchInv, [Next]_vars PROVE SettledFully'
  OBVIOUS
<1>0. \A c \in Callers : pc[c] \in OwnerPhases => call[c].request \in Requests
  BY DEF DispatchInv, Types, OwnerPhases
<1> USE DEF Maximum
<1>1. CASE Quiet
  BY <1>0, <1>1 DEF Quiet, OwnersShrink, OwnerPhases, DispatchInv, SettledFully
<1>2. ASSUME NEW q \in Requests, Reserving(q) \/ Releasing(q)
      PROVE  SettledFully'
  BY <1>0, <1>2
  DEF Reserving, Releasing, OwnersShrink, OwnerPhases, DispatchInv, SettledFully, Types
<1>3. ASSUME NEW c \in Callers, Starting(c)
      PROVE  SettledFully'
  BY <1>0, <1>3 DEF Starting, DispatchInv, SettledFully, Types
<1>4. ASSUME NEW c \in Callers, Dispatching(c)
      PROVE  SettledFully'
  BY <1>0, <1>4 DEF Dispatching, DispatchInv, SettledFully, Types
<1>5. ASSUME NEW c \in Callers, Answering(c)
      PROVE  SettledFully'
  BY <1>0, <1>5 DEF Answering, DispatchInv, SettledFully, Types
<1>6. ASSUME NEW c \in Callers, Settling(c)
      PROVE  SettledFully'
  BY <1>0, <1>6
  DEF Settling, Settle, OwnersShrink, OwnerPhases, DispatchInv, SettledFully, Types
<1> QED
  BY <1>1, <1>2, <1>3, <1>4, <1>5, <1>6, StepCases DEF DispatchInv

\* A settlement charges no more than it unreserves.
LEMMA AuthorityStep == DispatchInv /\ [Next]_vars => WithinAuthority'
<1> SUFFICES ASSUME DispatchInv, [Next]_vars PROVE WithinAuthority'
  OBVIOUS
<1>1. CASE Quiet
  BY <1>1 DEF Quiet, DispatchInv, WithinAuthority
<1>2. ASSUME NEW q \in Requests, Reserving(q) \/ Releasing(q)
      PROVE  WithinAuthority'
  BY <1>2, MaximumType, ConstantsAssumption
  DEF Reserving, Releasing, FundsAvailable, DispatchInv, WithinAuthority, Types
<1>3. ASSUME NEW c \in Callers, Starting(c) \/ Dispatching(c) \/ Answering(c)
      PROVE  WithinAuthority'
  BY <1>3 DEF Starting, Dispatching, Answering, DispatchInv, WithinAuthority
<1>4. ASSUME NEW c \in Callers, Settling(c)
      PROVE  WithinAuthority'
  BY <1>4, MaximumType, ConstantsAssumption
  DEF Settling, Settle, DispatchInv, WithinAuthority, Types
<1> QED
  BY <1>1, <1>2, <1>3, <1>4, StepCases DEF DispatchInv

\* The invariant holds in every reachable state.
LEMMA DispatchInvariant == Spec => []DispatchInv
<1>1. DispatchInv /\ [Next]_vars => DispatchInv'
  BY TypesStep, OwnerStep, HandedOverStep, SettledStep, AuthorityStep DEF DispatchInv
<1> QED
  BY <1>1, DispatchInit, PTL DEF Spec

-----------------------------------------------------------------------------
(* The ledger *)

\* Every request that is or was reserved has a number of its own within the
\* ceiling of its run.
Numbered ==
    /\ ordinal \in [Requests -> 0 .. MaximumRequests]
    /\ \A q \in Requests : ordinal[q] = 0 <=> state[q] = "absent"
    /\ \A q, s \in Requests : q # s /\ RunOf[q] = RunOf[s] /\ ordinal[q] = ordinal[s] => ordinal[q] = 0

\* A request is numbered when it is reserved, within the ceiling.
Numbering(q) ==
    /\ NextOrdinal(q) <= MaximumRequests
    /\ state' = [state EXCEPT ![q] = "reserved"]
    /\ ordinal' = [ordinal EXCEPT ![q] = NextOrdinal(q)]

\* No other step touches the numbers, reserves a request or forgets one.
Unnumbering ==
    /\ UNCHANGED ordinal
    /\ \A q \in Requests : state'[q] = "absent" <=> state[q] = "absent"

LEMMA NumberCases ==
  ASSUME Types, [Next]_vars
  PROVE  Unnumbering \/ \E q \in Requests : state[q] = "absent" /\ Numbering(q)
<1> USE DEF Types, RequestOf, rowVars, callVars
<1>1. CASE UNCHANGED vars \/ allSettled
  BY <1>1 DEF allSettled, vars, Unnumbering
<1>2. ASSUME NEW r \in Runs, claimPendingRun(r) \/ leaseStep(r)
      PROVE  Unnumbering
  BY <1>2 DEF claimPendingRun, leaseStep, Unnumbering
<1>3. ASSUME NEW c \in Callers, prepareAndReserve(c)
      PROVE  Unnumbering \/ \E q \in Requests : state[q] = "absent" /\ Numbering(q)
  <2> DEFINE q == call[c].request
  <2>0. q \in Requests
    BY <1>3 DEF prepareAndReserve
  <2>1. CASE Reservable(q) /\ Reserve(q)
    BY <2>0, <2>1 DEF Reservable, Reserve, Numbering
  <2>2. CASE UNCHANGED rowVars
    BY <2>2 DEF Unnumbering
  <2> QED
    BY <1>3, <2>1, <2>2 DEF prepareAndReserve
<1>4. ASSUME NEW c \in Callers,
             \/ \E q \in Requests : enter(c, q)
             \/ blockGovernedRunForProgressDecision(c) \/ checkClaim(c)
             \/ getEconomicReservation(c) \/ resolveStartedRequest(c)
             \/ dispatchGovernedRequest(c) \/ abandon(c)
      PROVE  Unnumbering
  BY <1>4 DEF enter, blockGovernedRunForProgressDecision, checkClaim, getEconomicReservation,
              resolveStartedRequest, dispatchGovernedRequest, abandon, Unnumbering
<1>5. ASSUME NEW c \in Callers,
             releaseUndispatched(c) \/ markEconomicRequestStarted(c)
               \/ markEconomicResponsePersisted(c)
      PROVE  Unnumbering
  BY <1>5 DEF releaseUndispatched, markEconomicRequestStarted, markEconomicResponsePersisted,
              Releasable, Startable, Unnumbering
<1>6. ASSUME NEW c \in Callers, settleMaximum(c) \/ settleMetered(c)
      PROVE  Unnumbering
  BY <1>6 DEF settleMaximum, settleMetered, Settleable, Settle, Unnumbering
<1> QED
  BY <1>1, <1>2, <1>3, <1>4, <1>5, <1>6 DEF Next

\* The next number of a run is above those its requests have.
LEMMA NextOrdinalFacts ==
  ASSUME Numbered, NEW q \in Requests
  PROVE  /\ NextOrdinal(q) \in Nat \ {0}
         /\ \A s \in Requests : RunOf[s] = RunOf[q] => ordinal[s] < NextOrdinal(q)
<1> DEFINE T == {ordinal[s] : s \in Siblings(q)} \cup {0}
<1>1. MaximumRequests \in Nat
  BY ConstantsAssumption
<1>2. T \in SUBSET (0 .. MaximumRequests) /\ T # {} /\ 0 \in T
  BY <1>1 DEF Numbered, Siblings
<1>3. Max(T) \in T /\ \A x \in T : x <= Max(T)
  <2> HIDE DEF T
  <2> QED BY <1>1, <1>2, MaxFacts
<1>4. Max(T) \in 0 .. MaximumRequests
  BY <1>2, <1>3
<1>5. NextOrdinal(q) = Max(T) + 1
  BY DEF NextOrdinal
<1>6. ASSUME NEW s \in Requests, RunOf[s] = RunOf[q]
      PROVE  ordinal[s] \in T /\ ordinal[s] \in Nat
  BY <1>1, <1>6 DEF Siblings, Numbered
<1> HIDE DEF T
<1> QED
  BY <1>1, <1>3, <1>4, <1>5, <1>6

LEMMA NumberedStep == Types /\ Numbered /\ [Next]_vars => Numbered'
<1> SUFFICES ASSUME Types, Numbered, [Next]_vars PROVE Numbered'
  OBVIOUS
<1>1. CASE Unnumbering
  BY <1>1 DEF Unnumbering, Numbered
<1>2. ASSUME NEW q \in Requests, state[q] = "absent", Numbering(q)
      PROVE  Numbered'
  <2> DEFINE n == NextOrdinal(q)
  <2>1. /\ n \in Nat \ {0}
        /\ \A s \in Requests : RunOf[s] = RunOf[q] => ordinal[s] < n
    BY NextOrdinalFacts
  <2>2. n \in 1 .. MaximumRequests /\ n \in 0 .. MaximumRequests
    BY <1>2, <2>1, ConstantsAssumption DEF Numbering
  <2> HIDE DEF n
  <2>3. ordinal' = [ordinal EXCEPT ![q] = n]
    BY <1>2 DEF Numbering, n
  <2>4. ordinal' \in [Requests -> 0 .. MaximumRequests]
    BY <2>2, <2>3 DEF Numbered
  <2>5. \A s \in Requests : ordinal'[s] = IF s = q THEN n ELSE ordinal[s]
    BY <2>3 DEF Numbered
  <2>6. \A s \in Requests : ordinal'[s] = 0 <=> state'[s] = "absent"
    BY <1>2, <2>1, <2>5 DEF Numbering, Numbered, Types
  <2>7. ASSUME NEW s \in Requests, NEW t \in Requests, s # t, RunOf[s] = RunOf[t],
               ordinal'[s] = ordinal'[t]
        PROVE  ordinal'[s] = 0
    <3>1. ordinal[s] \in Nat /\ ordinal[t] \in Nat
      BY ConstantsAssumption DEF Numbered
    <3>2. CASE s = q
      BY <2>1, <2>5, <2>7, <3>1, <3>2
    <3>3. CASE t = q
      BY <2>1, <2>5, <2>7, <3>1, <3>3
    <3>4. CASE s # q /\ t # q
      BY <2>5, <2>7, <3>4 DEF Numbered
    <3> QED BY <3>2, <3>3, <3>4
  <2> QED
    BY <2>4, <2>6, <2>7 DEF Numbered
<1> QED
  BY <1>1, <1>2, NumberCases

\* The requests of a run that were handed over have different numbers between 1
\* and the ceiling.
LEMMA LedgerBoundsRequests == DispatchInv /\ Numbered => RequestsWithinAuthority
<1> SUFFICES ASSUME DispatchInv, Numbered, NEW r \in Runs
             PROVE  SumFunctionOnSet(sent, {q \in Requests : RunOf[q] = r}) <= MaximumRequests
  BY DEF Numbered, RequestsWithinAuthority
<1> DEFINE Mine == {q \in Requests : RunOf[q] = r}
           Gone == {q \in Mine : sent[q] = 1}
<1>1. MaximumRequests \in Nat /\ IsFiniteSet(Mine)
  BY ConstantsAssumption, FS_Subset
<1>2. \A q \in Mine : sent[q] \in {0, 1}
  BY DEF DispatchInv, Types, HandedOver, SentAtMostOnce
<1>3. SumFunctionOnSet(sent, Mine) = Cardinality(Gone)
  <2> HIDE DEF Mine
  <2> QED BY <1>1, <1>2, SumCounts
<1>4. \A q \in Gone : ordinal[q] \in 1 .. MaximumRequests
  BY <1>1 DEF DispatchInv, HandedOver, Numbered
<1>5. \A q, s \in Gone : q # s => ordinal[q] # ordinal[s]
  BY <1>1, <1>4 DEF Numbered
<1>6. Cardinality(Gone) <= MaximumRequests
  <2> DEFINE f == [q \in Gone |-> ordinal[q]]
  <2>1. IsFiniteSet(1 .. MaximumRequests) /\ Cardinality(1 .. MaximumRequests) = MaximumRequests
    BY <1>1, FS_Interval
  <2>2. f \in Injection(Gone, 1 .. MaximumRequests)
    <3> HIDE DEF Gone
    <3> QED BY <1>4, <1>5 DEF Injection, IsInjective
  <2>3. Cardinality(Gone) <= Cardinality(1 .. MaximumRequests)
    <3> HIDE DEF Gone, f
    <3> QED BY <2>1, <2>2, FS_Injection
  <2> QED BY <2>1, <2>3
<1> QED
  BY <1>3, <1>6

-----------------------------------------------------------------------------
(* The account *)

\* What each request holds of the account's reserve.
Held == [q \in Requests |-> IF state[q] \in OpenStates THEN Maximum(q) ELSE 0]

\* The account is the sum of the ledger, and what is not settled is not charged.
Balanced ==
    /\ reserved = SumFunctionOnSet(Held, Requests)
    /\ settled = SumFunctionOnSet(charged, Requests)
    /\ \A q \in Requests : state[q] # "settled" => charged[q] = 0

LEMMA BalancedMeans == Types => (Balanced => AccountBalances)
  BY DEF Types, Balanced, AccountBalances, SumFunction, Held

LEMMA HeldType == \A q \in Requests : Held[q] \in Int
  BY MaximumType DEF Held

\* A step that changes the state of one request changes the sum of what is held
\* by what that request holds.
LEMMA HeldChange ==
  ASSUME Types, NEW q \in Requests, NEW s, state' = [state EXCEPT ![q] = s]
  PROVE  SumFunctionOnSet(Held', Requests) =
           SumFunctionOnSet(Held, Requests)
             + (IF s \in OpenStates THEN Maximum(q) ELSE 0)
             - (IF state[q] \in OpenStates THEN Maximum(q) ELSE 0)
<1>1. \A x \in Requests : Held[x] \in Int
  BY HeldType
<1>2. \A x \in Requests : Held'[x] = IF state'[x] \in OpenStates THEN Maximum(x) ELSE 0
  BY DEF Held, Maximum
<1>3. \A x \in Requests : Held'[x] \in Int
  BY <1>2, MaximumType
<1>4. \A x \in Requests : x # q => Held'[x] = Held[x]
  BY <1>2 DEF Held, Types
<1>5. IsFiniteSet(Requests)
  BY ConstantsAssumption
<1>6. SumFunctionOnSet(Held', Requests) = SumFunctionOnSet(Held, Requests) + Held'[q] - Held[q]
  <2> HIDE DEF Held
  <2> QED BY <1>1, <1>3, <1>4, <1>5, SumChange
<1>7. Held'[q] = (IF s \in OpenStates THEN Maximum(q) ELSE 0)
  BY <1>2 DEF Types
<1>8. Held[q] = (IF state[q] \in OpenStates THEN Maximum(q) ELSE 0)
  BY DEF Held
<1> QED
  BY <1>6, <1>7, <1>8

\* The sums of the ledger are integers.
LEMMA LedgerTypes ==
  ASSUME Types
  PROVE  SumFunctionOnSet(Held, Requests) \in Int /\ SumFunctionOnSet(charged, Requests) \in Int
<1>1. IsFiniteSet(Requests)
  BY ConstantsAssumption
<1>2. \A q \in Requests : charged[q] \in Int
  BY DEF Types
<1> QED
  BY <1>1, <1>2, HeldType, SumType

LEMMA BalancedStep == Types /\ Balanced /\ [Next]_vars => Balanced'
<1> SUFFICES ASSUME Types, Balanced, [Next]_vars PROVE Balanced'
  OBVIOUS
<1>0. ASSUME UNCHANGED state PROVE Held' = Held
  BY <1>0 DEF Held, Maximum
<1>1. CASE Quiet
  BY <1>0, <1>1 DEF Quiet, Balanced
<1>2. ASSUME NEW q \in Requests, Reserving(q)
      PROVE  Balanced'
  <2>1. SumFunctionOnSet(Held', Requests) = SumFunctionOnSet(Held, Requests) + Maximum(q)
    <3>1. q \in Requests /\ state' = [state EXCEPT ![q] = "reserved"]
      BY <1>2 DEF Reserving
    <3>2. SumFunctionOnSet(Held', Requests) =
               SumFunctionOnSet(Held, Requests)
                 + (IF "reserved" \in OpenStates THEN Maximum(q) ELSE 0)
                 - (IF state[q] \in OpenStates THEN Maximum(q) ELSE 0)
      BY <3>1, HeldChange
    <3>3. "reserved" \in OpenStates /\ state[q] \notin OpenStates
      BY <1>2 DEF Reserving, OpenStates
    <3> QED BY <3>1, <3>2, <3>3, LedgerTypes, MaximumType
  <2>2. reserved' = SumFunctionOnSet(Held', Requests)
    BY <1>2, <2>1 DEF Reserving, Balanced
  <2> QED
    BY <1>2, <2>2 DEF Reserving, Balanced, Types
<1>3. ASSUME NEW q \in Requests, Releasing(q)
      PROVE  Balanced'
  <2>1. SumFunctionOnSet(Held', Requests) = SumFunctionOnSet(Held, Requests) - Maximum(q)
    <3>1. q \in Requests /\ state' = [state EXCEPT ![q] = "released"]
      BY <1>3 DEF Releasing
    <3>2. SumFunctionOnSet(Held', Requests) =
               SumFunctionOnSet(Held, Requests)
                 + (IF "released" \in OpenStates THEN Maximum(q) ELSE 0)
                 - (IF state[q] \in OpenStates THEN Maximum(q) ELSE 0)
      BY <3>1, HeldChange
    <3>3. "released" \notin OpenStates /\ state[q] \in OpenStates
      BY <1>3 DEF Releasing, OpenStates
    <3> QED BY <3>1, <3>2, <3>3, LedgerTypes, MaximumType
  <2>2. reserved' = SumFunctionOnSet(Held', Requests)
    BY <1>3, <2>1 DEF Releasing, Balanced
  <2> QED
    BY <1>3, <2>2 DEF Releasing, Balanced, Types
<1>4. ASSUME NEW c \in Callers, Starting(c) \/ Answering(c)
      PROVE  Balanced'
  <2> DEFINE q == call[c].request
  <2>1. PICK s \in {"request_started", "response_persisted"} :
           q \in Requests /\ state[q] \in OpenStates /\ state' = [state EXCEPT ![q] = s]
    BY <1>4 DEF Starting, Answering, OpenStates
  <2>2. SumFunctionOnSet(Held', Requests) = SumFunctionOnSet(Held, Requests)
    <3>1. q \in Requests /\ state' = [state EXCEPT ![q] = s]
      BY <2>1
    <3>2. SumFunctionOnSet(Held', Requests) =
               SumFunctionOnSet(Held, Requests)
                 + (IF s \in OpenStates THEN Maximum(q) ELSE 0)
                 - (IF state[q] \in OpenStates THEN Maximum(q) ELSE 0)
      BY <3>1, HeldChange
    <3>3. s \in OpenStates /\ state[q] \in OpenStates
      BY <2>1 DEF OpenStates
    <3> QED BY <3>1, <3>2, <3>3, LedgerTypes, MaximumType
  <2> QED
    BY <1>4, <2>1, <2>2 DEF Starting, Answering, Balanced, Types, OpenStates
<1>5. ASSUME NEW c \in Callers, Dispatching(c)
      PROVE  Balanced'
  BY <1>0, <1>5 DEF Dispatching, Balanced
<1>6. ASSUME NEW c \in Callers, Settling(c)
      PROVE  Balanced'
  <2> DEFINE q == call[c].request
  <2>1. q \in Requests /\ state[q] \in {"request_started", "response_persisted"}
    BY <1>6 DEF Settling
  <2>2. PICK amount \in 0 .. Maximum(q) : Settle(q, amount)
    BY <1>6 DEF Settling
  <2>3. SumFunctionOnSet(Held', Requests) = SumFunctionOnSet(Held, Requests) - Maximum(q)
    <3>1. q \in Requests /\ state' = [state EXCEPT ![q] = "settled"]
      BY <2>1, <2>2 DEF Settle
    <3>2. SumFunctionOnSet(Held', Requests) =
               SumFunctionOnSet(Held, Requests)
                 + (IF "settled" \in OpenStates THEN Maximum(q) ELSE 0)
                 - (IF state[q] \in OpenStates THEN Maximum(q) ELSE 0)
      BY <3>1, HeldChange
    <3>3. "settled" \notin OpenStates /\ state[q] \in OpenStates
      BY <2>1 DEF OpenStates
    <3> QED BY <3>1, <3>2, <3>3, LedgerTypes, MaximumType
  <2>4. /\ \A x \in Requests : charged[x] \in Int /\ charged'[x] \in Int
        /\ \A x \in Requests : x # q => charged'[x] = charged[x]
        /\ charged'[q] = amount /\ charged[q] = 0 /\ amount \in Int
    BY <2>1, <2>2, MaximumType DEF Settle, Types, Balanced
  <2>5. SumFunctionOnSet(charged', Requests) = SumFunctionOnSet(charged, Requests) + amount
    <3>1. IsFiniteSet(Requests)
      BY ConstantsAssumption
    <3>2. SumFunctionOnSet(charged', Requests) =
             SumFunctionOnSet(charged, Requests) + charged'[q] - charged[q]
      BY <2>1, <2>4, <3>1, SumChange
    <3> QED BY <2>4, <3>2, LedgerTypes
  <2>6. reserved' = SumFunctionOnSet(Held', Requests) /\ settled' = SumFunctionOnSet(charged', Requests)
    BY <2>2, <2>3, <2>5 DEF Settle, Balanced
  <2>7. \A x \in Requests : state'[x] # "settled" => charged'[x] = 0
    BY <2>1, <2>2, <2>4 DEF Settle, Balanced, Types
  <2> QED
    BY <2>6, <2>7 DEF Balanced
<1> QED
  BY <1>1, <1>2, <1>3, <1>4, <1>5, <1>6, StepCases

\* Nothing is held or charged at first.
LEMMA BalancedInit == Init => Balanced
<1> SUFFICES ASSUME Init PROVE Balanced
  OBVIOUS
<1>1. IsFiniteSet(Requests)
  BY ConstantsAssumption
<1>2. ASSUME NEW f, \A q \in Requests : f[q] = 0
      PROVE  SumFunctionOnSet(f, Requests) = 0
  <2>1. SumFunctionOnSet(f, Requests) = Cardinality({q \in Requests : f[q] = 1})
    BY <1>1, <1>2, SumCounts
  <2>2. {q \in Requests : f[q] = 1} = {}
    BY <1>2
  <2> QED
    BY <2>1, <2>2, FS_EmptySet
<1>3. \A q \in Requests : Held[q] = 0 /\ charged[q] = 0
  BY DEF Init, Held, OpenStates
<1> QED
  BY <1>2, <1>3 DEF Init, Balanced

\* The ledger is numbered and balanced in every reachable state.
LEMMA LedgerInvariant == Spec => [](Numbered /\ Balanced)
<1>1. Init => Numbered /\ Balanced
  BY BalancedInit, ConstantsAssumption DEF Init, Numbered
<1>2. DispatchInv /\ Numbered /\ Balanced /\ [Next]_vars => (Numbered /\ Balanced)'
  BY NumberedStep, BalancedStep DEF DispatchInv
<1> QED
  BY <1>1, <1>2, DispatchInvariant, PTL DEF Spec

-----------------------------------------------------------------------------
(* Theorems *)

\* The account, the ledger and the calls keep their types; a call in flight is
\* always for a logical request.
THEOREM TypeCorrect == Spec => []TypeOK
<1>1. Init => OtherTypes
  BY DEF Init, OtherTypes, Standing!Init, Standing!Standings
<1>2. DispatchInv /\ OtherTypes /\ Numbered => TypeOK
  BY DEF DispatchInv, Types, OtherTypes, Numbered, TypeOK
<1> QED
  BY <1>1, <1>2, OtherTypesStep, DispatchInvariant, LedgerInvariant, PTL DEF Spec

\* A logical request reaches the provider at most once, whatever duplicates,
\* reclaims and crashes there are (markEconomicRequestStarted).
THEOREM OneDispatch == Spec => []SentAtMostOnce
<1>1. DispatchInv => SentAtMostOnce
  BY DEF DispatchInv, HandedOver
<1> QED
  BY <1>1, DispatchInvariant, PTL

\* The money for a request that was handed over is never released, and without a
\* response it is settled at the maximum (settleFromDurableFacts).
THEOREM DispatchPaid == Spec => []SentIsAccounted
<1>1. DispatchInv => SentIsAccounted
  BY DEF DispatchInv, Types, HandedOver, SettledFully, SentIsAccounted, States
<1> QED
  BY <1>1, DispatchInvariant, PTL

\* Reservations and charges together never exceed the authorized amount
\* (reserveEconomicRequest under the account lock).
THEOREM NoOversubscription == Spec => []WithinAuthority
<1>1. DispatchInv => WithinAuthority
  BY DEF DispatchInv
<1> QED
  BY <1>1, DispatchInvariant, PTL

\* The account equals its ledger: what is open is reserved at its maximum and
\* what is settled was charged once, whichever call settled, released or started
\* it and whatever died in between (reserveEconomicRequest, settleEconomicRequest,
\* releaseUndispatchedEconomicReservation).
THEOREM AccountIsLedger == Spec => []AccountBalances
<1>1. DispatchInv /\ Balanced => AccountBalances
  BY BalancedMeans DEF DispatchInv
<1> QED
  BY <1>1, DispatchInvariant, LedgerInvariant, PTL

\* A run hands over at most maximumProviderRequests requests, however many of its
\* reservations were released, and no two have the same model_request_ordinal.
THEOREM CeilingHolds == Spec => []RequestsWithinAuthority
  BY LedgerBoundsRequests, DispatchInvariant, LedgerInvariant, PTL

-----------------------------------------------------------------------------
(* The refinement: GovernedRequests implements RequestLedger *)

\* An answer is on record only after its request was handed over.
AnsweredOut ==
    /\ \A c \in Callers : pc[c] \in {"received", "settling"} => sent[call[c].request] = 1
    /\ \A q \in Requests : response[q] \/ state[q] = "response_persisted" => sent[q] = 1

LEMMA AnsweredOutStep == DispatchInv /\ AnsweredOut /\ [Next]_vars => AnsweredOut'
<1> SUFFICES ASSUME DispatchInv, AnsweredOut, [Next]_vars PROVE AnsweredOut'
  OBVIOUS
<1>0. \A c \in Callers : pc[c] \in OwnerPhases => call[c].request \in Requests
  BY DEF DispatchInv, Types, OwnerPhases
<1>1. CASE Quiet
  BY <1>0, <1>1 DEF Quiet, OwnersShrink, OwnerPhases, AnsweredOut
<1>2. ASSUME NEW q \in Requests, Reserving(q) \/ Releasing(q)
      PROVE  AnsweredOut'
  BY <1>0, <1>2
  DEF Reserving, Releasing, OwnersShrink, OwnerPhases, AnsweredOut, DispatchInv, Types
<1>3. ASSUME NEW c \in Callers, Starting(c)
      PROVE  AnsweredOut'
  BY <1>0, <1>3 DEF Starting, OwnerPhases, AnsweredOut, DispatchInv, Types
<1>4. ASSUME NEW c \in Callers, Dispatching(c)
      PROVE  AnsweredOut'
  <2> DEFINE q == call[c].request
  <2>1. q \in Requests /\ sent[q] = 0
    BY <1>4 DEF Dispatching, DispatchInv, HandedOver
  <2>2. \A s \in Requests : sent'[s] = IF s = q THEN 1 ELSE sent[s]
    BY <1>4, <2>1 DEF Dispatching, DispatchInv, Types
  <2>3. \A d \in Callers : pc'[d] \in {"received", "settling"} =>
                              d = c \/ pc[d] \in {"received", "settling"}
    BY <1>4 DEF Dispatching, DispatchInv, Types
  <2>4. \A d \in Callers : pc'[d] \in {"received", "settling"} => sent'[call[d].request] = 1
    <3> TAKE d \in Callers
    <3>1. CASE d = c
      BY <2>1, <2>2, <3>1
    <3>2. CASE pc[d] \in {"received", "settling"}
      BY <1>0, <2>1, <2>2, <3>2 DEF AnsweredOut, OwnerPhases
    <3> QED BY <2>3, <3>1, <3>2
  <2> QED
    BY <1>4, <2>2, <2>4 DEF Dispatching, AnsweredOut
<1>5. ASSUME NEW c \in Callers, Answering(c)
      PROVE  AnsweredOut'
  BY <1>0, <1>5 DEF Answering, OwnerPhases, AnsweredOut, DispatchInv, Types
<1>6. ASSUME NEW c \in Callers, Settling(c)
      PROVE  AnsweredOut'
  BY <1>0, <1>6
  DEF Settling, Settle, OwnersShrink, OwnerPhases, AnsweredOut, DispatchInv, Types
<1> QED
  BY <1>1, <1>2, <1>3, <1>4, <1>5, <1>6, StepCases DEF DispatchInv

LEMMA AnsweredOutInvariant == Spec => []AnsweredOut
<1>1. Init => AnsweredOut
  BY DEF Init, AnsweredOut
<1> QED
  BY <1>1, AnsweredOutStep, DispatchInvariant, PTL DEF Spec

\* The sum of two functions is the function of the sums.
LEMMA SumAdds ==
    ASSUME NEW S, IsFiniteSet(S),
           NEW f, \A x \in S : f[x] \in Int,
           NEW g, \A x \in S : g[x] \in Int,
           NEW h, \A x \in S : h[x] = f[x] + g[x]
    PROVE  SumFunctionOnSet(h, S) = SumFunctionOnSet(f, S) + SumFunctionOnSet(g, S)
<1>1. PICK F : SumsOf(f, S, F)
  BY SumIsTotal
<1>2. PICK G : SumsOf(g, S, G)
  BY SumIsTotal
<1>3. PICK H : SumsOf(h, S, H)
  <2>1. \A x \in S : h[x] \in Int
    OBVIOUS
  <2> QED BY <2>1, SumIsTotal
<1> DEFINE Good == {s \in SUBSET S : H[s] = F[s] + G[s]}
<1>4. {} \in Good
  BY <1>1, <1>2, <1>3 DEF SumsOf
<1>5. ASSUME NEW s \in SUBSET S, s # {}, s \ {Pick(s)} \in Good
      PROVE  s \in Good
  <2> DEFINE t == s \ {Pick(s)}
             p == Pick(s)
  <2>1. p \in S /\ t \in SUBSET S
    BY <1>5, PickFacts
  <2>2. F[s] = f[p] + F[t] /\ G[s] = g[p] + G[t] /\ H[s] = h[p] + H[t]
    BY <1>1, <1>2, <1>3, <1>5 DEF SumsOf
  <2>3. f[p] \in Int /\ g[p] \in Int /\ h[p] = f[p] + g[p] /\ F[t] \in Int /\ G[t] \in Int
    BY <1>1, <1>2, <2>1 DEF SumsOf
  <2>4. H[t] = F[t] + G[t]
    BY <1>5
  <2> HIDE DEF t, p
  <2>5. H[s] = F[s] + G[s]
    BY <2>2, <2>3, <2>4
  <2> QED BY <2>5
<1>6. S \in Good
  <2> HIDE DEF Good
  <2> QED BY <1>4, <1>5, PartInduction
<1> QED
  BY <1>1, <1>2, <1>3, <1>6 DEF SumsOf

\* The two counters of the account are what the ledger has committed.
LEMMA CountersAreCommitted ==
  ASSUME Types, Balanced
  PROVE  Ledger!SumFunction([q \in Requests |-> Ledger!Committed(q)]) = reserved + settled
<1> DEFINE Total == [q \in Requests |-> Ledger!Committed(q)]
<1>1. \A q \in Requests : Total[q] = Held[q] + charged[q]
  BY MaximumType
  DEF Types, Balanced, Held, OpenStates, Ledger!Committed, Ledger!Bound, Maximum
<1>2. SumFunctionOnSet(Total, Requests) = reserved + settled
  <2>1. IsFiniteSet(Requests) /\ \A q \in Requests : charged[q] \in Int
    BY ConstantsAssumption DEF Types
  <2> HIDE DEF Total
  <2>2. SumFunctionOnSet(Total, Requests) =
           SumFunctionOnSet(Held, Requests) + SumFunctionOnSet(charged, Requests)
    BY <1>1, <2>1, HeldType, SumAdds
  <2> QED BY <2>2 DEF Balanced
<1>3. DOMAIN Total = Requests
  OBVIOUS
<1>4. Ledger!SumFunction(Total) = SumFunctionOnSet(Total, Requests)
  <2> HIDE DEF Total
  <2> QED BY <1>3, Zenon
          DEF Ledger!SumFunction, Ledger!SumFunctionOnSet, Ledger!FoldFunctionOnSet,
              Ledger!MapThenFoldSet, SumFunctionOnSet, FoldFunctionOnSet, MapThenFoldSet
<1> QED
  BY <1>2, <1>4

\* A run whose next ordinal is within the ceiling has not spent its reservations:
\* the ordinals of those it made are different numbers below the next one.
LEMMA OrdinalsCount ==
  ASSUME Numbered, NEW q \in Requests, NextOrdinal(q) <= MaximumRequests
  PROVE  Cardinality(Ledger!Spent(RunOf[q])) < MaximumRequests
<1> DEFINE S == Ledger!Spent(RunOf[q])
           n == NextOrdinal(q) - 1
           f == [s \in S |-> ordinal[s]]
<1>1. n \in Nat /\ n < MaximumRequests /\ MaximumRequests \in Nat
  BY NextOrdinalFacts, ConstantsAssumption
<1>2. \A s \in S : s \in Requests /\ RunOf[s] = RunOf[q] /\ state[s] # "absent"
  BY DEF Ledger!Spent
<1>3. \A s \in S : ordinal[s] \in 1 .. n
  <2> TAKE s \in S
  <2>1. ordinal[s] \in Nat /\ ordinal[s] # 0 /\ ordinal[s] < NextOrdinal(q) /\ NextOrdinal(q) \in Nat
    BY <1>1, <1>2, NextOrdinalFacts DEF Numbered
  <2> QED BY <2>1
<1>4. f \in Injection(S, 1 .. n)
  <2>1. \A s, t \in S : ordinal[s] = ordinal[t] => s = t
    BY <1>1, <1>2, <1>3 DEF Numbered
  <2> HIDE DEF S, n
  <2> QED BY <1>3, <2>1 DEF Injection, IsInjective
<1>5. IsFiniteSet(1 .. n) /\ Cardinality(1 .. n) = n
  <2> HIDE DEF n
  <2> QED BY <1>1, FS_Interval
<1>6. Cardinality(S) <= n /\ Cardinality(S) \in Nat
  <2>1. IsFiniteSet(S)
    <3>1. S \in SUBSET Requests
      BY DEF Ledger!Spent
    <3> QED BY <3>1, ConstantsAssumption, FS_Subset
  <2>2. Cardinality(S) <= Cardinality(1 .. n)
    <3> HIDE DEF S, f, n
    <3> QED BY <1>4, <1>5, FS_Injection
  <2> HIDE DEF S, n
  <2> QED BY <1>5, <2>1, <2>2, FS_CardinalityType
<1> HIDE DEF S, n
<1> QED
  BY <1>1, <1>6 DEF S

\* A reservation in the account is one in the ledger.
LEMMA ReservingImplements ==
  ASSUME Types, Numbered, Balanced, [Next]_vars, NEW q \in Requests, Reserving(q)
  PROVE  Ledger!Reserve(q)
<1>1. NextOrdinal(q) <= MaximumRequests
  <2>1. state'[q] = "reserved" /\ state[q] = "absent"
    BY DEF Reserving, Types
  <2>2. PICK s \in Requests : state[s] = "absent" /\ Numbering(s)
    BY <2>1, NumberCases DEF Unnumbering
  <2>3. s = q
    BY <2>1, <2>2 DEF Numbering, Types
  <2> QED BY <2>2, <2>3 DEF Numbering
<1>2. Ledger!Cardinality(Ledger!Spent(RunOf[q])) < MaximumRequests
  <2>1. \A S : Ledger!Cardinality(S) = Cardinality(S)
    BY Zenon DEF Ledger!Cardinality, Cardinality
  <2> QED BY <1>1, <2>1, OrdinalsCount
<1>3. Ledger!SumFunction([s \in Requests |-> Ledger!Committed(s)]) + Ledger!Bound(q) <= Authorized
  <2>1. Ledger!Bound(q) = Maximum(q)
    BY DEF Ledger!Bound, Maximum
  <2>2. reserved + settled + Maximum(q) <= Authorized
    BY DEF Reserving, FundsAvailable
  <2> QED BY <2>1, <2>2, CountersAreCommitted
<1>4. /\ state[q] = "absent"
      /\ state' = [state EXCEPT ![q] = "reserved"]
      /\ UNCHANGED <<response, charged, sent>>
  BY DEF Reserving
<1> QED
  BY <1>2, <1>3, <1>4, Zenon DEF Ledger!Reserve

\* Every step of the calls is a step of the ledger or none.
LEMMA LedgerStep ==
  DispatchInv /\ AnsweredOut /\ Numbered /\ Balanced /\ [Next]_vars
    => [Ledger!Next]_(Ledger!ledgerVars)
<1> SUFFICES ASSUME DispatchInv, AnsweredOut, Numbered, Balanced, [Next]_vars
             PROVE  Ledger!Next \/ UNCHANGED Ledger!ledgerVars
  BY Zenon
<1> USE DEF DispatchInv
<1>1. CASE Quiet
  BY <1>1 DEF Quiet, Ledger!ledgerVars
<1>2. ASSUME NEW q \in Requests, Reserving(q)
      PROVE  Ledger!Next
  BY <1>2, ReservingImplements DEF Ledger!Next
<1>3. ASSUME NEW q \in Requests, Releasing(q)
      PROVE  Ledger!Next
  BY <1>3 DEF Releasing, Ledger!Release, Ledger!Next
<1>4. ASSUME NEW c \in Callers, Starting(c)
      PROVE  Ledger!Next
  BY <1>4 DEF Starting, Ledger!Start, Ledger!Next
<1>5. ASSUME NEW c \in Callers, Dispatching(c)
      PROVE  Ledger!Next
  <2> DEFINE q == call[c].request
  <2>1. /\ q \in Requests
        /\ sent[q] = 0
        /\ state[q] \in {"request_started", "response_persisted", "settled"}
    BY <1>5 DEF Dispatching, HandedOver, OneOwner, OwnerPhases
  <2>2. state[q] # "response_persisted" /\ ~response[q]
    BY <2>1 DEF AnsweredOut
  <2>3. state[q] = "settled" => charged[q] = Ledger!Bound(q)
    BY <2>1, <2>2 DEF SettledFully, Ledger!Bound, Maximum
  <2>4. sent' = [sent EXCEPT ![q] = 1]
    BY <1>5, <2>1 DEF Dispatching, Types
  <2>5. Ledger!Send(q)
    BY <1>5, <2>1, <2>2, <2>3, <2>4 DEF Dispatching, Ledger!Send
  <2> QED BY <2>1, <2>5 DEF Ledger!Next
<1>6. ASSUME NEW c \in Callers, Answering(c)
      PROVE  Ledger!Next
  <2> DEFINE q == call[c].request
  <2>1. q \in Requests /\ sent[q] = 1
    BY <1>6 DEF Answering, AnsweredOut
  <2>2. Ledger!Answer(q)
    BY <1>6, <2>1 DEF Answering, Ledger!Answer
  <2> QED BY <2>1, <2>2 DEF Ledger!Next
<1>7. ASSUME NEW c \in Callers, Settling(c)
      PROVE  Ledger!Next
  <2> DEFINE q == call[c].request
  <2>1. q \in Requests /\ Ledger!Bound(q) = Maximum(q)
    BY <1>7 DEF Settling, Ledger!Bound, Maximum
  <2>2. PICK amount \in 0 .. Maximum(q) :
           (amount = Maximum(q) \/ pc[c] = "settling") /\ Settle(q, amount)
    BY <1>7 DEF Settling
  <2>3. pc[c] = "settling" => response[q]
    BY DEF SettledFully
  <2>4. Ledger!Pay(q, amount)
    BY <1>7, <2>1, <2>2, <2>3 DEF Settling, Settle, Ledger!Pay
  <2> QED BY <2>1, <2>2, <2>4 DEF Ledger!Next
<1> QED
  BY <1>1, <1>2, <1>3, <1>4, <1>5, <1>6, <1>7, StepCases

\* The calls implement the ledger (runGovernedLeafRequest over
\* reserveEconomicRequest, markEconomicRequestStarted, settleEconomicRequest): of
\* any number of calls for any requests, live, stale, duplicated or dead, no step
\* does to a request what RequestLedger does not allow, and the two counters and
\* the ordinals decide about a reservation as the whole ledger would.
THEOREM CallsImplementLedger == Spec => ImplementsLedger
<1>1. Init => Ledger!Init
  BY DEF Init, Ledger!Init
<1> QED
  BY <1>1, LedgerStep, AnsweredOutInvariant, DispatchInvariant, LedgerInvariant, PTL
  DEF Spec, ImplementsLedger, Ledger!Spec
=============================================================================
