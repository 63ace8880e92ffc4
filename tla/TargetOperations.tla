-------------------------- MODULE TargetOperations --------------------------
(***************************************************************************)
(* Target operations: how a run changes the shared workspace exactly once. *)
(*                                                                         *)
(* A mutation takes advisory locks in the database (shared on every        *)
(* ancestor, exclusive on its paths, in the order of their names), checks  *)
(* the receipts for conflicts, commits an intent with the state it found   *)
(* together with a budget reservation, changes the disk, and commits the   *)
(* receipt together with the budget charge.  A process may die between any *)
(* two of these steps; recovery takes the same locks, compares the disk    *)
(* with the intent and either confirms the effect, leaves the operation to *)
(* be executed again, or gives the run up.                                 *)
(*                                                                         *)
(* A worker is one asynchronous task of a server process: an execution or  *)
(* a recovery of a run, or a materialization that freezes the workspace.   *)
(* Directories are values of the disk; a renamed path is a file or an      *)
(* empty folder (no path below it is modelled).  File contents stand for   *)
(* texts that sanitizeSnapshotValue leaves as they are (one that it        *)
(* redacts never equals its stored image: always uncertain).               *)
(***************************************************************************)
EXTENDS Naturals, FiniteSets

CONSTANTS
    Runs,         \* rows of "runs"
    TicketOf,     \* the ticket of each run
    Permitted,    \* runs whose initiator may delete other tickets' artifacts
    Budget,       \* limit of the dimension workspace_operation of each run
    Ops,          \* operation keys
    Def,          \* run, rank within the run, kind, path, next path and value
    Paths,        \* paths of the workspace
    Root,         \* its root, locked by every mutation
    Ancestors,    \* proper ancestors of each path, the root included
    NameOrder,    \* localeCompare on resource names
    Values,       \* file contents
    Absent, Dir, Torn,   \* no file, a directory, a half-written file
    Workers,      \* asynchronous tasks of the deployment
    ProcessOf,    \* the server process each runs in, the owner of its leases
    NoWorker, Gone,      \* no lease owner; an owner that has crashed
    NoOp, NoRun,
    MaxFaults     \* bound: crashes, stalls, stops, timeouts, failed commits

Resources == Paths \cup {Root}
Contents  == Values \cup {Absent, Dir, Torn}
Kinds     == {"createFolder", "writeFile", "renamePath", "deletePath"}

ASSUME ConstantsAssumption ==
    /\ Root \notin Paths
    /\ {Absent, Dir, Torn} \cap Values = {}
    /\ Absent # Dir /\ Absent # Torn /\ Dir # Torn
    /\ Def \in [Ops -> [run : Runs, rank : Nat, kind : Kinds, path : Paths,
                        next : Paths, value : Values]]
    /\ Ancestors \in [Resources -> SUBSET Resources]
    /\ Ancestors[Root] = {}
    /\ \A p \in Paths : Root \in Ancestors[p] /\ p \notin Ancestors[p]
    /\ \A p \in Paths : \A q \in Ancestors[p] : Ancestors[q] \subseteq Ancestors[p]
    /\ \A o \in Ops, p \in Paths :
          Def[o].kind = "renamePath" => Def[o].path \notin Ancestors[p]
    /\ NameOrder \in [Resources -> Nat]
    /\ \A x, y \in Resources : NameOrder[x] = NameOrder[y] => x = y
    /\ Budget \in [Runs -> Nat]
    /\ IsFiniteSet(Workers) /\ Workers # {}
    /\ NoWorker \notin Workers /\ Gone \notin Workers /\ NoWorker # Gone
    /\ NoOp \notin Ops /\ NoRun \notin Runs
    /\ MaxFaults \in Nat

VARIABLES
    status,     \* runs.status: pending, running, interrupted or ended
    holder,     \* runs.lease_owner: the worker whose process claimed the run
    live,       \* runs.lease_expires_at > clock_timestamp()
    disk,       \* the workspace
    intent,     \* target_operation_intents: the state found, or "none"
    receipt,    \* operation_receipts: outcome
    charge,     \* run_budget_charges of the operation key
    mode,       \* what a worker does
    run,        \* the run it does it for
    todo,       \* the operations it has still to look at
    op,         \* the operation in hand
    pc,         \* how far it is with it
    outcome,    \* whether the operation in hand failed
    doubt,      \* a recovery met an uncertain effect
    held,       \* resources of the advisory locks its session has
    lost,       \* some session was lost under a working worker
    changes,    \* history: how often each operation changed the disk
    disturbed,  \* history: another operation has changed its paths since
    faults      \* faults so far

rowVars  == <<status, holder, live>>
dbVars   == <<intent, receipt, charge>>
diskVars == <<disk, changes, disturbed>>
workVars == <<mode, run, todo, op, pc, outcome, doubt, held>>
vars     == <<status, holder, live, disk, intent, receipt, charge, mode, run, todo,
              op, pc, outcome, doubt, held, lost, changes, disturbed, faults>>

-----------------------------------------------------------------------------
(* Paths and the disk *)

\* The paths an operation addresses; a materialization addresses the root.
Targets(o) == IF o = NoOp THEN {Root}
              ELSE IF Def[o].kind = "renamePath" THEN {Def[o].path, Def[o].next}
              ELSE {Def[o].path}

Overlap(x, y) == x = y \/ x \in Ancestors[y] \/ y \in Ancestors[x]

Exists(d, p)  == d[p] # Absent
TypeOf(v)     == IF v \in {Absent, Dir} THEN v ELSE Torn
Below(p)      == {q \in Paths : p \in Ancestors[q]}

WithParents(d, p) == [q \in Paths |-> IF q \in Ancestors[p] THEN Dir ELSE d[q]]
ParentsAllow(d, p) == \A q \in Ancestors[p] \ {Root} : d[q] \in {Absent, Dir}

\* What the workspace provider accepts (anything else is an error) ...
Feasible(o, d) ==
    LET a == Def[o].path
        b == Def[o].next
    IN CASE Def[o].kind = "createFolder" ->
                d[a] \in {Absent, Dir} /\ \A q \in Ancestors[a] \ {Root} : d[q] = Dir
         [] Def[o].kind = "writeFile"    -> d[a] # Dir /\ ParentsAllow(d, a)
         [] Def[o].kind = "renamePath"   ->
                d[a] # Absent /\ d[b] = Absent /\ ParentsAllow(d, b)
         [] OTHER                        -> TRUE

\* ... and what it does.
Effect(o, d) ==
    LET a == Def[o].path
        b == Def[o].next
    IN CASE Def[o].kind = "createFolder" -> [d EXCEPT ![a] = Dir]
         [] Def[o].kind = "writeFile"    -> [WithParents(d, a) EXCEPT ![a] = Def[o].value]
         [] Def[o].kind = "renamePath"   -> [WithParents(d, b) EXCEPT ![a] = Absent, ![b] = d[a]]
         [] OTHER                        -> [q \in Paths |-> IF q = a \/ q \in Below(a)
                                                                THEN Absent ELSE d[q]]

\* What it has done when its process dies inside the call: some of the missing
\* parents are there, from the top, of a path to be written or moved to; a file is
\* half written; some of a folder's entries are gone, from the bottom.
Upward(S)   == \A q \in S : Ancestors[q] \ {Root} \subseteq S
Downward(S) == \A q \in S : Below(q) \subseteq S
SomeParents(d, p) ==
    {[q \in Paths |-> IF q \in S THEN Dir ELSE d[q]] :
        S \in {T \in SUBSET (Ancestors[p] \ {Root}) : Upward(T)}}
SomeEntriesLess(d, p) ==
    {[q \in Paths |-> IF q \in S THEN Absent ELSE d[q]] :
        S \in {T \in SUBSET Below(p) : Downward(T)}}
PartialEffects(o, d) ==
    CASE Def[o].kind = "createFolder" -> {d}
      [] Def[o].kind = "writeFile"    -> SomeParents(d, Def[o].path)
                                            \cup {[Effect(o, d) EXCEPT ![Def[o].path] = Torn]}
      [] Def[o].kind = "renamePath"   -> SomeParents(d, Def[o].next)
      [] OTHER                        -> SomeEntriesLess(d, Def[o].path)

\* captureWorkspacePreState: content hashes of the written, moved or deleted file,
\* types of the others; a directory's entries are not part of it.
PreState(o, d) ==
    LET a == Def[o].path
        b == Def[o].next
    IN CASE Def[o].kind = "createFolder" -> <<TypeOf(d[a])>>
         [] Def[o].kind = "renamePath"   -> <<d[a], TypeOf(d[b])>>
         [] OTHER                        -> <<d[a]>>

\* classifyPreparedWorkspaceMutation, its test of the intended effect.  The state
\* captured for a rename has no content hash of the destination, so the hash of a
\* moved file is never found there: only a move of anything else is recognized.
EffectVisible(o, d) ==
    LET a == Def[o].path
        b == Def[o].next
    IN CASE Def[o].kind = "createFolder" -> d[a] = Dir
         [] Def[o].kind = "writeFile"    -> d[a] = Def[o].value
         [] Def[o].kind = "renamePath"   -> /\ d[a] = Absent
                                            /\ d[b] # Absent
                                            /\ \/ intent[o][1] = Absent
                                               \/ intent[o][1] = Dir /\ d[b] = Dir
         [] OTHER                        -> d[a] = Absent

ClassifyByChange(o) == IF PreState(o, disk) = intent[o] THEN "not_applied" ELSE "applied"
ClassifyRetrying(o) == IF EffectVisible(o, disk) THEN "applied" ELSE "not_applied"
Classify(o) ==
    IF PreState(o, disk) = intent[o] THEN "not_applied"
    ELSE IF EffectVisible(o, disk) THEN "applied" ELSE "uncertain"

-----------------------------------------------------------------------------
(* Advisory locks *)

\* buildWorkspaceLockRequests: exclusive on the paths, shared on their ancestors.
Exclusive(o) == Targets(o)
PathsOnly(o) == Targets(o)
LockRequests(o) == Targets(o) \cup UNION {Ancestors[x] : x \in Targets(o)}

Missing(w)  == LockRequests(op[w]) \ held[w]
NextInOwnOrder(w, x) ==
    /\ x \in Missing(w)
    /\ op[w] # NoOp /\ Def[op[w]].path \in Missing(w) => x = Def[op[w]].path
NextLock(w, x) == x \in Missing(w) /\ \A y \in Missing(w) : NameOrder[x] <= NameOrder[y]

\* w's lock on x and u's request for it exclude each other.
Conflicts(w, u, x) ==
    /\ x \in held[w]
    /\ x \in Exclusive(op[w]) \/ x \in Exclusive(op[u])

InSection(w) == pc[w] \in {"check", "prepare", "apply", "complete", "leave"}

-----------------------------------------------------------------------------
(* Receipts, ownership, budget *)

\* A lease is its process's: another of the process's workers passes its tests too.
SameProcess(w) == {u \in Workers : ProcessOf[u] = ProcessOf[w]}
HeldBy(w, r)   == holder[r] \in SameProcess(w) /\ live[r]

Succeeded(o) == receipt[o] = "succeeded"
RunOps(r)    == {o \in Ops : Def[o].run = r}
Ticket(o)    == TicketOf[Def[o].run]

\* findMutationConflict: another kind of mutation of the path by this run has a
\* receipt, but a file or folder the run made may be renamed.
Fingerprint(o) == <<Def[o].kind, Def[o].path, Def[o].next>>
MutationConflict(o) ==
    \E c \in RunOps(Def[o].run) :
        /\ receipt[c] # "none"
        /\ Def[c].path = Def[o].path
        /\ Fingerprint(c) # Fingerprint(o)
        /\ ~(Def[o].kind = "renamePath" /\ Def[c].kind \in {"writeFile", "createFolder"})

\* workspaceArtifactPath of a succeeded receipt.
Artifacts(o) ==
    CASE Def[o].kind = "deletePath" -> {}
      [] Def[o].kind = "renamePath" -> {Def[o].next}
      [] OTHER                      -> {Def[o].path}

\* isArtifactOwnerStale and ticketHasOwnedContentInDirectory.
OwnedContent(t, a) ==
    \E c \in Ops : /\ Succeeded(c)
                   /\ Ticket(c) = t
                   /\ \E x \in Artifacts(c) \cap Below(a) :
                         /\ Exists(disk, x)
                         /\ Def[c].kind = "createFolder" =>
                               \E y \in Below(x) : disk[y] \notin {Absent, Dir}
OwnerStale(c, a, o, overlap) ==
    \/ ~Exists(disk, a)
    \/ /\ disk[a] = Dir
       /\ \/ \A q \in Below(a) : ~Exists(disk, q)
          \/ ~(overlap /\ Def[o].kind = "deletePath") /\ ~OwnedContent(Ticket(c), a)

\* findLiveWorkspaceArtifactOwner: another ticket's succeeded receipt for x itself,
\* or with overlap for a path above or below it.
OtherOwner(o, x, overlap) ==
    \E c \in Ops :
        /\ Succeeded(c)
        /\ Ticket(c) # Ticket(o)
        /\ \E a \in Artifacts(c) : /\ IF overlap THEN Overlap(a, x) ELSE a = x
                                   /\ ~OwnerStale(c, a, o, overlap)

OwnershipRefusesExact(o) ==
    Def[o].kind \in {"createFolder", "writeFile"} /\ OtherOwner(o, Def[o].path, FALSE)
OwnershipRefuses(o) ==
    \/ Def[o].kind \in {"createFolder", "writeFile"} /\ OtherOwner(o, Def[o].path, FALSE)
    \/ /\ \E x \in Targets(o) : OtherOwner(o, x, TRUE)
       /\ ~(Def[o].kind = "deletePath" /\ Def[o].run \in Permitted)

\* reserveRunBudget has room for the operation, or has counted it already.
Charged(r) == {o \in RunOps(r) : charge[o] # "none"}
BudgetAllows(o) ==
    charge[o] # "none" \/ Cardinality(Charged(Def[o].run)) < Budget[Def[o].run]
Reserve(o) == IF charge[o] = "none" THEN [charge EXCEPT ![o] = "reserved"] ELSE charge

-----------------------------------------------------------------------------
Init ==
    /\ status = [r \in Runs |-> "pending"]
    /\ holder = [r \in Runs |-> NoWorker]
    /\ live = [r \in Runs |-> FALSE]
    /\ disk = [p \in Paths |-> Absent]
    /\ intent = [o \in Ops |-> <<>>]
    /\ receipt = [o \in Ops |-> "none"]
    /\ charge = [o \in Ops |-> "none"]
    /\ mode = [w \in Workers |-> "idle"]
    /\ run = [w \in Workers |-> NoRun]
    /\ todo = [w \in Workers |-> {}]
    /\ op = [w \in Workers |-> NoOp]
    /\ pc = [w \in Workers |-> "idle"]
    /\ outcome = [w \in Workers |-> "succeeded"]
    /\ doubt = [w \in Workers |-> FALSE]
    /\ held = [w \in Workers |-> {}]
    /\ lost = FALSE
    /\ changes = [o \in Ops |-> 0]
    /\ disturbed = [o \in Ops |-> FALSE]
    /\ faults = 0

Fault == faults < MaxFaults /\ faults' = faults + 1

Goto(w, to) == pc' = [pc EXCEPT ![w] = to]

\* finally: every lock of the section is returned.
Unlock(w) == held' = [held EXCEPT ![w] = {}]

ForgetWork(W) ==
    /\ mode' = [u \in Workers |-> IF u \in W THEN "idle" ELSE mode[u]]
    /\ run' = [u \in Workers |-> IF u \in W THEN NoRun ELSE run[u]]
    /\ todo' = [u \in Workers |-> IF u \in W THEN {} ELSE todo[u]]
    /\ op' = [u \in Workers |-> IF u \in W THEN NoOp ELSE op[u]]
    /\ pc' = [u \in Workers |-> IF u \in W THEN "idle" ELSE pc[u]]
    /\ outcome' = [u \in Workers |-> IF u \in W THEN "succeeded" ELSE outcome[u]]
    /\ doubt' = [u \in Workers |-> IF u \in W THEN FALSE ELSE doubt[u]]
    /\ held' = [u \in Workers |-> IF u \in W THEN {} ELSE held[u]]
BecomeIdle(w) == ForgetWork({w})

-----------------------------------------------------------------------------
(* Runs *)

TakeRun(w, r, m, ops) ==
    /\ holder' = [holder EXCEPT ![r] = w]
    /\ live' = [live EXCEPT ![r] = TRUE]
    /\ status' = [status EXCEPT ![r] = "running"]
    /\ mode' = [mode EXCEPT ![w] = m]
    /\ run' = [run EXCEPT ![w] = r]
    /\ todo' = [todo EXCEPT ![w] = ops]
    /\ Goto(w, "next")

\* The scheduler's tick recovers one run after the other and then claims; it claims
\* no run that the process still executes (isRunActiveInMemory), but recovers one.
Ticking(w)       == \A u \in SameProcess(w) : mode[u] # "recover"
Claimable(w, r)  == /\ status[r] = "pending"
                    /\ Ticking(w)
                    /\ \A u \in SameProcess(w) : ~(mode[u] = "execute" /\ run[u] = r)
Recoverable(r)   == status[r] = "running" /\ ~live[r]

\* A claimed run is executed from the first operation without a receipt.
claimPendingRun(w, r) ==
    /\ mode[w] = "idle"
    /\ Claimable(w, r)
    /\ TakeRun(w, r, "execute", {o \in RunOps(r) : receipt[o] = "none"})
    /\ UNCHANGED <<diskVars, dbVars, op, outcome, doubt, held, lost, faults>>

\* A recovery reads the workspace.operation_prepared events first.
claimRunRecovery(w, r) ==
    /\ mode[w] = "idle"
    /\ Recoverable(r) /\ Ticking(w)
    /\ TakeRun(w, r, "recover", {o \in RunOps(r) : intent[o] # <<>>})
    /\ UNCHANGED <<diskVars, dbVars, op, outcome, doubt, held, lost, faults>>

\* The run ends, or goes back to pending, if the worker still holds it.
EndRow(w, to) ==
    IF HeldBy(w, run[w]) /\ status[run[w]] = "running"
    THEN /\ status' = [status EXCEPT ![run[w]] = to]
         /\ holder' = [holder EXCEPT ![run[w]] = NoWorker]
         /\ live' = [live EXCEPT ![run[w]] = FALSE]
    ELSE UNCHANGED rowVars

\* The execution completed its operations, or one of them failed.
endExecution(w) ==
    /\ mode[w] = "execute"
    /\ pc[w] = "ending" \/ (pc[w] = "next" /\ todo[w] = {})
    /\ EndRow(w, "ended")
    /\ BecomeIdle(w)
    /\ UNCHANGED <<diskVars, dbVars, lost, faults>>

\* After reconcilePreparedTargetOperations: interrupted when some effect is
\* uncertain, otherwise resumed.
endRecovery(w) ==
    /\ mode[w] = "recover"
    /\ pc[w] = "ending" \/ (pc[w] = "next" /\ todo[w] = {})
    /\ EndRow(w, IF doubt[w] THEN "interrupted" ELSE "pending")
    /\ BecomeIdle(w)
    /\ UNCHANGED <<diskVars, dbVars, lost, faults>>

\* A lease expires: that of a dead worker in time, that of a working one when it
\* stalls.
expireLease(r) ==
    /\ live[r]
    /\ live' = [live EXCEPT ![r] = FALSE]
    /\ IF \E w \in Workers : holder[r] = w /\ run[w] = r THEN Fault ELSE UNCHANGED faults
    /\ UNCHANGED <<status, holder, diskVars, dbVars, workVars, lost>>

\* An operator interrupts the run.
stopAgentRun(r) ==
    /\ status[r] \in {"pending", "running"}
    /\ Fault
    /\ status' = [status EXCEPT ![r] = "interrupted"]
    /\ holder' = [holder EXCEPT ![r] = NoWorker]
    /\ live' = [live EXCEPT ![r] = FALSE]
    /\ UNCHANGED <<diskVars, dbVars, workVars, lost>>

-----------------------------------------------------------------------------
(* withTargetOperationLock *)

\* The next operation, in the order the model or the events gave.
nextOperation(w) ==
    /\ pc[w] = "next"
    /\ \E o \in todo[w] :
          /\ \A q \in todo[w] : Def[o].rank <= Def[q].rank
          /\ op' = [op EXCEPT ![w] = o]
          /\ todo' = [todo EXCEPT ![w] = @ \ {o}]
    /\ outcome' = [outcome EXCEPT ![w] = "succeeded"]
    /\ Goto(w, "lock")
    /\ UNCHANGED <<rowVars, diskVars, dbVars, mode, run, doubt, held, lost, faults>>

\* withWorkspaceMutationBoundary around a materialization.
beginMaterialization(w) ==
    /\ mode[w] = "idle"
    /\ mode' = [mode EXCEPT ![w] = "freeze"]
    /\ Goto(w, "lock")
    /\ UNCHANGED <<rowVars, diskVars, dbVars, run, todo, op, outcome, doubt, held, lost, faults>>

acquireLock(w) ==
    /\ pc[w] = "lock"
    /\ \E x \in Resources :
          /\ NextLock(w, x)
          /\ \A u \in Workers \ {w} : ~Conflicts(u, w, x)
          /\ held' = [held EXCEPT ![w] = @ \cup {x}]
          /\ Goto(w, IF Missing(w) = {x} THEN "check" ELSE "lock")
    /\ UNCHANGED <<rowVars, diskVars, dbVars, mode, run, todo, op, outcome, doubt, lost, faults>>

\* lock_timeout: the operation fails; a recovery or a materialization is given
\* up and leaves the run's lease to expire.
lockTimeout(w) ==
    /\ pc[w] = "lock"
    /\ Fault
    /\ IF mode[w] = "execute"
          THEN Unlock(w) /\ Goto(w, "failing") /\ UNCHANGED <<mode, run, todo, op, outcome, doubt>>
          ELSE BecomeIdle(w)
    /\ UNCHANGED <<rowVars, diskVars, dbVars, lost>>

leaveSection(w) ==
    /\ pc[w] = "leave"
    /\ Unlock(w)
    /\ op' = [op EXCEPT ![w] = NoOp]
    /\ IF mode[w] = "freeze"
          THEN mode' = [mode EXCEPT ![w] = "idle"] /\ Goto(w, "idle")
          ELSE UNCHANGED mode /\ Goto(w, "next")
    /\ UNCHANGED <<rowVars, diskVars, dbVars, run, todo, outcome, doubt, lost, faults>>

\* The snapshot is built while the boundary is held.
materialize(w) ==
    /\ mode[w] = "freeze"
    /\ pc[w] = "check"
    /\ Goto(w, "leave")
    /\ UNCHANGED <<rowVars, diskVars, dbVars, mode, run, todo, op, outcome, doubt, held, lost, faults>>

-----------------------------------------------------------------------------
(* The section: executeWorkspaceOperationUnlocked *)

\* An error leaves the section; the operation counts as attempted.
FailOperation(w) == Unlock(w) /\ Goto(w, "failing")

\* beginWorkspaceMutation of an operation some attempt has prepared: the disk
\* decides, and the lease is not looked at again.
ResumePrepared(w, o) ==
    /\ intent[o] # <<>>
    /\ charge' = Reserve(o)
    /\ CASE Classify(o) = "uncertain"   -> FailOperation(w)
         [] Classify(o) = "applied"     -> UNCHANGED held /\ Goto(w, "complete")
         [] Classify(o) = "not_applied" -> UNCHANGED held /\ Goto(w, "apply")

\* Interruption, conflict and ownership are tested before the operation's own
\* records are looked at.
beginWorkspaceMutation(w) ==
    LET o == op[w] IN
    /\ mode[w] = "execute"
    /\ pc[w] = "check"
    /\ IF status[Def[o].run] = "interrupted" \/ MutationConflict(o) \/ OwnershipRefuses(o)
       THEN FailOperation(w) /\ UNCHANGED charge
       ELSE \/ receipt[o] = "failed" /\ FailOperation(w) /\ UNCHANGED charge
            \/ receipt[o] = "succeeded" /\ Goto(w, "leave") /\ UNCHANGED <<held, charge>>
            \/ receipt[o] = "none" /\ ResumePrepared(w, o)
            \/ /\ receipt[o] = "none" /\ intent[o] = <<>>
               /\ Goto(w, "prepare")
               /\ UNCHANGED <<held, charge>>
    /\ UNCHANGED <<rowVars, diskVars, intent, receipt, mode, run, todo, op, outcome, doubt, lost, faults>>

PrepareAllowed(w, o) == HeldBy(w, Def[o].run) /\ status[Def[o].run] = "running"

\* prepareTargetOperationWithRunBudgetReservation: reservation and intent in one
\* transaction, under the live lease.  A refused budget is not charged.
PrepareRowsUncharged(w, o) ==
    /\ intent' = [intent EXCEPT ![o] = PreState(o, disk)]
    /\ UNCHANGED charge
PrepareRows(w, o) ==
    /\ intent' = [intent EXCEPT ![o] = PreState(o, disk)]
    /\ charge' = Reserve(o)

prepareTargetOperation(w) ==
    LET o == op[w] IN
    /\ pc[w] = "prepare"
    /\ IF ~BudgetAllows(o)
       THEN Unlock(w) /\ Goto(w, "ending") /\ UNCHANGED <<intent, charge>>
       ELSE IF ~PrepareAllowed(w, o)
       THEN FailOperation(w) /\ UNCHANGED <<intent, charge>>
       ELSE PrepareRows(w, o) /\ Goto(w, "apply") /\ UNCHANGED held
    /\ UNCHANGED <<rowVars, diskVars, receipt, mode, run, todo, op, outcome, doubt, lost, faults>>

\* The disk becomes d by operation o.  Its change counts when it is one of what the
\* operation addresses: parents that a dead attempt has left, or entries it has
\* taken from a folder, do not count.
ChangeDisk(o, d) ==
    /\ disk' = d
    /\ changes' = IF PreState(o, d) = PreState(o, disk) THEN changes
                  ELSE [changes EXCEPT ![o] = @ + 1]
    /\ disturbed' = [q \in Ops |->
          disturbed[q] \/ (q # o /\ changes[q] > 0 /\ PreState(q, d) # PreState(q, disk))]

\* The provider's call; an error is recorded as the operation's outcome.
applyEffect(w) ==
    LET o == op[w] IN
    /\ pc[w] = "apply"
    /\ IF Feasible(o, disk)
       THEN ChangeDisk(o, Effect(o, disk)) /\ UNCHANGED outcome
       ELSE outcome' = [outcome EXCEPT ![w] = "failed"] /\ UNCHANGED diskVars
    /\ Goto(w, "complete")
    /\ UNCHANGED <<rowVars, dbVars, mode, run, todo, op, doubt, held, lost, faults>>

\* completeTargetOperationWithRunBudgetCommit: the receipt once, and the charge;
\* no lease is tested.
CompleteRows(w, o) ==
    /\ receipt' = IF receipt[o] = "none" THEN [receipt EXCEPT ![o] = outcome[w]] ELSE receipt
    /\ charge' = [charge EXCEPT ![o] = "committed"]

completeTargetOperation(w) ==
    LET o == op[w] IN
    /\ pc[w] = "complete"
    /\ IF charge[o] = "none"
       THEN Unlock(w) /\ Goto(w, "ending") /\ UNCHANGED <<receipt, charge>>
       ELSE /\ CompleteRows(w, o)
            /\ IF outcome[w] = "failed" THEN Unlock(w) /\ Goto(w, "ending")
                                        ELSE UNCHANGED held /\ Goto(w, "leave")
    /\ UNCHANGED <<rowVars, diskVars, intent, mode, run, todo, op, outcome, doubt, lost, faults>>

\* The transaction fails: the reservation is left for recovery, an execution
\* ends its run and a recovery is given up.
failCompletion(w) ==
    /\ pc[w] = "complete"
    /\ Fault
    /\ IF mode[w] = "execute"
          THEN Unlock(w) /\ Goto(w, "ending") /\ UNCHANGED <<mode, run, todo, op, outcome, doubt>>
          ELSE BecomeIdle(w)
    /\ UNCHANGED <<rowVars, diskVars, dbVars, lost>>

\* executeBudgeted's catch: the attempted operation is charged if the budget
\* allows it.
chargeFailedOperation(w) ==
    /\ pc[w] = "failing"
    /\ charge' = IF BudgetAllows(op[w]) THEN [charge EXCEPT ![op[w]] = "committed"] ELSE charge
    /\ Goto(w, "ending")
    /\ UNCHANGED <<rowVars, diskVars, intent, receipt, mode, run, todo, op, outcome, doubt, held, lost, faults>>

\* reconcilePreparedTargetOperation: what recovery makes of one intent.
reconcilePreparedTargetOperation(w) ==
    LET o == op[w] IN
    /\ mode[w] = "recover"
    /\ pc[w] = "check"
    /\ \/ receipt[o] # "none" /\ Goto(w, "leave") /\ UNCHANGED doubt
       \/ /\ receipt[o] = "none"
          /\ CASE Classify(o) = "uncertain"   -> Goto(w, "leave") /\ doubt' = [doubt EXCEPT ![w] = TRUE]
               [] Classify(o) = "applied"     -> Goto(w, "complete") /\ UNCHANGED doubt
               [] Classify(o) = "not_applied" -> Goto(w, "leave") /\ UNCHANGED doubt
    /\ UNCHANGED <<rowVars, diskVars, dbVars, mode, run, todo, op, outcome, held, lost, faults>>

-----------------------------------------------------------------------------
(* Faults *)

\* The worker's process dies, with every worker in it; the database ends their
\* sessions and returns their locks.  A provider's call it was in may be left half done.
crash(w) ==
    /\ mode[w] # "idle"
    /\ Fault
    /\ holder' = [r \in Runs |-> IF holder[r] \in SameProcess(w) THEN Gone ELSE holder[r]]
    /\ \/ UNCHANGED diskVars
       \/ /\ pc[w] = "apply"
          /\ Feasible(op[w], disk)
          /\ \E d \in PartialEffects(op[w], disk) : ChangeDisk(op[w], d)
    /\ ForgetWork(SameProcess(w))
    /\ UNCHANGED <<status, live, dbVars, lost>>

\* The lock's connection breaks and the worker goes on: nothing tells it that its
\* locks are gone.
loseSession(w) ==
    /\ pc[w] \in {"prepare", "apply", "complete"}
    /\ Fault
    /\ Unlock(w)
    /\ lost' = TRUE
    /\ UNCHANGED <<rowVars, diskVars, dbVars, mode, run, todo, op, pc, outcome, doubt>>

-----------------------------------------------------------------------------
allSettled ==
    /\ \A r \in Runs : status[r] \in {"ended", "interrupted"}
    /\ UNCHANGED vars

Next ==
    \/ \E w \in Workers :
          \/ \E r \in Runs : claimPendingRun(w, r) \/ claimRunRecovery(w, r)
          \/ endExecution(w)
          \/ endRecovery(w)
          \/ nextOperation(w)
          \/ beginMaterialization(w)
          \/ acquireLock(w)
          \/ lockTimeout(w)
          \/ leaveSection(w)
          \/ materialize(w)
          \/ beginWorkspaceMutation(w)
          \/ prepareTargetOperation(w)
          \/ applyEffect(w)
          \/ completeTargetOperation(w)
          \/ failCompletion(w)
          \/ chargeFailedOperation(w)
          \/ reconcilePreparedTargetOperation(w)
          \/ crash(w)
          \/ loseSession(w)
    \/ \E r \in Runs : expireLease(r) \/ stopAgentRun(r)
    \/ allSettled

Spec == Init /\ [][Next]_vars

\* The next lock of a waiting worker is free.
Grantable(w) ==
    /\ pc[w] = "lock"
    /\ \E x \in Resources : NextLock(w, x) /\ \A u \in Workers \ {w} : ~Conflicts(u, w, x)

\* A worker is held up by a lock another has, or by having nothing to do.
HeldUp(w) ==
    IF mode[w] = "idle"
    THEN \A r \in Runs : ~Claimable(w, r) /\ ~(Recoverable(r) /\ Ticking(w))
    ELSE pc[w] = "lock" /\ ~Grantable(w)

-----------------------------------------------------------------------------
(* Properties *)

\* The variables have their types, and only a worker in its section or on the way
\* into it has locks.
TypeOK ==
    /\ status \in [Runs -> {"pending", "running", "interrupted", "ended"}]
    /\ holder \in [Runs -> Workers \cup {NoWorker, Gone}]
    /\ live \in [Runs -> BOOLEAN]
    /\ disk \in [Paths -> Contents]
    /\ DOMAIN intent = Ops
    /\ receipt \in [Ops -> {"none", "succeeded", "failed"}]
    /\ charge \in [Ops -> {"none", "reserved", "committed"}]
    /\ mode \in [Workers -> {"idle", "execute", "recover", "freeze"}]
    /\ run \in [Workers -> Runs \cup {NoRun}]
    /\ todo \in [Workers -> SUBSET Ops]
    /\ op \in [Workers -> Ops \cup {NoOp}]
    /\ pc \in [Workers -> {"idle", "next", "lock", "check", "prepare", "apply",
                           "complete", "leave", "failing", "ending"}]
    /\ outcome \in [Workers -> {"succeeded", "failed"}]
    /\ doubt \in [Workers -> BOOLEAN]
    /\ held \in [Workers -> SUBSET Resources]
    /\ lost \in BOOLEAN
    /\ changes \in [Ops -> Nat]
    /\ disturbed \in [Ops -> BOOLEAN]
    /\ faults \in 0..MaxFaults
    /\ \A w \in Workers : held[w] # {} => pc[w] = "lock" \/ InSection(w)

\* Two workers are never inside sections whose paths are equal or one above the
\* other, in particular nobody changes the workspace while it is materialized
\* (unless a lock session was lost under a worker).
SectionsDisjoint ==
    ~lost =>
        \A w, u \in Workers :
            w # u /\ InSection(w) /\ InSection(u) =>
                \A x \in Targets(op[w]), y \in Targets(op[u]) : ~Overlap(x, y)

\* An operation changes what it addresses once, through crashes inside and after
\* the provider's call, stalled executions and re-executions, unless another
\* operation changed the same paths in between or a lock session was lost.  (What a
\* dead attempt has begun without reaching it, parent folders or a part of the
\* entries of a folder, is found not applied, and the next attempt finishes it.)
EffectOnce ==
    \A o \in Ops : changes[o] > 1 => disturbed[o] \/ lost

\* Every prepared operation has its budget charge and every receipt a committed
\* one, so that recovery's completion of an intent is never refused; the charges
\* never exceed the run's limit.
ChargesFollowIntents ==
    /\ \A o \in Ops : /\ intent[o] # <<>> => charge[o] # "none"
                      /\ receipt[o] # "none" => intent[o] # <<>> /\ charge[o] = "committed"
    /\ \A r \in Runs : Cardinality(Charged(r)) <= Budget[r]

\* The disk is as the operation leaves it: what preparation found at the source of
\* a rename is at its destination (a rename prepared without a source is confirmed
\* by whatever has come to its destination since).
Done(o, d) ==
    IF Def[o].kind # "renamePath" THEN EffectVisible(o, d)
    ELSE /\ d[Def[o].path] = Absent
         /\ d[Def[o].next] # Absent
         /\ intent[o][1] # Absent => d[Def[o].next] = intent[o][1]

\* A receipt that says "succeeded" is written while the disk shows the effect,
\* whoever writes it: the execution, a late one, or recovery.
ReceiptMatchesDisk ==
    [][\A o \in Ops : receipt[o] = "none" /\ receipt'[o] = "succeeded" =>
          Done(o, disk) \/ lost]_vars

\* An artifact on the disk that another ticket's receipt accounts for is changed
\* only by that ticket or under the cross-ticket permission.
ArtifactsProtected ==
    [][\A c \in Ops, a \in Paths :
          /\ Succeeded(c)
          /\ a \in Artifacts(c)
          /\ disk[a] \notin {Absent, Dir}
          /\ disk'[a] # disk[a]
          => \E w \in Workers :
                /\ pc[w] = "apply" /\ pc'[w] # "apply"
                /\ Ticket(op[w]) = Ticket(c) \/ Def[op[w]].run \in Permitted \/ lost]_vars

\* Nobody is left waiting: while a run is pending or running some worker is not held
\* up, or the run has the lease of nobody at work, which will expire.  No cycle of
\* lock requests, no lock, lease or intent of a dead worker holds a run up for good.
NobodyStuck ==
    \A r \in Runs : status[r] \in {"pending", "running"} =>
        \/ \E w \in Workers : ~HeldUp(w)
        \/ live[r] /\ \A w \in Workers : run[w] # r
=============================================================================
