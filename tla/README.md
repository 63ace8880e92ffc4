# Ticket system: TLA+ models, checks and proofs

The repository is a ticket system whose work is done by agents. A ticket is worked on in *attempts*; an attempt is a
batch of *runs*; a run is executed by a server process that calls a model provider and applies the operations the model
asks for to a workspace. All durable state is in PostgreSQL (`persistence/postgres/store.js`); several server processes
(`server.js`) may share one database, and any of them may stall or die at any moment. Nearly all of the code that is hard
to get right is about that: who may act on a row, what a process may still do with what it read before an `await`, and
what has to happen after a process died half way.

The models keep the control of that code and abstract its data. They are checked by TLC on small instances, and the
main results are proved by TLAPS for every value of the constants.

- [Inventory](#inventory)
- [Modules](#modules)
- [Runs](#runs)
- [Fairness](#fairness)
- [Proofs](#proofs)
- [Where the code and its documentation disagree](#where-the-code-and-its-documentation-disagree)
- [What is not modelled](#what-is-not-modelled)
- [Plan](#plan)

## Inventory

### Components

| Component | State it keeps | Operations | Model |
|---|---|---|---|
| Run leases, claims, recovery (`store.js` 9376–9520, 14362–14606; `server.js` 9150–9330, 13303–13330) | `runs.status`, `lease_owner`, `lease_expires_at`; in memory: runs being started or executed | claim, start, heartbeat, release, recovery claim, resume | `RunLease` |
| Run terminalization (`store.js` 11780–11960, 12500–12620; `server.js` 15188–15420) | terminal status, finalized replay, `run.terminalized` event | complete, fail, interrupt, integrity path | `RunLease` |
| Ticket attempts and lifecycle projection (`store.js` 6800–7700, 9950–10660; `runtime/ticket-*-contract.js`, `runtime/ticket-blocking-authority-composer.js`) | `tickets.status`, cancellation authority, triage, attempt limit, `ticket_attempts.disposition` | admit, settle, block, resolve triage, change the limit, cancel, reconcile on startup | `TicketLifecycle` |
| Economic accounting of leaf requests (`store.js` 3874–4794, 5160–5438; `runtime/governed-leaf-orchestration.js`, `runtime/governed-provider-transport.js`) | account balances, reservation states | reserve, start, dispatch, persist response, settle, release | `GovernedRequests` |
| Planner requests (`runtime/governed-planner-orchestration.js`) | a second account and planning attempts | the same five transitions, tied to a planning attempt | planned |
| Runtime capacity and budgets (`runtime-budget-methods.js`, `runtime/runtime-budget-controller.js`) | slots of shared resources, waits, per run ledger of reserved and committed units | acquire, renew, release and reclaim slots; reserve and commit units | slots and waits: `RuntimeCapacity`; the units of workspace operations: `TargetOperations`; provider calls, bytes and durations: planned |
| Event journal (`store.js` 11960 ff.) | hash chain per scope | append inside every transaction | planned |
| Target operations and workspace locks (`store.js` 13202–13729, 14297–14360; `server.js` 1355–1446, 9273–9420, 20059–20431, 21788–22496) | intents, receipts, charges, advisory locks on paths, the files | lock, check, prepare, apply, complete, reconcile, materialize | `TargetOperations` |
| Process execution (`runtime/process-execution-controller.js`, `store.js` 13805–14111, `native/process-launcher/src/operation_registry.rs`) | `process_operations`, terminal evidence, output artifacts; the launcher's own registry | execute, reconcile, cancel; accept, start, end, acknowledge, interrupt on restart | `ProcessExecution` |
| Scheduler, runner, mutation admission (`runtime/scheduler.js`, `runner.js`, `mutation-admission.js`) | queues and slots in memory | tick, select, dispatch | the tick's steps, in `RunLease` |
| Structured allocation and leaf runs | allocation plans, leaf bindings | admit leaves once, aggregate | the admission rule, in `TicketLifecycle` |
| Process templates and trigger scheduler (`store.js` 8548–8870, `runtime/template-scheduler.js`, `server.js` 4451–4501, 30089–30223, 35197–35227) | templates, versions, schedules, trigger tokens | create, enable, schedule, pause, resume, draft, activate, trigger, tick | `TemplateTriggers` |
| Delegated release, objective revisions, operator recovery | their own rows | release, revise, decide | planned or not modelled |
| Watchers, connectors, catalogs, API tokens, sessions | catalog rows | CRUD behind a row revision | not modelled |
| Browser engine, materializer, views, migrations, scripts | – | I/O, rendering, one-off | not modelled |

### How they interact

A scheduler tick of a process first recovers (`expireStaleRunLeases`: `claimRunRecovery`, then resume or end), then
claims pending runs. A claimed run is executed by `runAgentTicket` in the same process; the loop calls the provider (for
structured leaf runs through `runGovernedLeafRequest`) and applies operations (an intent before the effect, a receipt
after it): to files under path locks, to a browser or a process target inside slots of limited resources, the latter
through a native launcher with a registry of its own. It ends the run in one transaction, `terminalizeRun`, and then, in a second one, settles the ticket's attempt
(`transitionTicketAfterRun`) and may ask for a retry, which is again an admission. Operators act through HTTP on any
process: stop a run, rerun or release or cancel a ticket, change its attempt limit, resolve its triage. Tickets are
made by people or of templates, by a trigger or by a schedule that every process ticks over. Processes communicate only
through the database, the workspace and the launcher.

### What is hard

- *State read before an `await` and used after it.* Terminalization reads the run, prepares evidence, and commits later
  with the status and ownership it read; an admission freezes the attempt limit in its drafts; a governed call carries
  the claim it read on entry.
- *Stale executors.* A lease may expire under a process that still works. The run is recovered and executed elsewhere;
  everything the old process does from then on must be harmless.
- *Crashes between two transactions.* Between the claim and the start, an intent and its receipt, the end of a run and
  the settlement of its attempt, a reservation and its start, the start and the dispatch.
- *Projections.* `tickets.status` is written by eight operations, and each of them must land on what the durable facts say.
- *Shared limits.* Slots, serial siblings, attempts, requests and money, each tested by one transaction and used by another.
- *Effects outside the database.* A file is changed or a command started between two transactions; what is on the disk
  or in the launcher's registry has to be brought into agreement with the rows after a death in between.
- *Clocks.* Leases expire by the database's clock; schedules are listed by the process's clock (`template-scheduler.js:29`) and
  advanced by the database's (`store.js:8821`).

`PROJECT.json` lists the hazards at their lines with the properties that would catch them.

## Modules

```
RunCustody    (abstract)  implemented by RunLease
RunStanding   (abstract)  implemented by RunLease, TargetOperations, RuntimeCapacity; GovernedRequests is built over it
RequestLedger (abstract)  implemented by GovernedRequests
RunLease          <- MCRunLease,          RunLeaseProofs <- RunConcurrencyProofs
TicketLifecycle   <- MCTicketLifecycle,   TicketLifecycleProofs
GovernedRequests  <- MCGovernedRequests,  GovernedRequestsProofs
TargetOperations  <- MCTargetOperations,  TargetOperationsProofs
RuntimeCapacity   <- MCRuntimeCapacity,   RuntimeCapacityProofs
ProcessExecution  <- MCProcessExecution,  ProcessExecutionProofs
TemplateTriggers  <- MCTemplateTriggers,  TemplateTriggersProofs
```

Each base module has its state as VARIABLES named after columns and in-memory maps, and one action per store method or
handler step, with the name of the method. A store method is one transaction and one action. The exception is
`markEconomicRequestStarted`, which runs under READ COMMITTED without a lock on the run and is split between its two
statements (`checkClaim`, `markEconomicRequestStarted`). What a process does between two transactions is a step of its
own. The definition written immediately before a definition it resembles (`CapacityOffByOne` before
`CapacityAvailable`) is a mutant of it, used by nothing in the specification.

The modules look at one system from several sides. `TicketLifecycle` keeps of a run only its outcome, `GovernedRequests`
only its claim and lease, `RuntimeCapacity` and `TargetOperations` a row that is claimed, recovered and ended. What they
assume of runs is written down in two abstract modules. `RunCustody` says who may act (one custodian, taken from nobody only;
an end is final unless the evidence is damaged) and `RunStanding` how a run moves as seen from outside (free, held, lapsed,
ended). `RunLease` establishes both. `GovernedRequests` uses the actions of `RunStanding` for its runs, so it assumes nothing of them that `RunLease` does not establish;
the rows of `TargetOperations` and `RuntimeCapacity`, which claim and start a run in one step, are shown to make no move that
`RunStanding` does not allow. A stale process may go on executing in all of them.

### RunCustody

What the other components may assume of a run: it is in the custody of one process or of nobody, custody is never taken
from its holder, only the custodian completes the run, an end is final except that a damaged run is condemned once. Six
actions over three variables, without leases, clocks, recoveries or processes' memory. `RunLease!ImplementsCustody` is the
refinement: the holder is the lease owner while the lease is live, and a run is condemned once its integrity failure is
recorded.

### RunStanding

A run is free (pending and in nobody's hands), held under a live lease, lapsed (running without one) or ended; `After` says
where it may go from where it stands. A free run is held only by a claim, a lapsed one only by a recovery, and an ended run stays
ended. The distinction matters to accounting, where a claim appends `run.lease_acquired` and a recovery does not: a request
started under an earlier claim is told from a present one by that event. `RunLease!ImplementsStanding` adds that a claim in this sense is a
step of `claimPendingRun`.

### RequestLedger

What the account promises about provider requests, without calls, claims, leases, ordinals or counters: a request is reserved
when the sum of what is committed leaves room for its maximum and its run has reservations left, released ones counted; it is started, goes
out at most once, is answered, and is paid once, below its maximum only if its answer is on record. `Send` allows a request
that is already paid to go out, if it was paid in full: a call that lost the start may settle before the winner dispatches.
`GovernedRequests!ImplementsLedger` is the refinement.

### RunLease

Runs × processes. A row has `status`, `owner` and `lease`, where time is reduced to the only comparison the code makes:
a lease is live or expired at the database's clock. `exec[r][p]` is where `runAgentTicket(r)` stands in process `p`,
`prep[r][p]` what `commitRunTerminalization` carries from its read to its commit, `rec[p]` the run the tick of `p` is
recovering.

- *Claim*: `claimPendingRun` with the two capacity counts and the sibling test, which one advisory lock covers;
  `startClaimedRun`/`skipClaimedRun`; `releaseRunLease` when a start fails.
- *Execution*: target operations (`prepareTargetOperation` under a live lease, `completeTargetOperation` without one),
  lost leases (`loseRunLease`), `stopForRecovery`, damage of the stored replay (`corruptReplay`).
- *End*: `completeAgentRun`, `failAgentRun`, `stopAgentRun` read the run and prepare; `terminalizeRun` commits under
  `TransitionAllowed`, evaluated at commit time, or `refuseTerminalization`. The integrity path
  (`terminalizeRunForReplayIntegrityFailure`) tests only for another process's lease.
- *Recovery*: `claimRunRecovery`, `reconcilePreparedTargetOperations`, `resumeRecoveredRun`, `endRecoveredRun`.
- *Environment*: `expireLease` (a stall when the lease's holder is at work), `crash`.

`repairRecoveredRunTerminalProjection` and its relatives look for a terminal event without a terminal row. The
events are written in the transaction that writes the row, so that state is unreachable (`TerminalEvidence`) and these
branches have no action. The process's own clock (`isRunLeaseExpired`) may disagree with the database's and is a free choice.

### TicketLifecycle

One ticket (tickets do not share state here) of any of three shapes: plain, a held child of a plan, structured. Attempts
are numbered; `run[m][a]` is the run of agent `a` in attempt `m`, `disp[m]` the disposition, `work[m][a]` what the
process that ended the run has yet to do, `req[q]` an admission request between its reads and its commit.

`Compose` is the precedence of the blocking-authority composer and `Lifecycle` the five-state projection, written as
functions of the facts they read. Admission requests are prepared (`createRunsForTicket`, `rerunTicketFromBeginning`,
`releaseTicketAdmission`, `runAutoRetryAfterFailure`) and later committed, refused, or turned into a block
(`createRunsAndStartTicket`, `refuseAdmission`, `blockTicket`). Runs end (`terminalizeRun`, the integrity path);
`finalizeTicketForRun` or, after a crash (`loseWork`), `reconcileUnfinalizedTicketsOnStartup` settles. Operators change the
limit, resolve the triage, cancel.

A run that had completed when the integrity path rewrote its row keeps its completion decision, which the row then
contradicts (`contradicted`). An attempt with such a run has no provable outcome: its settlement throws (`SettlementThrows`), and so
does a cancellation of the ticket.

Left out: the leaf aggregate that gates the completion of structured tickets (its verdict is part of a run's outcome),
the retired PATCH route for the status, `reopenTicket`, which nothing calls. The batch a commit admits is any nonempty set of
agents, a superset of what the drafts allow.

### GovernedRequests

The calls of `runGovernedLeafRequest` in flight, over the leaf runs of one ticket that share the worker account. `pc[c]`
is where a call stands, `call[c]` what it carries. `prepareAndReserve` reserves or re-reports under the locks of run and
account; the state found decides (`ContinueFrom`): start, observe, settle a response, nothing. One call wins
`markEconomicRequestStarted`; a call that loses reads again and observes. The owner dispatches, persists the response and
settles what was metered; a failure, or a request found abandoned, is settled at the reserved maximum. A call may die at
any point (`abandon`). The run moves as `RunStanding` allows (`claimPendingRun` for a claim, `leaseStep` for every other move).

Any call may be for any logical request at any time after the first claim: a superset of what worker loops do. How a
started request of an earlier claim is *named* in the outcome (in flight, uncertain) changes nothing durable and is left out.

### TargetOperations

Workers (the asynchronous tasks of the processes: an execution or a recovery of a run, or a materialization that freezes
the workspace) over a small tree of paths. A worker takes its locks one by one in the order of their names (`acquireLock`, which
may time out), and inside the section goes through `beginWorkspaceMutation` (conflicts, ownership of other tickets'
artifacts, what an earlier attempt left), `prepareTargetOperation` (intent and reservation in one transaction),
`applyEffect`, `completeTargetOperation` (receipt and charge in one transaction). A process may die anywhere, with all its
workers and inside the provider's call too (`PartialEffects`): that leaves a torn file, missing parents made without what was
to be put below them, or a folder without some of its entries. Recovery takes the same locks and `Classify` compares the disk with the intent:
not applied, applied, or uncertain. A lock session may be lost under a worker that goes on (`loseSession`).

A lease belongs to the process of a worker (`ProcessOf`): a stale execution whose process recovers or claims the run again passes the
lease tests once more (`HeldBy`). One tick works through the recoveries of a process before it claims (`Ticking`), and claims no
run the process still executes (`Claimable`).

Contents are opaque values that stand for texts `sanitizeSnapshotValue` leaves alone; directories have no hash. Symbolic links and
the provider's path checks are left out. `changes` and `disturbed` are history: how often an operation changed what it addresses (the
part of the disk that its pre-state captures) and whether another one changed that since. Parents made, or entries removed, by an
attempt that died before the change itself do not count: such an operation is found not applied and the next attempt finishes it, so
that part of the disk does change twice.

### RuntimeCapacity

An operation on a browser or process target takes one numbered slot of each resource it needs, outer first, inside its
run's lease (`beginOperation`, `acquireRuntimeCapacity`, `operation`, `releaseRuntimeCapacity`). An acquisition first
reclaims slots whose run or slot lease is gone (`Reclaimed`), then regrants a slot it has already, then refuses while another
leased run waits for the resource, then takes a free slot. A refused run records its wait and asks again
(`waitForCapacity`) or gives up. Releases may fail, processes crash, leases lapse, operators stop runs.

`rec[p]` is the run the tick of `p` is recovering, beside whatever `p` executes: nothing keeps a process from recovering the run it
still executes (`expireStaleRunLeases`), whose execution is then under a live lease again. `lost[r]` is history: the executions of `r` under
which its lease has expired. They may have lost their slots to others, and the properties are about the other executions.

### ProcessExecution

One operation identity, its row, its evidence and receipt, its published output and the launcher's record of it. A worker
is one call of the controller: an execution, a reconciliation, or a cancellation. `transitionProcessOperation` is every
write to the row, guarded by the revision the worker has seen; the steps of `reconcileLocked` follow the code one by one
from `getOperation` over `launch`, `markActive`, `observeTerminal`, `markFinalizing`, publication, binding, evidence,
receipt and close to `acknowledge`, and `enter` picks up wherever an earlier call stopped (`Route`). `cancelRunOperations`
sets the flag without the lock and then disposes under it. A call that waits for the lock too long gives up (`lockTimeout`). The launcher accepts an identity once, runs it, keeps the output until
it is acknowledged, and calls what it finds unfinished after its own restart interrupted. Answers may be lost and a
launch may take effect after the lock session broke (`launchUnlocked`).

### TemplateTriggers

Templates with their versions, schedule and triggers; every store method is one action under the row's lock. A tick
(`listDueProcessTemplates`, then `triggerDueScheduledTemplate` for each) runs in every process; manual requests carry a
client's token and may be retried. Tokens are one namespace, as in the code: a client's may be of its own (`Keys`) or that of a
slot (`SentSlots`). A trigger commits its ticket, and the runs are created afterwards (`startScheduledRuns`,
`startManualRuns`), with a crash possible in between. `now` is the database's clock; a process's own is off by up to
`Skew`. `armed` in a schedule is history: the version that was active when the slot was set.

## Runs

`cd tla; tlc -workers 2 -config <cfg> <module>`.

| Run | Instance | Checks |
|---|---|---|
| `safety` | 2 processes, 2 sibling runs of which one is serial and may have its replay damaged, 1 stall, 1 fault | rows agree with evidence, an executor that passes its lease check executes a running run, only the integrity path rewrites an ended run, siblings exclude each other, `RunLease` implements `RunCustody` (nobody takes a live lease, only its holder completes a run) and `RunStanding` (a recovery never takes a run that is pending) |
| `progress` | 2 runs, one on a local model, 1 slot, 1 stall, 1 fault | capacity at its limit; every run ends although stale executors are at work |
| `ticket_projection` | 2 agents, 2 attempts, plain and structured, a limit change, damage, a crash, no refusals | `status` is the projection of the facts; only unanimous completion completes; an attempt whose runs ended undamaged is settled |
| `ticket_races` | 2 requests in flight, 1 refusal, 2 changes, damage, all 3 shapes | what no step may do: settle over active runs, miss the projection, exceed the limit, act after a cancellation, start a held child without a release |
| `governed_requests` | 2 calls, 3 requests of 2 runs, one account, a reclaim | the account balances within its limit, one dispatch per request, money of a dispatched request is never given back, ordinals and ceilings; the whole implements `RequestLedger` |
| `target_operations` | 2 workers of 2 processes, 2 tickets, a folder with a file and a file beside it, 4 operations, 2 faults | sections on overlapping paths exclude each other; an effect happens once; a receipt says what the disk says; other tickets' artifacts survive; charges follow intents; nobody is stuck, in a cycle of lock requests or behind a dead worker |
| `runtime_capacity` | 2 processes, 2 runs, nested needs sharing one resource of one slot, 1 fault | the row of a slot says which execution uses it, so that it has one user among those that kept their runs' leases; a wait ends with the claim after it; a lone waiter is served |
| `process_execution` | 2 calls on one operation, 2 faults | the command starts at most once; the recorded result is the launcher's; output is removed only when it is kept; a cancellation settles |
| `template_triggers` | 2 processes with skewed clocks, 1 template, 2 versions, 1 manual token, that of a slot, 1 fault | a scheduled ticket is of the version its slot was armed with; scheduled tickets are an interval apart; a due slot is spent unless a manual trigger took a slot that is due; a retried trigger gets its runs |
| `corrupt_ends`, `completed_demoted`, `unsettled_integrity` | the smallest that shows it | a statement of the repository that the code does not keep (below) |

### Bounds, and why they are enough

Two processes give every pair of roles the code distinguishes: executor and recoverer, holder and claimant, stale and
current. A third adds another stale executor, which the first already is. One stall is needed for a stale executor at all
and one fault for a crash in each of the windows (the position of the fault is free). Two attempts give a predecessor and
a successor, limits 0 (unset) and 1 put the ceiling between them, and two requests are needed for a race between a
preparation and a commit. In `governed_requests` the reclaim is on the run with two requests; the sibling's larger
liability makes the account too small for both. Request ceilings are 1 so that the second request of a run meets them.
In `target_operations` one ticket writes a file into a folder and moves it out while the other deletes the folder and
moves the file back: every overlap of paths (same, above, below), both orders of two-path locks and every kind of verdict
occur; two faults allow a crash and a second one during its recovery, or a stall and a crash. Each
worker has a process of its own there; that a stale executor of the recovering process changes nothing about the properties is what
the theorems say, which hold for every `ProcessOf`. In `runtime_capacity` the
nested need and the plain one meet at the shared resource, whose one slot makes every second request wait; one fault is enough
for a stall after which the slot is reclaimed and the process recovers the run it still executes, and for a crash whose wait row stays. In
`process_execution` a third call adds no role: one holds the lock, the other waits for it or cancels without it. In
`template_triggers` an interval of 2 with a skew of 1 is the tightest the assumption allows, and time 3 holds a slot, a late
tick and the next slot; the client's one token is that of the first slot, and one used when no schedule has that slot acts like any other; `CandidateLimit = 1` with one template cannot show one template keeping another from the
list (below). What a bound could still hide is what the proofs are for: they hold for every value of these constants.

`SerialSiblingsExclusive` and `ConcurrencyBounded` say what they say of states before any lease expired under a working
process: a stale executor and its successor do execute at the same time until the next heartbeat, and a
recovery claim is subject to neither limit. `StatusProjected` holds only while no preparation ends by blocking the
ticket (`MaxRefusals = 0`): `blockTicket` writes over any status (see `completed_demoted`). `AdmissionWithinLimit` exempts a
ticket whose last attempt ended blocked, which outranks exhaustion in the composer. `SectionsDisjoint`, `EffectOnce`,
`ReceiptMatchesDisk`, `ArtifactsProtected` and the negative half of `ResultTruthful` exempt states in which a lock session was lost
under a worker: nothing tells the worker, and nothing in the code prevents what follows. `UsersOwnTheirSlots` asks that no
slot lease ran out under its user; the run takes `MaxLapses = 0`, so that the condition excludes nothing it reaches. It and `NoStaleWait` are
about executions that have had their run's lease without a break since the claim: one whose own process recovered the run is not among
them, and may use a slot another run owns. `UndamagedAttemptSettles` holds for `MaxRefusals = 0` and as long as no contradicted attempt of another
ticket stops the startup reconciliation. `DueSlotSpent` exempts schedules while a manual trigger has taken a due slot. These conditions are the code's.

Deadlock is checked for all modules but two. Where a system may stop, a stuttering step (`allSettled` in `RunLease`, `RuntimeCapacity`,
`TargetOperations` and `GovernedRequests`) marks the only states in which it may. A ticket may stop anywhere (it waits for people) and so may a template
(nothing is due, nobody asks), hence `CHECK_DEADLOCK FALSE` there.
Symmetry is used for processes, workers, agents, requests in flight and calls, and only in runs without liveness.

The type invariants of all modules, and `LiveLeaseNotTaken`,
`CompletionIsLeased`, `DispositionWriteOnce`, `VersionsAgree` and `TicketsMatchVersion`, are proved and not checked again by a run.

Every property of a passing run has a mutant: the definition the mutant replaces is changed the way a plausible bug would, and TLC then
finds the property violated.

## Fairness

`RunLease!FairSpec` asks for weak fairness of what a live process keeps being scheduled to do: the interval timer of the
scheduler claims and recovers, the event loop continues executions and terminalizations, and a lease nobody renews
expires. Nothing is asked of faults, stalls, operators or damage. Weak fairness is enough because each of these
steps, once due, stays due until it is taken or another process made it unnecessary. The model keeps one process alive:
a deployment that stays down does nothing.

`TicketLifecycle!FairSpec` asks that the process that ended a run goes on to settle (unless it dies) and that the startup
reconciliation runs after a crash: `server.js` calls it before it accepts work.

`RuntimeCapacity!FairSpec` asks weak fairness of the steps an execution takes by itself (ask, wait and ask again, work,
release), of claims and recoveries, and of the expiry of run and slot leases nobody renews. `ProcessExecution!FairSpec` asks weak
fairness of a call's own steps, strong fairness of the operation lock (PostgreSQL grants advisory locks in the order of the requests, so a
waiting call is not passed over for ever), that waits for it exceed `lock_timeout` only so often (two cancellations that time each
other out for ever would settle nothing), and strong fairness of cancellations (every tick of the scheduler and every startup makes
one while the operation is unfinished), and of the launcher that it starts what it accepted and that a cancelled
command ends; a command nobody cancels may run for ever. `TemplateTriggers!FairSpec` asks that the interval timer of each process ticks, that a request goes on
after its commit, and that a client repeats a trigger until its answer arrives, which is what the token is for.

## Proofs

TLAPS checks every proof to its leaves, from the named assumptions on the constants (types, that null values are not
members of the sets, and what the paragraphs below name), which TLC evaluates on every run.

**RunLeaseProofs.** `TypeCorrect`; `EvidenceMatchesRow`, `LiveLeaseSafe`, `CompletionNeedsLease`,
`OnlyIntegrityRewrites`, `StaleExecutionFenced`. `TerminalEvidence` is inductive together with the types: what makes it
so is that a terminal row is written by two actions only, each with its evidence. The action properties need to know what
processes remember: `ProcessState` says that a completion is prepared only by an execution, under the status it read, that the integrity
phase is entered only over a damaged replay, and that damage is not undone. `RowWriters` and `StatusWriters` list
the actions that can change a row, so that each theorem looks at those. `StaleExecutionFenced` rests on the fact that every step that takes a run out of
`running` clears the lease, and that a process whose execution of the run is not over does not claim it again.

The refinement is proved there too. `LeasesImplementCustody`: the initial states map to initial states, and each action is one of the
abstract ones or leaves the abstract variables alone. The interesting cases are those where a process acts on what it read
before: terminalization is an abstract `End` only because `TransitionAllowed` is evaluated at commit time, and the
integrity path is an abstract `Condemn` because another process's live lease stops it.

`LeasesGiveStanding` is the refinement of `RunStanding`. `WritersMove` goes through the eight actions that write a row; the standing is a function
of the row, so everything else stutters.

**RunConcurrencyProofs.** `SiblingsExclusive` and `CapacityHolds`. The claim counts rows, while the properties speak of
executions: `Fence` ties them together (before the first stall every working execution holds its run's live lease),
`WorkerAlive` keeps dead processes out of it, and then `SiblingsApart` and `WithinCapacity` are preserved, because a claim is the only
step that adds a working execution and the advisory lock lets it see all others. Cardinalities come from
`FiniteSetTheorems`.

**TicketLifecycleProofs.** `StepCases` reduces the sixteen actions to the few kinds of change to the ticket's facts. The inductive
invariant `LifecycleInv` is the conjunction of the types, `SettledAttemptIsDone`, `CancelMatches` (the status is canceled exactly
when the authority is), `HoldKeepsClosed` (a held child without an attempt is blocked or canceled), `OpenHasHeadroom` (an
open ticket has attempts left) and `CompletionProof` (why a completed disposition was given). Each is needed: an
automatic admission tests only that the ticket is open, so the limit and the hold are respected only because an open
ticket has headroom and a held one is not open. From it follow `SettledDone`, `CompletionProven`, `DispositionFinal`,
`CancellationFinal`, `HoldReleased`, `LimitHolds` and `StepsProject`. `StatusIsProjection` assumes `MaxRefusals = 0`, which
makes `NoRefusals` invariant; the projection is then preserved by each step.

**GovernedRequestsProofs.** `TypeCorrect`, `OneDispatch`, `DispatchPaid` and `NoOversubscription`. `DispatchInv` says that a request
has at most one owner and then has been started (`OneOwner`), that nothing was handed over before the start or before
the owner did (`HandedOver`), and that only a request with a response is settled below its maximum (`SettledFully`).
`OneOwner` is what the conditional update gives; it stays true when an owner dies because nobody can start the request
again. `NoOversubscription` needs that a settlement charges no more than it unreserves.

`AccountIsLedger` and `CeilingHolds` are about sums over the ledger. The module first proves what a sum over a finite set is
(`SumIsTotal`: the recursion behind `SumFunctionOnSet` has exactly one solution), that it changes by what its only changed
summand changes by (`SumChange`) and that a sum of zeros and ones counts the ones (`SumCounts`). The library's induction theorems are not
needed for that: `PartInduction` is induction over the parts of a finite set, stated for a set of parts instead of a predicate, and follows from the existence of a
least natural number (`LeastNatural`, from `WFMin`). `Balanced` adds to the equation that an unsettled request is not
charged, without which a settlement would not be inductive. `Numbered` says that a request has an ordinal exactly when the ledger knows it, and that ordinals of a run are
distinct and within the ceiling; the requests handed over then inject into the ordinals.

`CallsImplementLedger` puts these together: the calls implement `RequestLedger`. A reservation is an abstract one because the two counters
of the account together are the sum of what is committed (`CountersAreCommitted`, from `Balanced` and `SumAdds`), and because distinct ordinals within the ceiling leave a number
free only while fewer requests than that have been reserved (`OrdinalsCount`). A settlement below the maximum needs the answer on record, and an answer is recorded of a request that
went out: `AnsweredOut`, the one invariant that had to be added. A dispatch after somebody else's settlement is an abstract `Send` of a request paid in full (`SettledFully`).

**TemplateTriggersProofs.** `TypeCorrect`, `VersionsConsistent`, `TicketsTruthful`, `ScheduledVersionStable`, `NoCatchUp`, for
any number of templates, processes, intervals and ticks. The inductive invariant is `TypeOK`, `Agreement` (the row names the one active
version and carries its text), `Timing` (an armed slot lies an interval after every scheduled ticket made so far, and no slot
a tick has listed is further ahead of the clock than the skew) and `Results` (the properties of the triggers themselves). `Timing` is what `ScheduleSpaced` lacks to be inductive. The assumption
that an interval exceeds the skew is that of `MIN_SCHEDULE_EVERY_SECONDS`, a minute.

**TargetOperationsProofs.** `TypeCorrect`, `SectionsAreDisjoint`, `EffectsHappenOnce`, `ChargesAreComplete`, `ReceiptsMatchTheDisk`,
`ArtifactsAreProtected`, `LockWaitsEnd`, `NoRunIsHeldUp` and `RowsStand`, for any tree of paths, runs, operations, workers and faults. The inductive invariant says of each worker that its
phase fits its mode and its operation (`Control`), that in its section it has all its locks (`Locked`), and what it relies on there
(`Quiet`): before an intent is written there is none, before the effect is applied the disk is as the intent says and no
other ticket's file is in the way, before a receipt that says succeeded the disk shows the effect. Of the shared state it says that locks
two sessions hold are shared (`Apart`), that the disk is a tree, that charges are complete and finite in number, and that an operation that has changed the
disk left it different from what its intent recorded (`History`). The argument is one: `Apart` and `Locked` put the paths of two sections apart
(`LocksSeparate`), and an operation changes nothing that overlaps no path of its own (`Outcome`, one lemma per kind), so what
a worker in its section has found out is not disturbed (`OtherQuiet`). A process that dies inside a change leaves the disk a tree with the addressed paths
as they were or, for a write, torn, and only the latter is a change of the operation's own. Each of these conditions stops at the first lost lock session;
`ChargesAreComplete` does not.

`LockWaitsEnd` is about locks alone: a worker takes its locks in the order of their names
(`Ordered`), so of the waiting workers the one whose next lock comes last is held up only by a worker inside its section. `NoRunIsHeldUp` proves `NobodyStuck` from it: were all workers
held up, none of them would be waiting, so all would be idle; an idle worker has no run (`WithoutRun`), so the run that is neither pending nor recoverable has a lease nobody renews.
`RowsStand` shows that the module's runs move as `RunStanding` allows.

Besides the types, the constants are assumed to describe a tree (`Ancestors` is transitive and irreflexive, the root above everything), the names to be
distinct, the workers finite in number and not none, and no path to lie below the source of a rename: a renamed path is a file or an empty folder here.

**RuntimeCapacityProofs.** `TypeCorrect`, `SlotsAreBacked`, `NoWaitIsStale`, `SlotsAreExclusive` and `RowsStand` (its runs move as `RunStanding` allows), for any runs, processes, resources, needs
and limits. The inductive invariant has a part per execution (`Own`): it exists in a live process only; under its run's lease, if that never lapsed, and before the first
lapse of a slot lease under its user, every slot it counts as its own is a row in its name with a live lease; it has a wait row only while it asks, for the resource it
needs next and of which it has no slot yet. That is what makes an acquisition delete the right row. `EndedFree` (an ended run has no owner) keeps an end from being taken
for a custody. `Own` is kept by the other processes because nobody but its owner frees a slot whose leases are live. The owner's process could disturb it by a second
custody of the run, since it may recover the run it still executes; `Keeps` says that this execution is then one that has lost its lease (`lost`): until it does, or the run has ended, it
holds the lease and its process has no recovery of the run under way. What `Own` says holds of executions that kept their lease, and cannot hold of the others: a run
recovered by its own process may have lost its slots in between.
`SlotsAreExclusive` follows since a row has one owner.

**ProcessExecutionProofs.** `TypeCorrect`, `CommandStartedOnce`, `ResultsAreTruthful` and `OutputIsKept`, for any number of calls, crashes, lost answers and
lost sessions. `At` says what a call relies on at each of its steps: under the operation's lock what it has read still is the row, except for a cancellation, which is
requested without the lock; the states of the row and of the launcher's record at the step; that artifacts, evidence and receipt are there before the step after them. `Durable`
relates row, record, files, evidence and receipt between calls: an accepted launch has a record, a bound row has its files, an acknowledged record belongs to a terminal row.
`StartedOnce` rests on the launcher's record, which starts an operation once and remembers it, hence it survives a lost lock; the negative half of `ResultTruthful` needs the lock between query
and commit, hence its exception.

**Only model-checked.** Liveness (`EveryRunEnds`, `UndamagedAttemptSettles`, `LoneWaiterServed`, `CancelSettles`, `DueSlotSpent`,
`RetriedTicketStarts`): fairness is out of the prover's reach.
Every other invariant, action property and refinement that a run checks is a theorem.

## Where the code and its documentation disagree

Each of these is a run whose counterexample TLC prints.

1. `corrupt_ends`: a damaged replay met by a recovery that has to end the run makes every later recovery fail the same way.
2. `completed_demoted`: a rerun or release of a completed ticket whose preparation is refused blocks the ticket.
3. `unsettled_integrity`: an attempt whose run the integrity path ended is never settled.

Met while modelling, without a run of their own:

- `docs/LIFECYCLE_EVENTS.md:105` says "Transitions out of terminal statuses are invalid."; the integrity path rewrites a completed
  run (`store.js:12571`). `TerminalRewrittenOnlyByIntegrity` states what does hold.
- A recovery by the process that still executes the run takes the lease under the same owner and does not fence its own
  executor (`server.js:9168`; the comment at 9183 speaks of "ownership that the scheduler already fenced"). Meanwhile another run may
  have been given the slots of that execution, which goes on using them under a live lease (`runtime-budget-methods.js:728`).
- An attempt with a completed run that the integrity path rewrote before the settlement can be neither settled nor canceled: both throw
  COMPLETION_EVIDENCE_MISSING (`ticket-attempt-completion-contract.js:85`, `store.js:10663`). While its ticket is in progress the startup
  reconciliation throws too (`server.js:17386`), and `start()` (35338) does not come up.
- The preparation of a release is described as read-only (`server.js:17208`) and may block the ticket (17947).
- Admission compares with the limit frozen in the drafts, and a settled blocked attempt outranks exhaustion
  (`store.js:6850`, `docs/TICKET_ATTEMPT_AUTHORITY.md:36`).
- The startup reconciliation reads only tickets in progress (`server.js:17358`): one blocked over an unsettled attempt is not healed.
- `resolveTicketTriageAndReproject` opens a blocked ticket without looking at its current attempt (`store.js:7563`).
- An executor whose run was recovered and claimed again may read a run it does not own and end it under the new live
  claim, because a pending run may be ended without a lease (`store.js:11811`; `server.js:13313` calls the ownership checks
  an "authoritative ownership fence"). `RunCustody!MayEnd` has the exception.
- A call that lost the start of a governed request may settle it at the maximum before the winner settles what was metered
  (`governed-leaf-orchestration.js:570`; the comment at 490).
- `acquireRuntimeCapacity` refuses for *any* other leased waiter, not for an older one, so two waiters refuse each other until one
  gives up (`runtime-budget-methods.js:780`); `scripts/runtime-budget-postgres-test.js:729` expects that the "oldest blocked capacity
  request acquires after release". `LoneWaiterServed` states what does hold.
- An operation that an earlier attempt prepared is resumed without another look at the lease (`server.js:20327`).
- The state captured for a rename has no content hash of the destination (`server.js:20075`), but the comparison asks for one (20166): the
  applied rename of a file is never recognized and always uncertain. A rename prepared while its source did not exist is
  confirmed by any file another operation puts at its destination. A write whose content is redacted in the intent is always uncertain.
- `failAgentRun` (`server.js:17403`) does not cancel process operations; an intent left by a refused launch is launched by the
  next startup's `reconcileRun` (17249), after its run has ended.
- When a lock session is lost between a query and a launch, a process may be started whose row says that it was cancelled before
  launch (`process-execution-controller.js:418`).
- The runs of a scheduled ticket are created after its commit (`server.js:4490`); nothing repeats that after a crash, and the
  ticket stays open without runs.
- A manual trigger may carry the token of a slot (`server.js:30100`): it makes the ticket and does not advance the schedule, and every later
  tick finds the due slot deduped (`store.js:8806`) until an operator changes the schedule. Being the earliest it also keeps a
  place of `candidateLimit`. `DueSlotSpent` states what does hold.
- A template whose ticket creation keeps being refused stays first in the due list; with `candidateLimit` of them, later ones are not
  looked at (`store.js:8789`).
- After outcomes other than a response, `server.js:13720` says the reservation "has already been released or conservatively
  settled"; a request found in flight or uncertain is neither, and when its call has died its reserve stays.

## What is not modelled

- Rendering, HTTP parsing, authentication, catalogs, watchers and connectors: rows edited under a revision, no protocol.
- The browser engine and the input materializer's file transfer: system calls; their effect on a run is an outcome. Of the
  launcher only the registry is modelled, not sandboxing and control groups.
- The event journal's hash chains: an append is part of the transaction it belongs to.
- Planner requests, delegated release, objective revisions, operator recovery: planned, see below.
- Of the run budget, provider calls, bytes and durations; of templates, `assignProcessTemplateWorkContext`, which sets a
  column no decision here reads.
- Migrations, backups, scripts: run once, offline. They are most of the repository's lines (the test scripts alone), as are the
  views; the models cover the stateful core of `store.js`, `server.js` and the runtime controllers.
- The wording and layout of events, hashes of evidence (except that a stored replay may be damaged), pricing arithmetic.
- Database failures inside a transaction: a transaction happens or does not.

## Plan

In this order:

1. Composition: split claim and start in `TargetOperations` and `RuntimeCapacity` and use the actions of `RunStanding` for their
   runs, as `GovernedRequests` does. Today their rows implement `RunStanding`, which shows that they assume no move too many; that
   they leave none out that matters is argued (a claim that is returned before the start touches neither operations nor slots) and not proved.
2. `PlannerRequests`: the planner's account and planning attempts over the same transitions as `GovernedRequests`, and
   what becomes of reservations whose run has ended.
3. `EventChain`: per-scope hash chains appended by concurrent transactions.
4. Structured allocation: leaf admission and the aggregate that gates completion, composed with `TicketLifecycle`; delegated
   release and operator recovery beside it.
5. The rest of the run budget: provider calls, bytes and durations, with the resume after a crash.
