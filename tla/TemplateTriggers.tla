-------------------------- MODULE TemplateTriggers --------------------------
(***************************************************************************)
(* Process templates: their versions, their schedules and the triggers     *)
(* that make tickets of them.                                              *)
(*                                                                         *)
(* Every method of the store that changes a template locks its row of      *)
(* process_templates first, so each is one step here.  Between them run    *)
(* the scheduler ticks of several server processes: a tick lists the due   *)
(* templates without a lock and triggers them one by one, each with the    *)
(* slot it read; an operator may pause, reschedule, disable or activate a  *)
(* version in between.  A trigger commits the ticket; the runs of the      *)
(* ticket are created after the commit, and the process may die between.   *)
(*                                                                         *)
(* What a version says is abstracted to its number; a work context is left *)
(* out (no decision reads it).  Times are ticks of the database clock, and *)
(* the clock of a process is off by at most Skew.                          *)
(***************************************************************************)
EXTENDS Integers, FiniteSets

CONSTANTS
    Templates,      \* ids of process_templates rows
    Procs,          \* server processes, each with one template scheduler
    Keys,           \* triggerToken values of clients' own
    SentSlots,      \* slots whose token a client sends as its triggerToken
    Intervals,      \* values of schedule.everySeconds
    Skew,           \* how far a process's clock is from the database's
    CandidateLimit, \* candidateLimit of a scheduler tick
    MaxTime,        \* bound: the database clock
    MaxVersion,     \* bound: versions of a template
    MaxFaults       \* bound: crashes and refused ticket creations

\* MIN_SCHEDULE_EVERY_SECONDS is a minute: an interval is longer than the skew.
ASSUME ConstantsAssumption ==
    /\ Templates \subseteq Nat
    /\ IsFiniteSet(Templates)
    /\ Skew \in Nat
    /\ Intervals \subseteq {n \in Nat : n > Skew}
    /\ CandidateLimit \in Nat \ {0}
    /\ SentSlots \cup {MaxTime, MaxFaults} \subseteq Nat
    /\ MaxVersion \in Nat \ {0}

VARIABLES
    now,       \* clock_timestamp() of the database
    template,  \* process_templates
    version,   \* process_template_versions.status, by template and version
    triggers,  \* process_template_triggers
    started,   \* tokens whose ticket went through createRunsForTicket
    tick,      \* the scheduler of each process
    owed,      \* manual requests between the commit and createRunsForTicket
    faults     \* faults so far

rowVars  == <<template, version>>
procVars == <<started, tick, owed>>
vars     == <<now, template, version, triggers, started, tick, owed, faults>>

-----------------------------------------------------------------------------
(* Values *)

Never    == 0
Versions == 1..MaxVersion

\* A schedule that is not enabled keeps its interval.  armed is a history field:
\* the version that was active when next was set.
Interval(n) == [every |-> n, enabled |-> FALSE, next |-> Never, armed |-> 0]
NoSchedule  == Interval(0)

Absent == [exists |-> FALSE, enabled |-> FALSE, schedule |-> NoSchedule,
           current |-> 0, content |-> 0]

\* Tokens are strings of one namespace: a manual trigger may carry any, the
\* schedule:<id>:<slot> of a slot too.
ScheduleToken(t, slot) == <<"schedule", t, slot>>
ManualTokens           == ({"client"} \X Keys \X {0})
                              \cup {ScheduleToken(t, slot) : t \in Templates, slot \in SentSlots}
NoToken                == <<"none", 0, 0>>

\* What a tick has still to do; the flag "ticking" is set while that is something.
Idle == [listed |-> {}, owes |-> NoToken]

-----------------------------------------------------------------------------
(* Helpers *)

\* The slot after a clock reading.
computeNextRunAtFromSlot(s, clock) == (IF s.next = Never THEN clock ELSE s.next) + s.every
computeNextRunAt(s, clock)         == clock + s.every

scheduleHasReusableInterval(s) == s.every > 0

\* A schedule armed at the present clock.
Armed(t, s) == [every |-> s.every, enabled |-> TRUE,
                next |-> computeNextRunAt(s, now), armed |-> template[t].current]

\* A paused schedule keeps its interval and loses its slot.
Paused(s) == Interval(s.every)

ActiveVersions(t) == {v \in Versions : version[t][v] = "active"}
Drafts(t)         == {v \in Versions : version[t][v] = "draft"}
TriggersOf(token) == {x \in triggers : x.token = token}

-----------------------------------------------------------------------------
(* Operator changes *)

createProcessTemplate(t, enabled) ==
    /\ ~template[t].exists
    /\ template' = [template EXCEPT ![t] =
                      [exists |-> TRUE, enabled |-> enabled, schedule |-> NoSchedule,
                       current |-> 1, content |-> 1]]
    /\ version' = [version EXCEPT ![t][1] = "active"]
    /\ UNCHANGED <<now, triggers, procVars, faults>>

\* A change of the template row under its lock.
_mutateProcessTemplate(t, row) ==
    /\ template[t].exists
    /\ template' = [template EXCEPT ![t] = row]
    /\ UNCHANGED <<now, version, triggers, procVars, faults>>

setProcessTemplateEnabled(t, enabled) ==
    _mutateProcessTemplate(t, [template[t] EXCEPT !.enabled = enabled])

\* A new interval starts afresh from the database clock; every = 0 disables.
setProcessTemplateSchedule(t, every) ==
    LET s == template[t].schedule
    IN _mutateProcessTemplate(t, [template[t] EXCEPT !.schedule =
           IF every > 0 THEN Armed(t, Interval(every))
           ELSE IF scheduleHasReusableInterval(s) THEN Paused(s)
           ELSE NoSchedule])

pauseProcessTemplateSchedule(t) ==
    LET s == template[t].schedule
    IN /\ scheduleHasReusableInterval(s)
       /\ _mutateProcessTemplate(t, [template[t] EXCEPT !.schedule = Paused(s)])

resumeProcessTemplateSchedule(t) ==
    LET s == template[t].schedule
    IN /\ scheduleHasReusableInterval(s)
       /\ _mutateProcessTemplate(t, [template[t] EXCEPT !.schedule = Armed(t, s)])

\* The draft is numbered after the one active version, which it supersedes.
createProcessTemplateDraft(t) ==
    /\ template[t].exists
    /\ Cardinality(ActiveVersions(t)) = 1
    /\ Drafts(t) = {}
    /\ \E active \in ActiveVersions(t) :
         /\ active < MaxVersion
         /\ version' = [version EXCEPT ![t][active + 1] = "draft"]
    /\ UNCHANGED <<now, template, triggers, procVars, faults>>

\* Activation is refused while the schedule is enabled.
ActivationAllowedAlways(t) == TRUE
ActivationAllowed(t)       == ~template[t].schedule.enabled

\* The root row follows the version that becomes active, its text included.
Activated(row, v) ==
    [exists |-> row.exists, enabled |-> row.enabled, schedule |-> row.schedule,
     current |-> v, content |-> v]

\* Only the version the draft supersedes is retired.
Retired(vs, active) == [vs EXCEPT ![active] = "superseded"]

activateProcessTemplateVersion(t, v) ==
    /\ template[t].exists
    /\ version[t][v] = "draft"
    /\ ActivationAllowed(t)
    /\ ActiveVersions(t) = {v - 1}
    /\ version' = [version EXCEPT ![t] = [Retired(@, v - 1) EXCEPT ![v] = "active"]]
    /\ template' = [template EXCEPT ![t] = Activated(@, v)]
    /\ UNCHANGED <<now, triggers, procVars, faults>>

-----------------------------------------------------------------------------
(* executeProcessTemplateTrigger, and its two callers *)

\* Where the transaction goes, in the order of its early returns.
RouteDisabledFirst(t, token, kind, slot) ==
    LET s == template[t].schedule
    IN IF ~template[t].exists THEN "missing"
       ELSE IF ~template[t].enabled THEN "disabled"
       ELSE IF TriggersOf(token) # {}
       THEN IF \A x \in TriggersOf(token) : x.template = t THEN "deduped" ELSE "conflict"
       ELSE IF kind = "schedule" /\ ~(s.enabled /\ s.next = slot) THEN "stale"
       ELSE IF Cardinality(ActiveVersions(t)) # 1 THEN "integrity"
       ELSE "create"

Route(t, token, kind, slot) ==
    LET s == template[t].schedule
    IN IF ~template[t].exists THEN "missing"
       ELSE IF TriggersOf(token) # {}
       THEN IF \A x \in TriggersOf(token) : x.template = t THEN "deduped" ELSE "conflict"
       ELSE IF ~template[t].enabled THEN "disabled"
       ELSE IF kind = "schedule" /\ ~(s.enabled /\ s.next = slot) THEN "stale"
       ELSE IF Cardinality(ActiveVersions(t)) # 1 THEN "integrity"
       ELSE "create"

\* The slot is advanced with the ticket, and only by a scheduled trigger.
AdvancedNever(t, kind) == template[t].schedule
Advanced(t, kind) ==
    IF kind = "schedule" THEN Armed(t, template[t].schedule) ELSE template[t].schedule

\* Ticket, trigger row and next slot commit together.  The row keeps, for a
\* scheduled ticket, when it was made and by which schedule.
CreateTicket(t, token, kind) ==
    LET s == IF kind = "schedule" THEN template[t].schedule ELSE NoSchedule
    IN /\ \E active \in ActiveVersions(t) :
            triggers' = triggers \cup
              {[token |-> token, template |-> t, kind |-> kind, version |-> active,
                content |-> template[t].content, every |-> s.every, armed |-> s.armed,
                at |-> IF kind = "schedule" THEN now ELSE Never]}
       /\ template' = [template EXCEPT ![t].schedule = Advanced(t, kind)]

\* createTicket answered not ok: nothing is written and the slot stays due.
RefuseTicket ==
    /\ faults < MaxFaults
    /\ faults' = faults + 1
    /\ UNCHANGED <<template, triggers>>

\* A timer tick or the operator's "scan now": at most CandidateLimit templates
\* that are due by this process's clock, the earliest slots first.  A tick that
\* finds none leaves no trace.
DueAt(clock) ==
    {[template |-> t, slot |-> template[t].schedule.next] :
        t \in {u \in Templates : /\ template[u].exists
                                 /\ template[u].enabled
                                 /\ template[u].schedule.enabled
                                 /\ template[u].schedule.next <= clock}}

Before(x, y) == x.slot < y.slot \/ (x.slot = y.slot /\ x.template < y.template)

FirstOf(S, n) == {x \in S : Cardinality({y \in S : Before(y, x)}) < n}

listDueProcessTemplates(p) ==
    /\ tick[p] = Idle
    /\ \E off \in (-Skew)..Skew :
         /\ DueAt(now + off) # {}
         /\ tick' = [tick EXCEPT ![p].listed = FirstOf(DueAt(now + off), CandidateLimit)]
    /\ UNCHANGED <<now, rowVars, triggers, started, owed, faults>>

\* The next listed template, with the slot that was read; what went wrong with
\* one is logged and the loop goes on.
triggerDueScheduledTemplate(p) ==
    /\ tick[p].listed # {}
    /\ tick[p].owes = NoToken
    /\ \E x \in FirstOf(tick[p].listed, 1) :
         LET token == ScheduleToken(x.template, x.slot)
             route == Route(x.template, token, "schedule", x.slot)
             Rest(owes) == [listed |-> tick[p].listed \ {x}, owes |-> owes]
         IN \/ /\ route = "create"
               /\ CreateTicket(x.template, token, "schedule")
               /\ tick' = [tick EXCEPT ![p] = Rest(token)]
               /\ UNCHANGED faults
            \/ /\ route = "create"
               /\ RefuseTicket
               /\ tick' = [tick EXCEPT ![p] = Rest(NoToken)]
            \/ /\ route = "deduped"
               /\ tick' = [tick EXCEPT ![p] = Rest(token)]
               /\ UNCHANGED <<template, triggers, faults>>
            \/ /\ route \notin {"create", "deduped"}
               /\ tick' = [tick EXCEPT ![p] = Rest(NoToken)]
               /\ UNCHANGED <<template, triggers, faults>>
    /\ UNCHANGED <<now, version, started, owed>>

\* createRunsForTicket of the ticket the tick has just committed or found.
startScheduledRuns(p) ==
    /\ tick[p].owes # NoToken
    /\ started' = started \cup {tick[p].owes}
    /\ tick' = [tick EXCEPT ![p].owes = NoToken]
    /\ UNCHANGED <<now, rowVars, triggers, owed, faults>>

\* POST /trigger, first sent or sent again by a client that saw no answer; a
\* request that is refused changes nothing.
triggerProcessTemplate(p, t, token) ==
    LET route == Route(t, token, "manual", Never)
    IN /\ <<p, token>> \notin owed
       /\ \/ /\ route = "create"
             /\ CreateTicket(t, token, "manual")
          \/ /\ route = "deduped"
             /\ UNCHANGED <<template, triggers>>
       /\ owed' = owed \cup {<<p, token>>}
       /\ UNCHANGED <<now, version, started, tick, faults>>

startManualRuns(p, token) ==
    /\ <<p, token>> \in owed
    /\ started' = started \cup {token}
    /\ owed' = owed \ {<<p, token>>}
    /\ UNCHANGED <<now, rowVars, triggers, tick, faults>>

\* The process dies and is started again; what it had not committed is gone.
crash(p) ==
    /\ faults < MaxFaults
    /\ faults' = faults + 1
    /\ tick' = [tick EXCEPT ![p] = Idle]
    /\ owed' = {x \in owed : x[1] # p}
    /\ UNCHANGED <<now, rowVars, triggers, started>>

advance ==
    /\ now < MaxTime
    /\ now' = now + 1
    /\ UNCHANGED <<rowVars, triggers, procVars, faults>>

-----------------------------------------------------------------------------
(* Specification *)

Init ==
    /\ now = 0
    /\ template = [t \in Templates |-> Absent]
    /\ version = [t \in Templates |-> [v \in Versions |-> "absent"]]
    /\ triggers = {}
    /\ started = {}
    /\ tick = [p \in Procs |-> Idle]
    /\ owed = {}
    /\ faults = 0

Operator(t) ==
    \/ \E e \in BOOLEAN : createProcessTemplate(t, e)
    \/ \E e \in BOOLEAN : setProcessTemplateEnabled(t, e)
    \/ \E n \in Intervals \cup {0} : setProcessTemplateSchedule(t, n)
    \/ pauseProcessTemplateSchedule(t)
    \/ resumeProcessTemplateSchedule(t)
    \/ createProcessTemplateDraft(t)
    \/ \E v \in Versions : activateProcessTemplateVersion(t, v)

Tick(p) ==
    \/ listDueProcessTemplates(p)
    \/ triggerDueScheduledTemplate(p)
    \/ startScheduledRuns(p)

Request(p, token) ==
    \/ \E t \in Templates : triggerProcessTemplate(p, t, token)
    \/ startManualRuns(p, token)

Next ==
    \/ \E t \in Templates : Operator(t)
    \/ \E p \in Procs : Tick(p) \/ crash(p)
    \/ \E p \in Procs, token \in ManualTokens : Request(p, token)
    \/ advance

Spec == Init /\ [][Next]_vars

\* The timers of the schedulers keep ticking, a request that was accepted is
\* carried on with, and a client whose trigger made a ticket sends it again until
\* that has been handled.
MadeByHand(token) == \E x \in TriggersOf(token) : x.kind = "manual"

Retry(p, t, token) ==
    /\ MadeByHand(token)
    /\ token \notin started
    /\ triggerProcessTemplate(p, t, token)

FairSpec ==
    /\ Spec
    /\ \A p \in Procs : WF_vars(Tick(p))
    /\ \A p \in Procs, token \in ManualTokens : WF_vars(startManualRuns(p, token))
    /\ \A t \in Templates, token \in ManualTokens : WF_vars(\E p \in Procs : Retry(p, t, token))

-----------------------------------------------------------------------------
(* Properties *)

Schedules == [every : Intervals \cup {0}, enabled : BOOLEAN, next : Nat, armed : 0..MaxVersion]

TemplateRows == [exists : BOOLEAN, enabled : BOOLEAN, schedule : Schedules,
                 current : 0..MaxVersion, content : 0..MaxVersion]

Tokens == ({"schedule"} \X Templates \X Nat) \cup ({"client"} \X Keys \X {0})

TriggerRows == [token : Tokens, template : Templates, kind : {"schedule", "manual"},
                version : Versions, content : 0..MaxVersion, every : Intervals \cup {0},
                armed : 0..MaxVersion, at : Nat]

\* Tokens whose runs were created, or are about to be.
Handled == started \cup {x[2] : x \in owed} \cup ({tick[p].owes : p \in Procs} \ {NoToken})

\* The rows and the processes' state have their shapes; the CHECK of migration
\* 018, that a schedule has a slot exactly while it is enabled, holds; and runs
\* are only ever created for tickets that were committed.
TypeOK ==
    /\ now \in 0..MaxTime
    /\ template \in [Templates -> TemplateRows]
    /\ \A t \in Templates : template[t].schedule.enabled <=> template[t].schedule.next # Never
    /\ version \in [Templates -> [Versions -> {"absent", "draft", "active", "superseded"}]]
    /\ triggers \subseteq TriggerRows
    /\ tick \in [Procs -> [listed : SUBSET [template : Templates, slot : Nat],
                           owes : Tokens \cup {NoToken}]]
    /\ owed \subseteq Procs \X Tokens
    /\ Handled \subseteq {x.token : x \in triggers}
    /\ faults \in 0..MaxFaults

\* Startup refuses to serve (reconcileProcessTemplateVersions) and a trigger
\* throws unless the root row names the one active version; a draft that is
\* waiting can always be activated, since it supersedes that version.
VersionsAgree ==
    \A t \in Templates : template[t].exists =>
        /\ ActiveVersions(t) = {template[t].current}
        /\ Drafts(t) \subseteq {template[t].current + 1}

\* The version recorded with a trigger is the one its ticket was made of: the
\* text comes from the root row, the number from the version row.
TicketsMatchVersion == \A x \in triggers : x.content = x.version

\* A scheduled ticket is of the version that was active when its slot was set:
\* activating one asks for a pause, which takes the slot away, so a tick that
\* had listed the slot before finds it stale after the resume.
ScheduledAsArmed == \A x \in triggers : x.kind = "schedule" => x.version = x.armed

\* No catch-up: two tickets of one template's schedule are an interval apart
\* (less the skew of the clocks), however late a tick runs, however many
\* processes tick, and through pauses, resumes and new intervals.
ScheduleSpaced ==
    \A x, y \in triggers :
        (x.kind = "schedule" /\ y.kind = "schedule" /\ x.template = y.template /\ x # y)
        => \/ y.at - x.at >= y.every - Skew
           \/ x.at - y.at >= x.every - Skew

\* A slot that is due by every clock is spent, or taken back by the operator: two
\* processes that race for it never leave a schedule on a slot whose token one of
\* them has used.  A manual trigger that carries the token of a slot does: it makes
\* the ticket and does not advance the slot, which every later tick finds deduped
\* (and, the earliest of those due, lists before the slots of other templates).
Due(t) == /\ template[t].enabled
          /\ template[t].schedule.enabled
          /\ template[t].schedule.next + Skew <= now

TakenByHand(t) == MadeByHand(ScheduleToken(t, template[t].schedule.next))

DueSlotSpent ==
    \A t \in Templates : Due(t) ~> ~Due(t) \/ \E u \in Templates : Due(u) /\ TakenByHand(u)

\* A manual trigger that died between its commit and createRunsForTicket is
\* made good by the client's retry, even if the template has been disabled
\* since: the token is looked up before the template's state.
RetriedTicketStarts == \A token \in ManualTokens : MadeByHand(token) ~> token \in started

=============================================================================
