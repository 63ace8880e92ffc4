----------------------- MODULE TemplateTriggersProofs -----------------------
(***************************************************************************)
(* Theorems about TemplateTriggers, for any number of templates, processes *)
(* and versions, any intervals longer than the skew, and any bounds.       *)
(*                                                                         *)
(* Agreement ties the root row to the version rows and the slot to the     *)
(* version it was set under; Timing relates the slot of a schedule, the    *)
(* slots ticks have read and the tickets already made to the clock.        *)
(***************************************************************************)
EXTENDS TemplateTriggers, TLAPS

\* What a template row says of its versions and of its slot.
Agreement ==
    \A t \in Templates :
        /\ ~template[t].exists => /\ \A v \in Versions : version[t][v] = "absent"
                                  /\ ~template[t].schedule.enabled
        /\ template[t].exists => /\ template[t].current \in Versions
                                 /\ template[t].content = template[t].current
                                 /\ ActiveVersions(t) = {template[t].current}
                                 /\ Drafts(t) \subseteq {template[t].current + 1}
        /\ template[t].schedule.enabled => /\ template[t].schedule.armed = template[t].current
                                          /\ template[t].schedule.every > 0

\* Where the slots lie.
Timing ==
    /\ \A x \in triggers : x.kind = "schedule" =>
         /\ x.at <= now
         /\ template[x.template].schedule.enabled =>
              template[x.template].schedule.next
                >= x.at + template[x.template].schedule.every
    /\ \A p \in Procs : \A l \in tick[p].listed : l.slot <= now + Skew

-----------------------------------------------------------------------------
(* Types *)

\* What the constants are.
LEMMA ConstantFacts ==
    /\ Templates \subseteq Nat
    /\ Skew \in Nat
    /\ MaxTime \in Nat
    /\ MaxVersion \in Nat
    /\ MaxVersion > 0
    /\ MaxFaults \in Nat
    /\ SentSlots \subseteq Nat
    /\ \A n \in Intervals : n \in Nat /\ n > Skew
  BY ConstantsAssumption DEF ConstantsAssumption

\* A schedule armed now is a schedule with a slot after the clock.
LEMMA ArmedType ==
    ASSUME TypeOK, NEW t \in Templates, NEW s \in Schedules, s.every > 0
    PROVE  /\ Armed(t, s) \in Schedules
           /\ Armed(t, s).enabled
           /\ Armed(t, s).next = now + s.every
           /\ Armed(t, s).next # Never
           /\ Armed(t, s).every = s.every
           /\ Armed(t, s).armed = template[t].current
  BY ConstantFacts DEF TypeOK, Schedules, TemplateRows, Armed, computeNextRunAt, Never

\* A paused schedule is a schedule without a slot.
LEMMA PausedType ==
    ASSUME NEW s \in Schedules
    PROVE  /\ Paused(s) \in Schedules
           /\ ~Paused(s).enabled
           /\ Paused(s).next = Never
  BY ConstantFacts DEF Schedules, Paused, Interval, Never

LEMMA NoScheduleType ==
    /\ NoSchedule \in Schedules
    /\ ~NoSchedule.enabled
    /\ NoSchedule.next = Never
    /\ NoSchedule.every = 0
    /\ NoSchedule.armed = 0
  BY ConstantFacts DEF NoSchedule, Interval, Schedules, Never

-----------------------------------------------------------------------------
(* Steps that change a template row *)

Results == TicketsMatchVersion /\ ScheduledAsArmed /\ ScheduleSpaced

IInv == TypeOK /\ Agreement /\ Timing /\ Results

\* The schedule of a template after an operator's change: as it was, without a
\* slot, or armed now.
Sound(t, s) ==
    \/ s = template[t].schedule
    \/ s \in Schedules /\ ~s.enabled /\ s.next = Never
    \/ /\ s \in Schedules /\ s.enabled /\ s.every > 0
       /\ s.next = now + s.every /\ s.armed = template[t].current

\* A change of the enabled flag and of the schedule keeps the invariant.
LEMMA MutateStep ==
    ASSUME IInv, NEW t \in Templates, NEW row \in TemplateRows,
           row.exists = template[t].exists,
           row.current = template[t].current,
           row.content = template[t].content,
           Sound(t, row.schedule),
           _mutateProcessTemplate(t, row)
    PROVE  IInv'
  <1> USE ConstantFacts
  <1>1. /\ template' = [template EXCEPT ![t] = row]
        /\ UNCHANGED <<now, version, triggers, started, tick, owed, faults>>
    BY DEF _mutateProcessTemplate, procVars
  <1>2. /\ template' \in [Templates -> TemplateRows]
        /\ template'[t] = row
        /\ \A u \in Templates : u # t => template'[u] = template[u]
    BY <1>1 DEF IInv, TypeOK
  <1>3. /\ template[t] \in TemplateRows
        /\ template[t].schedule \in Schedules
        /\ row.schedule \in Schedules
        /\ now \in Nat
    BY DEF IInv, TypeOK, TemplateRows
  <1>4. row.schedule.enabled <=> row.schedule.next # Never
    BY <1>3 DEF Sound, IInv, TypeOK, Schedules, Never
  <1>5. \A u \in Templates : template'[u].schedule.enabled <=> template'[u].schedule.next # Never
    BY <1>2, <1>4 DEF IInv, TypeOK
  <1>6. TypeOK'
    <2>1. Handled' = Handled
      BY <1>1 DEF Handled
    <2> QED BY <1>1, <1>2, <1>5, <2>1 DEF IInv, TypeOK
  <1>7. Agreement'
    <2> SUFFICES ASSUME NEW u \in Templates
                 PROVE  Agreement!(u)'
      BY DEF Agreement
    <2>1. \A w \in Templates : ActiveVersions(w)' = ActiveVersions(w) /\ Drafts(w)' = Drafts(w)
      BY <1>1 DEF ActiveVersions, Drafts
    <2>2. CASE u # t
      BY <1>1, <1>2, <2>1, <2>2 DEF IInv, Agreement
    <2>3. CASE u = t
      BY ZenonT(40), <1>1, <1>2, <1>3, <2>1, <2>3 DEF IInv, Agreement, Sound, _mutateProcessTemplate
    <2> QED BY <2>2, <2>3
  <1>8. Timing'
    <2>1. ASSUME NEW x \in triggers, x.kind = "schedule", template'[x.template].schedule.enabled
          PROVE  template'[x.template].schedule.next >= x.at + template'[x.template].schedule.every
      <3>1. x \in TriggerRows /\ x.template \in Templates /\ x.at \in Nat /\ x.at <= now
        BY <2>1 DEF IInv, TypeOK, TriggerRows, Timing
      <3>2. CASE x.template # t
        BY <1>2, <2>1, <3>1, <3>2 DEF IInv, Timing
      <3>3. CASE x.template = t /\ row.schedule = template[t].schedule
        BY <1>2, <2>1, <3>1, <3>3 DEF IInv, Timing
      <3>4. CASE x.template = t /\ row.schedule # template[t].schedule
        <4>1. row.schedule.next = now + row.schedule.every /\ row.schedule.every \in Nat
          BY <1>2, <1>3, <2>1, <3>4 DEF Sound, Schedules
        <4> QED BY <1>2, <1>3, <3>1, <3>4, <4>1
      <3> QED BY <3>2, <3>3, <3>4
    <2> QED BY <1>1, <2>1 DEF IInv, Timing
  <1>9. Results'
    BY <1>1 DEF IInv, Results, TicketsMatchVersion, ScheduledAsArmed, ScheduleSpaced
  <1> QED BY <1>6, <1>7, <1>8, <1>9 DEF IInv

\* The operator's changes of the flag and of the schedule.
LEMMA OperatorRowStep ==
    ASSUME IInv, NEW t \in Templates,
           \/ \E e \in BOOLEAN : setProcessTemplateEnabled(t, e)
           \/ \E n \in Intervals \cup {0} : setProcessTemplateSchedule(t, n)
           \/ pauseProcessTemplateSchedule(t)
           \/ resumeProcessTemplateSchedule(t)
    PROVE  IInv'
  <1> USE ConstantFacts
  <1> DEFINE s == template[t].schedule
             WithSchedule(r) == [template[t] EXCEPT !.schedule = r]
  <1>1. template[t] \in TemplateRows /\ s \in Schedules /\ TypeOK
    BY DEF IInv, TypeOK, TemplateRows
  <1>2. ASSUME NEW r \in Schedules
        PROVE  /\ WithSchedule(r) \in TemplateRows
               /\ WithSchedule(r).schedule = r
               /\ WithSchedule(r).exists = template[t].exists
               /\ WithSchedule(r).current = template[t].current
               /\ WithSchedule(r).content = template[t].content
    BY <1>1 DEF TemplateRows
  <1>3. Paused(s) \in Schedules /\ Sound(t, Paused(s))
    BY <1>1, PausedType DEF Sound
  <1>4. NoSchedule \in Schedules /\ Sound(t, NoSchedule)
    BY NoScheduleType DEF Sound
  <1>5. ASSUME NEW r \in Schedules, r.every > 0
        PROVE  Armed(t, r) \in Schedules /\ Sound(t, Armed(t, r))
    BY <1>1, <1>5, ArmedType DEF Sound
  <1>6. CASE \E e \in BOOLEAN : setProcessTemplateEnabled(t, e)
    <2>1. PICK e \in BOOLEAN : setProcessTemplateEnabled(t, e)
      BY <1>6
    <2> DEFINE row == [template[t] EXCEPT !.enabled = e]
    <2>2. /\ row \in TemplateRows
          /\ row.schedule = s
          /\ row.exists = template[t].exists
          /\ row.current = template[t].current
          /\ row.content = template[t].content
      BY <1>1 DEF TemplateRows
    <2>3. _mutateProcessTemplate(t, row) /\ Sound(t, row.schedule)
      BY <2>1, <2>2 DEF setProcessTemplateEnabled, Sound
    <2> HIDE DEF row
    <2> QED BY <2>2, <2>3, MutateStep
  <1>7. CASE \E n \in Intervals \cup {0} : setProcessTemplateSchedule(t, n)
    <2>1. PICK n \in Intervals \cup {0} : setProcessTemplateSchedule(t, n)
      BY <1>7
    <2> DEFINE r == IF n > 0 THEN Armed(t, Interval(n))
                    ELSE IF scheduleHasReusableInterval(s) THEN Paused(s)
                    ELSE NoSchedule
    <2>2. Interval(n) \in Schedules /\ Interval(n).every = n
      BY DEF Interval, Schedules, Never
    <2>3. r \in Schedules /\ Sound(t, r)
      BY <1>3, <1>4, <1>5, <2>2
    <2>4. _mutateProcessTemplate(t, WithSchedule(r))
      BY <2>1 DEF setProcessTemplateSchedule
    <2> HIDE DEF r
    <2>5. /\ WithSchedule(r) \in TemplateRows
          /\ WithSchedule(r).schedule = r
          /\ WithSchedule(r).exists = template[t].exists
          /\ WithSchedule(r).current = template[t].current
          /\ WithSchedule(r).content = template[t].content
      BY <1>2, <2>3
    <2> HIDE DEF WithSchedule
    <2> QED BY <2>3, <2>4, <2>5, MutateStep
  <1>8. CASE pauseProcessTemplateSchedule(t)
    <2>1. _mutateProcessTemplate(t, WithSchedule(Paused(s)))
      BY <1>8 DEF pauseProcessTemplateSchedule
    <2>2. /\ WithSchedule(Paused(s)) \in TemplateRows
          /\ WithSchedule(Paused(s)).schedule = Paused(s)
          /\ WithSchedule(Paused(s)).exists = template[t].exists
          /\ WithSchedule(Paused(s)).current = template[t].current
          /\ WithSchedule(Paused(s)).content = template[t].content
      BY <1>2, <1>3
    <2> HIDE DEF WithSchedule
    <2> QED BY <1>3, <2>1, <2>2, MutateStep
  <1>9. CASE resumeProcessTemplateSchedule(t)
    <2>1. /\ _mutateProcessTemplate(t, WithSchedule(Armed(t, s)))
          /\ s.every > 0
      BY <1>9 DEF resumeProcessTemplateSchedule, scheduleHasReusableInterval
    <2>2. Armed(t, s) \in Schedules /\ Sound(t, Armed(t, s))
      BY <1>1, <1>5, <2>1
    <2>3. /\ WithSchedule(Armed(t, s)) \in TemplateRows
          /\ WithSchedule(Armed(t, s)).schedule = Armed(t, s)
          /\ WithSchedule(Armed(t, s)).exists = template[t].exists
          /\ WithSchedule(Armed(t, s)).current = template[t].current
          /\ WithSchedule(Armed(t, s)).content = template[t].content
      BY <1>2, <2>2
    <2> HIDE DEF WithSchedule
    <2> QED BY <2>1, <2>2, <2>3, MutateStep
  <1> QED BY <1>6, <1>7, <1>8, <1>9

\* A step that changes template rows and versions but neither schedules, nor
\* triggers, nor the processes, keeps everything but Agreement.
LEMMA VersionStep ==
    ASSUME IInv,
           template' \in [Templates -> TemplateRows],
           \A t \in Templates : template'[t].schedule = template[t].schedule,
           version' \in [Templates -> [Versions -> {"absent", "draft", "active", "superseded"}]],
           UNCHANGED <<now, triggers, started, tick, owed, faults>>
    PROVE  TypeOK' /\ Timing' /\ Results'
  <1>1. Handled' = Handled
    BY DEF Handled
  <1>2. TypeOK'
    BY <1>1 DEF IInv, TypeOK
  <1>3. \A x \in triggers : x.template \in Templates
    BY DEF IInv, TypeOK, TriggerRows
  <1>4. Timing'
    BY <1>3 DEF IInv, Timing
  <1>5. Results'
    BY DEF IInv, Results, TicketsMatchVersion, ScheduledAsArmed, ScheduleSpaced
  <1> QED BY <1>2, <1>4, <1>5

LEMMA CreateTemplateStep ==
    ASSUME IInv, NEW t \in Templates, NEW e \in BOOLEAN, createProcessTemplate(t, e)
    PROVE  IInv'
  <1> USE ConstantFacts
  <1> DEFINE row == [exists |-> TRUE, enabled |-> e, schedule |-> NoSchedule,
                     current |-> 1, content |-> 1]
  <1>1. /\ ~template[t].exists
        /\ template' = [template EXCEPT ![t] = row]
        /\ version' = [version EXCEPT ![t][1] = "active"]
        /\ UNCHANGED <<now, triggers, started, tick, owed, faults>>
    BY DEF createProcessTemplate, procVars
  <1>2. row \in TemplateRows /\ 1 \in Versions
    BY NoScheduleType DEF TemplateRows, Versions
  <1>3. /\ template' \in [Templates -> TemplateRows]
        /\ template'[t] = row
        /\ \A u \in Templates : u # t => template'[u] = template[u]
    BY <1>1, <1>2 DEF IInv, TypeOK
  <1>4. /\ version' \in [Templates -> [Versions -> {"absent", "draft", "active", "superseded"}]]
        /\ \A u \in Templates : u # t => version'[u] = version[u]
        /\ version'[t] = [version[t] EXCEPT ![1] = "active"]
    BY <1>1, <1>2 DEF IInv, TypeOK
  <1>5. Agreement'
    <2> SUFFICES ASSUME NEW u \in Templates PROVE Agreement!(u)'
      BY DEF Agreement
    <2>1. CASE u # t
      <3>1. ActiveVersions(u)' = ActiveVersions(u) /\ Drafts(u)' = Drafts(u)
        BY <1>4, <2>1 DEF ActiveVersions, Drafts
      <3> QED BY <1>3, <1>4, <2>1, <3>1 DEF IInv, Agreement
    <2>2. CASE u = t
      <3>1. \A v \in Versions : version'[t][v] = IF v = 1 THEN "active" ELSE "absent"
        BY <1>1, <1>4 DEF IInv, TypeOK, Agreement
      <3>2. ActiveVersions(t)' = {1} /\ Drafts(t)' = {}
        BY <1>2, <3>1 DEF ActiveVersions, Drafts
      <3>3. /\ template'[t].exists
            /\ template'[t].current = 1
            /\ template'[t].content = 1
            /\ ~template'[t].schedule.enabled
        BY <1>3, NoScheduleType
      <3> QED BY <1>2, <2>2, <3>2, <3>3
    <2> QED BY <2>1, <2>2
  <1>6. TypeOK' /\ Timing' /\ Results'
    <2>1. ~template[t].schedule.enabled
      BY <1>1 DEF IInv, Agreement
    <2>2. /\ template[t].schedule.next = Never
          /\ row.schedule.next = Never /\ ~row.schedule.enabled
      BY <2>1, NoScheduleType DEF IInv, TypeOK
    <2>3. Handled' = Handled
      BY <1>1 DEF Handled
    <2>4. \A u \in Templates : template'[u].schedule.enabled <=> template'[u].schedule.next # Never
      BY <1>3, <2>2 DEF IInv, TypeOK
    <2>5. TypeOK'
      BY <1>1, <1>3, <1>4, <2>3, <2>4 DEF IInv, TypeOK
    <2>6. \A x \in triggers : x.template \in Templates
      BY DEF IInv, TypeOK, TriggerRows
    <2>7. Timing'
      BY <1>1, <1>3, <2>2, <2>6 DEF IInv, Timing
    <2>8. Results'
      BY <1>1 DEF IInv, Results, TicketsMatchVersion, ScheduledAsArmed, ScheduleSpaced
    <2> QED BY <2>5, <2>7, <2>8
  <1> QED BY <1>5, <1>6 DEF IInv

LEMMA DraftStep ==
    ASSUME IInv, NEW t \in Templates, createProcessTemplateDraft(t)
    PROVE  IInv'
  <1> USE ConstantFacts
  <1>1. PICK a \in ActiveVersions(t) :
          a < MaxVersion /\ version' = [version EXCEPT ![t][a + 1] = "draft"]
    BY DEF createProcessTemplateDraft
  <1>2. /\ template[t].exists
        /\ Drafts(t) = {}
        /\ UNCHANGED <<now, template, triggers, started, tick, owed, faults>>
    BY DEF createProcessTemplateDraft, procVars
  <1>3. a = template[t].current /\ a \in Versions /\ a + 1 \in Versions
    BY <1>1, <1>2 DEF IInv, Agreement, Versions
  <1>4. /\ version' \in [Templates -> [Versions -> {"absent", "draft", "active", "superseded"}]]
        /\ \A u \in Templates : u # t => version'[u] = version[u]
        /\ version'[t] = [version[t] EXCEPT ![a + 1] = "draft"]
        /\ version[t] \in [Versions -> {"absent", "draft", "active", "superseded"}]
    BY <1>1, <1>3 DEF IInv, TypeOK
  <1>5. Agreement'
    <2> SUFFICES ASSUME NEW u \in Templates PROVE Agreement!(u)'
      BY DEF Agreement
    <2>1. CASE u # t
      <3>1. ActiveVersions(u)' = ActiveVersions(u) /\ Drafts(u)' = Drafts(u)
        BY <1>4, <2>1 DEF ActiveVersions, Drafts
      <3> QED BY <1>2, <1>4, <2>1, <3>1 DEF IInv, Agreement
    <2>2. CASE u = t
      <3>1. ActiveVersions(t) = {a}
        BY <1>2, <1>3 DEF IInv, Agreement
      <3>2. ActiveVersions(t)' = {a}
        BY <1>3, <1>4, <3>1 DEF ActiveVersions, Versions
      <3>3. Drafts(t)' = {a + 1}
        BY <1>2, <1>3, <1>4 DEF Drafts
      <3> QED BY <1>2, <1>3, <2>2, <3>2, <3>3 DEF IInv, Agreement
    <2> QED BY <2>1, <2>2
  <1>6. TypeOK' /\ Timing' /\ Results'
    <2>1. template' \in [Templates -> TemplateRows]
      BY <1>2 DEF IInv, TypeOK
    <2> QED BY <1>2, <1>4, <2>1, VersionStep
  <1> QED BY <1>5, <1>6 DEF IInv

LEMMA ActivateStep ==
    ASSUME IInv, NEW t \in Templates, NEW v \in Versions, activateProcessTemplateVersion(t, v)
    PROVE  IInv'
  <1> USE ConstantFacts
  <1> DEFINE row == Activated(template[t], v)
             vs  == [[version[t] EXCEPT ![v - 1] = "superseded"] EXCEPT ![v] = "active"]
  <1>1. /\ template[t].exists
        /\ version[t][v] = "draft"
        /\ ~template[t].schedule.enabled
        /\ ActiveVersions(t) = {v - 1}
        /\ version' = [version EXCEPT ![t] = vs]
        /\ template' = [template EXCEPT ![t] = row]
        /\ UNCHANGED <<now, triggers, started, tick, owed, faults>>
    BY DEF activateProcessTemplateVersion, ActivationAllowed, Retired, procVars
  <1>2. /\ row \in TemplateRows
        /\ row.exists = template[t].exists
        /\ row.schedule = template[t].schedule
        /\ row.current = v
        /\ row.content = v
    BY DEF IInv, TypeOK, TemplateRows, Activated, Versions
  <1>3. v - 1 \in Versions /\ v \in Nat
    BY <1>1 DEF ActiveVersions, Versions
  <1>4. version[t] \in [Versions -> {"absent", "draft", "active", "superseded"}]
    BY DEF IInv, TypeOK
  <1>5. /\ vs \in [Versions -> {"absent", "draft", "active", "superseded"}]
        /\ \A w \in Versions : vs[w] = IF w = v THEN "active"
                                       ELSE IF w = v - 1 THEN "superseded" ELSE version[t][w]
    BY <1>3, <1>4
  <1> HIDE DEF row, vs
  <1>6. /\ version' \in [Templates -> [Versions -> {"absent", "draft", "active", "superseded"}]]
        /\ version'[t] = vs
        /\ \A u \in Templates : u # t => version'[u] = version[u]
    BY <1>1, <1>5 DEF IInv, TypeOK
  <1>7. /\ template' \in [Templates -> TemplateRows]
        /\ template'[t] = row
        /\ \A u \in Templates : u # t => template'[u] = template[u]
    BY <1>1, <1>2 DEF IInv, TypeOK
  <1>8. Agreement'
    <2> SUFFICES ASSUME NEW u \in Templates PROVE Agreement!(u)'
      BY DEF Agreement
    <2>1. CASE u # t
      <3>1. ActiveVersions(u)' = ActiveVersions(u) /\ Drafts(u)' = Drafts(u)
        BY <1>6, <2>1 DEF ActiveVersions, Drafts
      <3> QED BY <1>6, <1>7, <2>1, <3>1 DEF IInv, Agreement
    <2>2. CASE u = t
      <3>1. \A w \in Versions : version[t][w] = "active" <=> w = v - 1
        BY <1>1, <1>3 DEF ActiveVersions
      <3>2. \A w \in Versions : version[t][w] = "draft" => w = v
        <4>1. Drafts(t) \subseteq {template[t].current + 1}
          BY <1>1 DEF IInv, Agreement
        <4> QED BY <1>1, <4>1 DEF Drafts
      <3>3. ActiveVersions(t)' = {v}
        BY <1>3, <1>5, <1>6, <3>1 DEF ActiveVersions
      <3>4. Drafts(t)' = {}
        BY <1>5, <1>6, <3>2 DEF Drafts
      <3> QED BY <1>1, <1>2, <1>7, <2>2, <3>3, <3>4
    <2> QED BY <2>1, <2>2
  <1>9. TypeOK' /\ Timing' /\ Results'
    <2>1. \A u \in Templates : template'[u].schedule = template[u].schedule
      BY <1>2, <1>7
    <2> QED BY <1>1, <1>6, <1>7, <2>1, VersionStep
  <1> QED BY <1>8, <1>9 DEF IInv

-----------------------------------------------------------------------------
(* Triggers *)

\* What a trigger that creates a ticket needs and writes: the rows, the trigger
\* row, and for a scheduled one a slot some tick has read.
LEMMA CreateStep ==
    ASSUME IInv, NEW t \in Templates, NEW token \in Tokens, NEW kind \in {"schedule", "manual"},
           template[t].exists,
           kind = "schedule" => /\ template[t].schedule.enabled
                                /\ template[t].schedule.next <= now + Skew,
           CreateTicket(t, token, kind)
    PROVE  /\ template' \in [Templates -> TemplateRows]
           /\ \A u \in Templates :
                /\ template'[u].exists = template[u].exists
                /\ template'[u].current = template[u].current
                /\ template'[u].content = template[u].content
                /\ template'[u].schedule.enabled <=> template'[u].schedule.next # Never
                /\ template'[u].schedule.enabled =>
                     /\ template'[u].schedule.armed = template'[u].current
                     /\ template'[u].schedule.every > 0
           /\ triggers' \subseteq TriggerRows
           /\ triggers \subseteq triggers'
           /\ token \in {x.token : x \in triggers'}
           /\ now' = now => Results'
           /\ now' = now => \A x \in triggers' : x.kind = "schedule" =>
                /\ x.at <= now
                /\ template'[x.template].schedule.enabled =>
                     template'[x.template].schedule.next
                       >= x.at + template'[x.template].schedule.every
  <1> USE ConstantFacts
  <1> DEFINE s == template[t].schedule
             h == IF kind = "schedule" THEN s ELSE NoSchedule
             r == Advanced(t, kind)
             row == [template[t] EXCEPT !.schedule = r]
             cur == template[t].current
             x0 == [token |-> token, template |-> t, kind |-> kind, version |-> cur,
                    content |-> template[t].content, every |-> h.every, armed |-> h.armed,
                    at |-> IF kind = "schedule" THEN now ELSE Never]
  <1>1. /\ template[t] \in TemplateRows /\ s \in Schedules /\ now \in Nat /\ TypeOK
        /\ cur \in Versions /\ cur = template[t].content
    BY DEF IInv, TypeOK, TemplateRows, Agreement
  <1>2. template' = [template EXCEPT ![t] = row]
    BY DEF CreateTicket
  <1>3. triggers' = triggers \cup {x0}
    <2>1. ActiveVersions(t) = {cur}
      BY DEF IInv, Agreement
    <2> QED BY <2>1 DEF CreateTicket
  <1>4. /\ r \in Schedules
        /\ r.enabled <=> r.next # Never
        /\ r.enabled => r.armed = cur /\ r.every > 0
        /\ kind = "schedule" => r.enabled /\ r.next = now + s.every /\ r.every = s.every
        /\ kind = "manual" => r = s
    <2>1. CASE kind = "schedule"
      <3>1. s.every > 0
        BY <2>1 DEF IInv, Agreement
      <3>2. r = Armed(t, s)
        BY <2>1 DEF Advanced
      <3> HIDE DEF r, s
      <3> QED BY <1>1, <2>1, <3>1, <3>2, ArmedType
    <2>2. CASE kind = "manual"
      <3>1. r = s
        BY <2>2 DEF Advanced
      <3> QED BY <1>1, <2>2, <3>1 DEF IInv, TypeOK, Agreement
    <2> QED BY <2>1, <2>2
  <1> HIDE DEF r
  <1>5. /\ row \in TemplateRows
        /\ row.schedule = r
        /\ row.exists = template[t].exists
        /\ row.current = cur
        /\ row.content = template[t].content
    BY <1>1, <1>4 DEF TemplateRows
  <1> HIDE DEF row
  <1>6. /\ template' \in [Templates -> TemplateRows]
        /\ template'[t] = row
        /\ \A u \in Templates : u # t => template'[u] = template[u]
    BY <1>2, <1>5 DEF IInv, TypeOK
  <1>7. \A u \in Templates :
          /\ template'[u].exists = template[u].exists
          /\ template'[u].current = template[u].current
          /\ template'[u].content = template[u].content
          /\ template'[u].schedule.enabled <=> template'[u].schedule.next # Never
          /\ template'[u].schedule.enabled =>
               /\ template'[u].schedule.armed = template'[u].current
               /\ template'[u].schedule.every > 0
    <2> SUFFICES ASSUME NEW u \in Templates PROVE <1>7!(u)
      OBVIOUS
    <2>1. CASE u = t
      BY <1>4, <1>5, <1>6, <2>1
    <2>2. CASE u # t
      BY <1>6, <2>2 DEF IInv, TypeOK, Agreement
    <2> QED BY <2>1, <2>2
  <1>8. h \in Schedules
    BY <1>1, NoScheduleType
  <1>9. x0 \in TriggerRows
    BY <1>1, <1>8 DEF TriggerRows, Schedules, TemplateRows, Never
  <1>10. /\ x0.token = token /\ x0.template = t /\ x0.kind = kind /\ x0.version = cur
         /\ x0.content = template[t].content
         /\ kind = "schedule" => x0.at = now /\ x0.every = s.every /\ x0.armed = s.armed
    OBVIOUS
  <1> HIDE DEF x0
  <1>11. \A x \in triggers : x \in TriggerRows /\ x.template \in Templates /\ x.at \in Nat
    BY DEF IInv, TypeOK, TriggerRows
  <1>12. \A x \in triggers' : x.kind = "schedule" =>
           /\ x.at <= now
           /\ template'[x.template].schedule.enabled =>
                template'[x.template].schedule.next
                  >= x.at + template'[x.template].schedule.every
    <2> SUFFICES ASSUME NEW x \in triggers', x.kind = "schedule" PROVE <1>12!(x)!2
      OBVIOUS
    <2>1. CASE x = x0
      BY <1>1, <1>4, <1>5, <1>6, <1>10, <2>1 DEF Schedules
    <2>2. CASE x \in triggers /\ x.template # t
      BY <1>6, <1>11, <2>2 DEF IInv, Timing
    <2>3. CASE x \in triggers /\ x.template = t
      <3>1. x.at <= now /\ (s.enabled => s.next >= x.at + s.every)
        BY <2>3 DEF IInv, Timing
      <3>2. CASE kind = "manual"
        BY <1>4, <1>5, <1>6, <2>3, <3>1, <3>2
      <3>3. CASE kind = "schedule"
        <4>1. /\ template'[x.template].schedule = r
              /\ r.next = now + s.every /\ r.every = s.every
              /\ s.every \in Nat
          BY <1>1, <1>4, <1>5, <1>6, <2>3, <3>3 DEF Schedules
        <4> QED BY <1>1, <1>11, <2>3, <3>1, <4>1
      <3> QED BY <3>2, <3>3
    <2> QED BY <1>3, <2>1, <2>2, <2>3
  <1>13. Results'
    <2>1. TicketsMatchVersion'
      BY <1>1, <1>3, <1>10 DEF IInv, Results, TicketsMatchVersion
    <2>2. ScheduledAsArmed'
      <3>1. kind = "schedule" => s.armed = cur
        BY DEF IInv, Agreement
      <3> QED BY <1>3, <1>10, <3>1 DEF IInv, Results, ScheduledAsArmed
    <2>3. ASSUME NEW x \in triggers, x.kind = "schedule", x.template = t, kind = "schedule"
          PROVE  x0.at - x.at >= x0.every - Skew
      <3>1. s.next <= now + Skew /\ s.next >= x.at + s.every
        BY <2>3 DEF IInv, Timing
      <3>2. s.next \in Nat /\ s.every \in Nat /\ x.at \in Nat
        BY <1>1, <1>11, <2>3 DEF Schedules
      <3> QED BY <1>1, <1>10, <2>3, <3>1, <3>2
    <2>4. ScheduleSpaced'
      <3> SUFFICES ASSUME NEW x \in triggers', NEW y \in triggers',
                          x.kind = "schedule", y.kind = "schedule",
                          x.template = y.template, x # y
                   PROVE  \/ y.at - x.at >= y.every - Skew
                          \/ x.at - y.at >= x.every - Skew
        BY DEF ScheduleSpaced
      <3>1. CASE x \in triggers /\ y \in triggers
        BY <3>1 DEF IInv, Results, ScheduleSpaced
      <3>2. CASE x = x0 /\ y \in triggers
        BY <1>10, <2>3, <3>2
      <3>3. CASE x \in triggers /\ y = x0
        BY <1>10, <2>3, <3>3
      <3> QED BY <1>3, <3>1, <3>2, <3>3
    <2> QED BY <2>1, <2>2, <2>4 DEF Results
  <1>14. /\ triggers' \subseteq TriggerRows
         /\ triggers \subseteq triggers'
         /\ token \in {x.token : x \in triggers'}
    BY <1>3, <1>9, <1>10, <1>11
  <1> QED BY <1>6, <1>7, <1>12, <1>13, <1>14

\* A step that leaves the versions, the clock and what a template says of its
\* versions as they are keeps Agreement.
LEMMA AgreementKept ==
    ASSUME IInv,
           \A u \in Templates :
             /\ template'[u].exists = template[u].exists
             /\ template'[u].current = template[u].current
             /\ template'[u].content = template[u].content
             /\ template'[u].schedule.enabled =>
                  /\ template'[u].schedule.armed = template'[u].current
                  /\ template'[u].schedule.every > 0,
           \A u \in Templates :
             ~template'[u].exists => ~template'[u].schedule.enabled,
           UNCHANGED version
    PROVE  Agreement'
  <1> SUFFICES ASSUME NEW u \in Templates PROVE Agreement!(u)'
    BY DEF Agreement
  <1>1. ActiveVersions(u)' = ActiveVersions(u) /\ Drafts(u)' = Drafts(u)
    BY DEF ActiveVersions, Drafts
  <1> QED BY <1>1 DEF IInv, Agreement

\* A step of the processes alone: rows, triggers and clock stay, the slots that
\* ticks have read are due, and runs are created for committed tickets only.
LEMMA ProcessStep ==
    ASSUME IInv,
           UNCHANGED <<now, template, version, triggers>>,
           tick' \in [Procs -> [listed : SUBSET [template : Templates, slot : Nat],
                                owes : Tokens \cup {NoToken}]],
           \A p \in Procs : \A l \in tick'[p].listed : l.slot <= now + Skew,
           owed' \subseteq Procs \X Tokens,
           Handled' \subseteq {x.token : x \in triggers},
           faults' \in 0..MaxFaults
    PROVE  IInv'
  <1>1. TypeOK'
    BY DEF IInv, TypeOK
  <1>2. Agreement'
    <2>1. \A u \in Templates : ActiveVersions(u)' = ActiveVersions(u) /\ Drafts(u)' = Drafts(u)
      BY DEF ActiveVersions, Drafts
    <2> QED BY <2>1 DEF IInv, Agreement
  <1>3. Timing'
    BY DEF IInv, Timing
  <1>4. Results'
    BY DEF IInv, Results, TicketsMatchVersion, ScheduledAsArmed, ScheduleSpaced
  <1> QED BY <1>1, <1>2, <1>3, <1>4 DEF IInv

\* What a scheduler knows: the slots it has read are due and well formed.
LEMMA TickFacts ==
    ASSUME IInv, NEW p \in Procs
    PROVE  /\ tick[p].listed \subseteq [template : Templates, slot : Nat]
           /\ tick[p].owes \in Tokens \cup {NoToken}
           /\ \A l \in tick[p].listed : l.slot <= now + Skew
           /\ NoToken \notin Tokens
  BY DEF IInv, TypeOK, Timing, Tokens, NoToken

LEMMA ListStep ==
    ASSUME IInv, NEW p \in Procs, listDueProcessTemplates(p)
    PROVE  IInv'
  <1> USE ConstantFacts
  <1>1. PICK off \in (-Skew)..Skew :
          tick' = [tick EXCEPT ![p].listed = FirstOf(DueAt(now + off), CandidateLimit)]
    BY DEF listDueProcessTemplates
  <1>2. UNCHANGED <<now, template, version, triggers, started, owed, faults>>
    BY DEF listDueProcessTemplates, rowVars
  <1> DEFINE L == FirstOf(DueAt(now + off), CandidateLimit)
  <1>3. \A l \in L : l \in [template : Templates, slot : Nat] /\ l.slot <= now + Skew
    <2>1. ASSUME NEW l \in DueAt(now + off)
          PROVE  l \in [template : Templates, slot : Nat] /\ l.slot <= now + Skew
      <3>1. PICK t \in Templates : /\ l = [template |-> t, slot |-> template[t].schedule.next]
                                   /\ template[t].schedule.next <= now + off
        BY <2>1 DEF DueAt
      <3>2. template[t].schedule.next \in Nat /\ now \in Nat
        BY DEF IInv, TypeOK, TemplateRows, Schedules
      <3> QED BY <3>1, <3>2
    <2> QED BY <2>1 DEF FirstOf
  <1> HIDE DEF L
  <1>4. /\ tick' \in [Procs -> [listed : SUBSET [template : Templates, slot : Nat],
                                owes : Tokens \cup {NoToken}]]
        /\ tick'[p].listed = L
        /\ tick'[p].owes = tick[p].owes
        /\ \A q \in Procs : q # p => tick'[q] = tick[q]
    <2>1. tick' = [tick EXCEPT ![p] = [tick[p] EXCEPT !.listed = L]]
      BY <1>1 DEF L
    <2>2. tick[p] \in [listed : SUBSET [template : Templates, slot : Nat],
                       owes : Tokens \cup {NoToken}]
      BY DEF IInv, TypeOK
    <2>3. L \in SUBSET [template : Templates, slot : Nat]
      BY <1>3
    <2>4. /\ [tick[p] EXCEPT !.listed = L] \in
               [listed : SUBSET [template : Templates, slot : Nat], owes : Tokens \cup {NoToken}]
          /\ [tick[p] EXCEPT !.listed = L].listed = L
          /\ [tick[p] EXCEPT !.listed = L].owes = tick[p].owes
      BY <2>2, <2>3
    <2> QED BY <2>1, <2>4 DEF IInv, TypeOK
  <1>5. Handled' \subseteq {x.token : x \in triggers}
    <2>1. \A q \in Procs : tick'[q].owes = tick[q].owes
      BY <1>4
    <2> QED BY <1>2, <2>1 DEF Handled, IInv, TypeOK
  <1>6. \A q \in Procs : \A l \in tick'[q].listed : l.slot <= now + Skew
    BY <1>3, <1>4, TickFacts
  <1> QED BY <1>2, <1>4, <1>5, <1>6, ProcessStep DEF IInv, TypeOK

LEMMA StartScheduledStep ==
    ASSUME IInv, NEW p \in Procs, startScheduledRuns(p)
    PROVE  IInv'
  <1> DEFINE w == [tick[p] EXCEPT !.owes = NoToken]
  <1>1. /\ tick[p].owes # NoToken
        /\ started' = started \cup {tick[p].owes}
        /\ tick' = [tick EXCEPT ![p] = w]
        /\ UNCHANGED <<now, template, version, triggers, owed, faults>>
    BY DEF startScheduledRuns, rowVars
  <1>2. /\ w \in [listed : SUBSET [template : Templates, slot : Nat], owes : Tokens \cup {NoToken}]
        /\ w.listed = tick[p].listed
        /\ w.owes = NoToken
    BY DEF IInv, TypeOK
  <1> HIDE DEF w
  <1>3. /\ tick' \in [Procs -> [listed : SUBSET [template : Templates, slot : Nat],
                                owes : Tokens \cup {NoToken}]]
        /\ tick'[p] = w
        /\ \A q \in Procs : q # p => tick'[q] = tick[q]
    BY <1>1, <1>2 DEF IInv, TypeOK
  <1>4. Handled' \subseteq {x.token : x \in triggers}
    <2>1. Handled' \subseteq Handled
      BY <1>1, <1>2, <1>3 DEF Handled
    <2> QED BY <2>1 DEF IInv, TypeOK
  <1>5. \A q \in Procs : \A l \in tick'[q].listed : l.slot <= now + Skew
    BY <1>2, <1>3, TickFacts
  <1> QED BY <1>1, <1>3, <1>4, <1>5, ProcessStep DEF IInv, TypeOK

LEMMA StartManualStep ==
    ASSUME IInv, NEW p \in Procs, NEW token \in ManualTokens, startManualRuns(p, token)
    PROVE  IInv'
  <1>1. /\ <<p, token>> \in owed
        /\ started' = started \cup {token}
        /\ owed' = owed \ {<<p, token>>}
        /\ UNCHANGED <<now, template, version, triggers, tick, faults>>
    BY DEF startManualRuns, rowVars
  <1>2. token \in {x[2] : x \in owed}
    BY <1>1
  <1>3. Handled' \subseteq {x.token : x \in triggers}
    <2>1. Handled' \subseteq Handled
      BY <1>1, <1>2 DEF Handled
    <2> QED BY <2>1 DEF IInv, TypeOK
  <1> QED BY <1>1, <1>3, TickFacts, ProcessStep DEF IInv, TypeOK

LEMMA CrashStep ==
    ASSUME IInv, NEW p \in Procs, crash(p)
    PROVE  IInv'
  <1> USE ConstantFacts
  <1>1. /\ faults < MaxFaults /\ faults' = faults + 1
        /\ tick' = [tick EXCEPT ![p] = Idle]
        /\ owed' \subseteq owed
        /\ UNCHANGED <<now, template, version, triggers, started>>
    BY DEF crash, rowVars
  <1>2. /\ Idle \in [listed : SUBSET [template : Templates, slot : Nat], owes : Tokens \cup {NoToken}]
        /\ Idle.listed = {}
        /\ Idle.owes = NoToken
    BY DEF Idle
  <1>3. /\ tick' \in [Procs -> [listed : SUBSET [template : Templates, slot : Nat],
                                owes : Tokens \cup {NoToken}]]
        /\ tick'[p] = Idle
        /\ \A q \in Procs : q # p => tick'[q] = tick[q]
    BY <1>1, <1>2 DEF IInv, TypeOK
  <1>4. Handled' \subseteq {x.token : x \in triggers}
    <2>1. Handled' \subseteq Handled
      BY <1>1, <1>2, <1>3 DEF Handled
    <2> QED BY <2>1 DEF IInv, TypeOK
  <1>5. \A q \in Procs : \A l \in tick'[q].listed : l.slot <= now + Skew
    BY <1>2, <1>3, TickFacts
  <1>6. faults' \in 0..MaxFaults /\ owed' \subseteq Procs \X Tokens
    BY <1>1 DEF IInv, TypeOK
  <1> QED BY <1>1, <1>3, <1>4, <1>5, <1>6, ProcessStep

LEMMA AdvanceStep ==
    ASSUME IInv, advance
    PROVE  IInv'
  <1> USE ConstantFacts
  <1>1. /\ now < MaxTime /\ now' = now + 1
        /\ UNCHANGED <<template, version, triggers, started, tick, owed, faults>>
    BY DEF advance, rowVars, procVars
  <1>2. now \in Nat
    BY DEF IInv, TypeOK
  <1>3. TypeOK'
    <2>1. Handled' = Handled
      BY <1>1 DEF Handled
    <2> QED BY <1>1, <1>2, <2>1 DEF IInv, TypeOK
  <1>4. Agreement'
    <2>1. \A u \in Templates : ActiveVersions(u)' = ActiveVersions(u) /\ Drafts(u)' = Drafts(u)
      BY <1>1 DEF ActiveVersions, Drafts
    <2> QED BY <1>1, <2>1 DEF IInv, Agreement
  <1>5. Timing'
    <2>1. \A x \in triggers : x.at \in Nat
      BY DEF IInv, TypeOK, TriggerRows
    <2>2. \A p \in Procs : \A l \in tick[p].listed : l.slot \in Nat
      BY TickFacts
    <2> QED BY <1>1, <1>2, <2>1, <2>2 DEF IInv, Timing
  <1>6. Results'
    BY <1>1 DEF IInv, Results, TicketsMatchVersion, ScheduledAsArmed, ScheduleSpaced
  <1> QED BY <1>3, <1>4, <1>5, <1>6 DEF IInv

\* A trigger that commits a ticket, by whoever owes the runs afterwards.
LEMMA CommitStep ==
    ASSUME IInv, NEW t \in Templates, NEW token \in Tokens, NEW kind \in {"schedule", "manual"},
           template[t].exists,
           kind = "schedule" => /\ template[t].schedule.enabled
                                /\ template[t].schedule.next <= now + Skew,
           CreateTicket(t, token, kind),
           UNCHANGED <<now, version, started, faults>>,
           tick' \in [Procs -> [listed : SUBSET [template : Templates, slot : Nat],
                                owes : Tokens \cup {NoToken}]],
           \A p \in Procs : \A l \in tick'[p].listed : l.slot <= now + Skew,
           owed' \subseteq Procs \X Tokens,
           Handled' \subseteq Handled \cup {token}
    PROVE  IInv'
  <1>1. /\ template' \in [Templates -> TemplateRows]
        /\ \A u \in Templates :
             /\ template'[u].exists = template[u].exists
             /\ template'[u].current = template[u].current
             /\ template'[u].content = template[u].content
             /\ template'[u].schedule.enabled <=> template'[u].schedule.next # Never
             /\ template'[u].schedule.enabled =>
                  /\ template'[u].schedule.armed = template'[u].current
                  /\ template'[u].schedule.every > 0
        /\ triggers' \subseteq TriggerRows
        /\ triggers \subseteq triggers'
        /\ token \in {x.token : x \in triggers'}
        /\ Results'
        /\ \A x \in triggers' : x.kind = "schedule" =>
             /\ x.at <= now
             /\ template'[x.template].schedule.enabled =>
                  template'[x.template].schedule.next
                    >= x.at + template'[x.template].schedule.every
    BY CreateStep
  <1>2. \A u \in Templates : ~template'[u].exists => ~template'[u].schedule.enabled
    <2> SUFFICES ASSUME NEW u \in Templates, ~template'[u].exists
                 PROVE  ~template'[u].schedule.enabled
      OBVIOUS
    <2>1. u # t /\ ~template[u].exists
      BY <1>1
    <2>2. template'[u] = template[u]
      BY <2>1 DEF CreateTicket, IInv, TypeOK
    <2> QED BY <2>1, <2>2 DEF IInv, Agreement
  <1>3. Agreement'
    BY <1>1, <1>2, AgreementKept
  <1>4. Handled' \subseteq {x.token : x \in triggers'}
    <2>1. Handled \subseteq {x.token : x \in triggers'}
      BY <1>1 DEF IInv, TypeOK
    <2> QED BY <1>1, <2>1
  <1>5. TypeOK'
    BY <1>1, <1>4 DEF IInv, TypeOK
  <1>6. Timing'
    BY <1>1 DEF Timing
  <1> QED BY <1>1, <1>3, <1>5, <1>6 DEF IInv

LEMMA TriggerDueStep ==
    ASSUME IInv, NEW p \in Procs, triggerDueScheduledTemplate(p)
    PROVE  IInv'
  <1> USE ConstantFacts
  <1>1. PICK x \in FirstOf(tick[p].listed, 1) : triggerDueScheduledTemplate(p)!3!(x)
    BY DEF triggerDueScheduledTemplate
  <1> DEFINE token == ScheduleToken(x.template, x.slot)
             route == Route(x.template, token, "schedule", x.slot)
             Rest(owes) == [listed |-> tick[p].listed \ {x}, owes |-> owes]
  <1>2. UNCHANGED <<now, version, started, owed>>
    BY DEF triggerDueScheduledTemplate
  <1>3. /\ x \in tick[p].listed
        /\ x.template \in Templates /\ x.slot \in Nat /\ x.slot <= now + Skew
        /\ token \in Tokens /\ token # NoToken
    BY TickFacts DEF FirstOf, ScheduleToken, Tokens, NoToken
  <1>4. ASSUME NEW owes \in Tokens \cup {NoToken}, tick' = [tick EXCEPT ![p] = Rest(owes)]
        PROVE  /\ tick' \in [Procs -> [listed : SUBSET [template : Templates, slot : Nat],
                                       owes : Tokens \cup {NoToken}]]
               /\ \A q \in Procs : \A l \in tick'[q].listed : l.slot <= now + Skew
               /\ tick'[p].owes = owes
               /\ \A q \in Procs : q # p => tick'[q] = tick[q]
    <2>1. Rest(owes) \in [listed : SUBSET [template : Templates, slot : Nat],
                          owes : Tokens \cup {NoToken}]
      BY TickFacts
    <2>2. /\ tick' \in [Procs -> [listed : SUBSET [template : Templates, slot : Nat],
                                  owes : Tokens \cup {NoToken}]]
          /\ tick'[p] = Rest(owes)
          /\ \A q \in Procs : q # p => tick'[q] = tick[q]
      BY <1>4, <2>1 DEF IInv, TypeOK
    <2> QED BY <2>2, TickFacts
  <1>5. ASSUME NEW owes \in Tokens \cup {NoToken}, tick' = [tick EXCEPT ![p] = Rest(owes)]
        PROVE  /\ owes = NoToken => Handled' \subseteq Handled
               /\ Handled' \subseteq Handled \cup {owes}
    <2>1. /\ tick'[p].owes = owes
          /\ \A q \in Procs : q # p => tick'[q] = tick[q]
      BY <1>4, <1>5
    <2> QED BY <1>2, <2>1 DEF Handled
  <1>6. CASE /\ route = "create"
             /\ CreateTicket(x.template, token, "schedule")
             /\ tick' = [tick EXCEPT ![p] = Rest(token)]
             /\ UNCHANGED faults
    <2>1. /\ template[x.template].exists
          /\ template[x.template].schedule.enabled
          /\ template[x.template].schedule.next = x.slot
      BY <1>6 DEF Route
    <2>2. owed' \subseteq Procs \X Tokens
      BY <1>2 DEF IInv, TypeOK
    <2>3. /\ tick' \in [Procs -> [listed : SUBSET [template : Templates, slot : Nat],
                                  owes : Tokens \cup {NoToken}]]
          /\ \A q \in Procs : \A l \in tick'[q].listed : l.slot <= now + Skew
          /\ Handled' \subseteq Handled \cup {token}
      BY <1>3, <1>4, <1>5, <1>6
    <2> HIDE DEF token
    <2> QED BY <1>2, <1>3, <1>6, <2>1, <2>2, <2>3, CommitStep
  <1>7. CASE /\ route = "deduped"
             /\ tick' = [tick EXCEPT ![p] = Rest(token)]
             /\ UNCHANGED <<template, triggers, faults>>
    <2>1. token \in {y.token : y \in triggers}
      <3>1. TriggersOf(token) # {}
        BY <1>7 DEF Route
      <3> QED BY <3>1 DEF TriggersOf
    <2>2. Handled' \subseteq {y.token : y \in triggers}
      BY <1>3, <1>5, <1>7, <2>1 DEF IInv, TypeOK
    <2>3. owed' \subseteq Procs \X Tokens /\ faults' \in 0..MaxFaults
      BY <1>2, <1>7 DEF IInv, TypeOK
    <2> QED BY <1>2, <1>3, <1>4, <1>7, <2>2, <2>3, ProcessStep
  <1>8. CASE /\ tick' = [tick EXCEPT ![p] = Rest(NoToken)]
             /\ UNCHANGED <<template, triggers>>
             /\ faults' = faults \/ (faults < MaxFaults /\ faults' = faults + 1)
    <2>1. Handled' \subseteq {y.token : y \in triggers}
      BY <1>5, <1>8 DEF IInv, TypeOK
    <2>2. owed' \subseteq Procs \X Tokens /\ faults' \in 0..MaxFaults
      BY <1>2, <1>8 DEF IInv, TypeOK
    <2> QED BY <1>2, <1>4, <1>8, <2>1, <2>2, ProcessStep
  <1> QED BY <1>1, <1>6, <1>7, <1>8 DEF RefuseTicket

LEMMA TriggerManualStep ==
    ASSUME IInv, NEW p \in Procs, NEW t \in Templates, NEW token \in ManualTokens,
           triggerProcessTemplate(p, t, token)
    PROVE  IInv'
  <1> DEFINE route == Route(t, token, "manual", Never)
  <1>1. /\ owed' = owed \cup {<<p, token>>}
        /\ UNCHANGED <<now, version, started, tick, faults>>
        /\ \/ route = "create" /\ CreateTicket(t, token, "manual")
           \/ route = "deduped" /\ UNCHANGED <<template, triggers>>
    BY DEF triggerProcessTemplate
  <1>2. token \in Tokens
    BY ConstantFacts DEF ManualTokens, ScheduleToken, Tokens
  <1>3. /\ owed' \subseteq Procs \X Tokens
        /\ Handled' \subseteq Handled \cup {token}
    BY <1>1, <1>2 DEF Handled, IInv, TypeOK
  <1>4. /\ tick' \in [Procs -> [listed : SUBSET [template : Templates, slot : Nat],
                                owes : Tokens \cup {NoToken}]]
        /\ \A q \in Procs : \A l \in tick'[q].listed : l.slot <= now + Skew
        /\ faults' \in 0..MaxFaults
    BY <1>1, TickFacts DEF IInv, TypeOK
  <1>5. CASE route = "create" /\ CreateTicket(t, token, "manual")
    <2>1. template[t].exists
      BY <1>5 DEF Route
    <2> QED BY <1>1, <1>2, <1>3, <1>4, <1>5, <2>1, CommitStep
  <1>6. CASE route = "deduped" /\ UNCHANGED <<template, triggers>>
    <2>1. token \in {y.token : y \in triggers}
      <3>1. TriggersOf(token) # {}
        BY <1>6 DEF Route
      <3> QED BY <3>1 DEF TriggersOf
    <2>2. Handled' \subseteq {y.token : y \in triggers}
      BY <1>3, <2>1 DEF IInv, TypeOK
    <2> QED BY <1>1, <1>3, <1>4, <1>6, <2>2, ProcessStep
  <1> QED BY <1>1, <1>5, <1>6

-----------------------------------------------------------------------------
(* The invariant and the theorems *)

LEMMA InvInit == Init => IInv
  <1> SUFFICES ASSUME Init PROVE IInv
    OBVIOUS
  <1> USE ConstantFacts
  <1>1. Absent \in TemplateRows /\ ~Absent.exists /\ ~Absent.schedule.enabled
        /\ Absent.schedule.next = Never
    BY NoScheduleType DEF Absent, TemplateRows
  <1>2. Idle \in [listed : SUBSET [template : Templates, slot : Nat], owes : Tokens \cup {NoToken}]
        /\ Idle.listed = {} /\ Idle.owes = NoToken
    BY DEF Idle
  <1>3. Handled = {}
    BY <1>2 DEF Init, Handled
  <1>4. TypeOK
    BY <1>1, <1>2, <1>3 DEF Init, TypeOK
  <1>5. Agreement
    BY <1>1 DEF Init, Agreement
  <1>6. Timing /\ Results
    BY <1>2 DEF Init, Timing, Results, TicketsMatchVersion, ScheduledAsArmed, ScheduleSpaced
  <1> QED BY <1>4, <1>5, <1>6 DEF IInv

LEMMA InvNext == IInv /\ [Next]_vars => IInv'
  <1> SUFFICES ASSUME IInv, [Next]_vars PROVE IInv'
    OBVIOUS
  <1>1. ASSUME NEW t \in Templates, Operator(t) PROVE IInv'
    BY <1>1, OperatorRowStep, CreateTemplateStep, DraftStep, ActivateStep DEF Operator
  <1>2. ASSUME NEW p \in Procs, Tick(p) PROVE IInv'
    BY <1>2, ListStep, TriggerDueStep, StartScheduledStep DEF Tick
  <1>3. ASSUME NEW p \in Procs, crash(p) PROVE IInv'
    BY <1>3, CrashStep
  <1>4. ASSUME NEW p \in Procs, NEW token \in ManualTokens, Request(p, token) PROVE IInv'
    BY <1>4, TriggerManualStep, StartManualStep DEF Request
  <1>5. CASE advance
    BY <1>5, AdvanceStep
  <1>6. CASE UNCHANGED vars
    <2>1. Handled' = Handled
      BY <1>6 DEF vars, Handled
    <2>2. \A u \in Templates : ActiveVersions(u)' = ActiveVersions(u) /\ Drafts(u)' = Drafts(u)
      BY <1>6 DEF vars, ActiveVersions, Drafts
    <2> QED BY <1>6, <2>1, <2>2 DEF vars, IInv, TypeOK, Agreement, Timing, Results,
               TicketsMatchVersion, ScheduledAsArmed, ScheduleSpaced
  <1> QED BY <1>1, <1>2, <1>3, <1>4, <1>5, <1>6 DEF Next

\* The strengthening is an invariant of the specification.
LEMMA Invariance == Spec => []IInv
  BY InvInit, InvNext, PTL DEF Spec

\* The rows keep their shapes and no run is created for a ticket that was not
\* committed, whatever the ticks, requests, crashes and operator changes.
THEOREM TypeCorrect == Spec => []TypeOK
  <1>1. IInv => TypeOK
    BY DEF IInv
  <1> QED BY <1>1, Invariance, PTL

\* The root row always names the one active version, so neither startup nor a
\* trigger ever finds a template whose versions disagree.
THEOREM VersionsConsistent == Spec => []VersionsAgree
  <1>1. IInv => VersionsAgree
    BY DEF IInv, Agreement, VersionsAgree
  <1> QED BY <1>1, Invariance, PTL

\* Every trigger row records the version its ticket was made of.
THEOREM TicketsTruthful == Spec => []TicketsMatchVersion
  <1>1. IInv => TicketsMatchVersion
    BY DEF IInv, Results
  <1> QED BY <1>1, Invariance, PTL

\* No tick creates a ticket of a version activated after its slot was set.
THEOREM ScheduledVersionStable == Spec => []ScheduledAsArmed
  <1>1. IInv => ScheduledAsArmed
    BY DEF IInv, Results
  <1> QED BY <1>1, Invariance, PTL

\* There is no catch-up: scheduled tickets of one template are an interval apart.
THEOREM NoCatchUp == Spec => []ScheduleSpaced
  <1>1. IInv => ScheduleSpaced
    BY DEF IInv, Results
  <1> QED BY <1>1, Invariance, PTL

=============================================================================
