---------------------- MODULE TargetOperationsProofs ----------------------
(***************************************************************************)
(* Theorems about TargetOperations, for any runs, operations, paths and    *)
(* workers and any number of faults.                                       *)
(*                                                                         *)
(* The locks keep the sections of two workers apart; therefore what a      *)
(* worker has found out about its own paths when it entered the section    *)
(* (Quiet) still holds when it acts on it, whatever the others do: no      *)
(* intent is prepared twice, the disk is as the intent says when the       *)
(* effect is applied, and the effect is still there when the receipt is    *)
(* written.  That is true as long as no lock session is lost.              *)
(***************************************************************************)
EXTENDS TargetOperations, FiniteSetTheorems, WellFoundedInduction, TLAPS

\* Everything on the disk is in a directory.
TreeOf(d) ==
    \A p \in Paths : d[p] # Absent => \A q \in Ancestors[p] \ {Root} : d[q] = Dir

\* What a worker does fits what it does it for.
Control(w) ==
    /\ mode[w] = "idle" => pc[w] = "idle" /\ op[w] = NoOp
    /\ mode[w] = "freeze" => pc[w] \in {"lock", "check", "leave"} /\ op[w] = NoOp
    /\ mode[w] \in {"execute", "recover"} =>
          pc[w] # "idle" /\ (pc[w] \in {"next", "ending"} \/ op[w] \in Ops)
    /\ mode[w] = "recover" =>
          /\ pc[w] \notin {"prepare", "apply", "failing"}
          /\ \A o \in todo[w] : intent[o] # <<>>
          /\ op[w] # NoOp => intent[op[w]] # <<>>
    /\ pc[w] \in {"apply", "complete"} => intent[op[w]] # <<>>

\* A worker in its section has all its locks, as long as no session is lost.
Locked(w) == ~lost /\ InSection(w) => LockRequests(op[w]) \subseteq held[w]

\* A resource that two sessions hold is exclusive to neither.
Apart ==
    \A w, u \in Workers : w # u => \A x \in held[w] \cap held[u] : x \notin Exclusive(op[w])

\* No file of another ticket lies on, above or below the paths of o.
Clear(o) ==
    \/ Def[o].run \in Permitted
    \/ \A c \in Ops : Succeeded(c) /\ Ticket(c) # Ticket(o) =>
          \A a \in Artifacts(c) :
              (\E x \in Targets(o) : Overlap(a, x)) => disk[a] \in {Absent, Dir}

\* What a worker in its section relies on.
Quiet(w) ==
    ~lost =>
        /\ pc[w] = "prepare" => intent[op[w]] = <<>>
        /\ pc[w] = "apply" => PreState(op[w], disk) = intent[op[w]]
        /\ pc[w] = "complete" /\ outcome[w] = "succeeded" => Done(op[w], disk)
        /\ pc[w] \in {"prepare", "apply"} => Clear(op[w])

Charges ==
    /\ ChargesFollowIntents
    /\ \A r \in Runs : IsFiniteSet(Charged(r))

\* An operation that has changed the disk was prepared, and the disk shows it.
History ==
    \A o \in Ops : changes[o] > 0 =>
        /\ intent[o] # <<>>
        /\ ~lost /\ ~disturbed[o] => changes[o] = 1 /\ PreState(o, disk) # intent[o]

IInv ==
    /\ TypeOK
    /\ \A w \in Workers : Control(w) /\ Locked(w) /\ Quiet(w)
    /\ Apart
    /\ Charges
    /\ TreeOf(disk)
    /\ History

-----------------------------------------------------------------------------
(* Paths and effects *)

LEMMA PathFacts ==
    /\ Root \notin Paths /\ NoOp \notin Ops
    /\ Absent # Dir /\ Absent # Torn /\ Dir # Torn
    /\ Absent \in Contents /\ Dir \in Contents /\ Torn \in Contents
    /\ \A v \in Values : v \in Contents /\ v # Absent /\ v # Dir /\ v # Torn
    /\ \A o \in Ops : /\ Def[o].path \in Paths /\ Def[o].next \in Paths
                      /\ Def[o].value \in Values /\ Def[o].run \in Runs
                      /\ Def[o].kind \in Kinds
    /\ \A p \in Paths : p \notin Ancestors[p]
    /\ \A p, q, s \in Paths : q \in Ancestors[p] /\ s \in Ancestors[q] => s \in Ancestors[p]
    /\ \A o \in Ops, p \in Paths : Def[o].kind = "renamePath" => Def[o].path \notin Ancestors[p]
    /\ \A x \in Resources : Ancestors[x] \subseteq Resources
  BY ConstantsAssumption DEF ConstantsAssumption, Contents, Resources

LEMMA TargetFacts ==
    ASSUME NEW o \in Ops
    PROVE  /\ Targets(o) \subseteq Paths
           /\ Def[o].path \in Targets(o)
           /\ Def[o].kind = "renamePath" => Targets(o) = {Def[o].path, Def[o].next}
           /\ Def[o].kind # "renamePath" => Targets(o) = {Def[o].path}
           /\ Artifacts(o) \subseteq Targets(o)
  BY PathFacts DEF Targets, Artifacts

LEMMA OverlapSymmetric == \A x, y : Overlap(x, y) => Overlap(y, x)
  BY DEF Overlap

\* What the step from disk d to disk e, by operation o, may be.
Outcome(o, d, e) ==
    /\ e \in [Paths -> Contents]
    /\ TreeOf(e)
    /\ \A p \in Paths : e[p] # d[p] => \E x \in Targets(o) : Overlap(p, x)
    /\ \A p \in Paths : e[p] \notin {Absent, Dir} /\ e[p] # d[p] => p \in Targets(o)

LEMMA FolderOutcome ==
    ASSUME NEW o \in Ops, NEW d \in [Paths -> Contents], TreeOf(d), Feasible(o, d),
           Def[o].kind = "createFolder"
    PROVE  Outcome(o, d, Effect(o, d))
  <1>1. PICK a \in Paths : a = Def[o].path
    BY PathFacts
  <1>2. /\ d[a] \in {Absent, Dir} /\ \A q \in Ancestors[a] \ {Root} : d[q] = Dir
    BY <1>1 DEF Feasible
  <1>3. PICK e : e = Effect(o, d)
    OBVIOUS
  <1>4. /\ e \in [Paths -> Contents] /\ e[a] = Dir /\ \A p \in Paths : p # a => e[p] = d[p]
    BY <1>1, <1>3, PathFacts DEF Effect
  <1>5. TreeOf(e)
    <2> SUFFICES ASSUME NEW p \in Paths, e[p] # Absent, NEW q \in Ancestors[p] \ {Root}
                 PROVE  e[q] = Dir
      BY DEF TreeOf
    <2>1. q \in Paths
      BY PathFacts DEF Resources
    <2>2. CASE p = a
      BY <1>2, <1>4, <2>1, <2>2, PathFacts
    <2>3. CASE p # a
      BY <1>4, <2>1, <2>3 DEF TreeOf
    <2> QED BY <2>2, <2>3
  <1>7. a \in Targets(o) /\ Overlap(a, a)
    BY <1>1, TargetFacts DEF Overlap
  <1> QED BY <1>3, <1>4, <1>5, <1>7 DEF Outcome

\* A file that is written, in full or in part.
LEMMA WriteOutcome ==
    ASSUME NEW o \in Ops, NEW d \in [Paths -> Contents], TreeOf(d), Feasible(o, d),
           Def[o].kind = "writeFile", NEW v \in Contents \ {Absent, Dir},
           NEW e, e = [WithParents(d, Def[o].path) EXCEPT ![Def[o].path] = v]
    PROVE  Outcome(o, d, e) /\ e[Def[o].path] = v
  <1>1. PICK a \in Paths : a = Def[o].path
    BY PathFacts
  <1>2. d[a] # Dir
    BY <1>1 DEF Feasible
  <1>4. /\ e \in [Paths -> Contents] /\ e[a] = v
        /\ \A p \in Paths : p # a => e[p] = IF p \in Ancestors[a] THEN Dir ELSE d[p]
    BY <1>1, PathFacts DEF WithParents
  <1>5. TreeOf(e)
    <2> SUFFICES ASSUME NEW p \in Paths, e[p] # Absent, NEW q \in Ancestors[p] \ {Root}
                 PROVE  e[q] = Dir
      BY DEF TreeOf
    <2>1. q \in Paths
      BY PathFacts DEF Resources
    <2>2. CASE p = a \/ p \in Ancestors[a]
      <3>1. q \in Ancestors[a] /\ q # a
        BY <2>1, <2>2, PathFacts
      <3> QED BY <1>4, <2>1, <3>1
    <2>3. CASE p # a /\ p \notin Ancestors[a]
      <3>1. d[q] = Dir
        BY <1>4, <2>3 DEF TreeOf
      <3> QED BY <1>2, <1>4, <2>1, <3>1
    <2> QED BY <2>2, <2>3
  <1>7. a \in Targets(o) /\ \A p \in Paths : p = a \/ p \in Ancestors[a] => Overlap(p, a)
    BY <1>1, TargetFacts DEF Overlap
  <1> QED BY <1>1, <1>4, <1>5, <1>7 DEF Outcome

LEMMA RenameOutcome ==
    ASSUME NEW o \in Ops, NEW d \in [Paths -> Contents], TreeOf(d), Feasible(o, d),
           Def[o].kind = "renamePath"
    PROVE  /\ Outcome(o, d, Effect(o, d))
           /\ Effect(o, d)[Def[o].path] = Absent
           /\ Effect(o, d)[Def[o].next] = d[Def[o].path] /\ d[Def[o].path] # Absent
  <1>1. PICK a \in Paths, b \in Paths : a = Def[o].path /\ b = Def[o].next
    BY PathFacts
  <1>2. d[a] # Absent /\ d[b] = Absent /\ a # b /\ \A p \in Paths : a \notin Ancestors[p]
    BY <1>1, PathFacts DEF Feasible
  <1>3. PICK e : e = Effect(o, d)
    OBVIOUS
  <1>4. /\ e \in [Paths -> Contents] /\ e[a] = Absent /\ e[b] = d[a]
        /\ \A p \in Paths : p # a /\ p # b => e[p] = IF p \in Ancestors[b] THEN Dir ELSE d[p]
    <2>1. e = [WithParents(d, b) EXCEPT ![a] = Absent, ![b] = d[a]]
      BY <1>1, <1>3 DEF Effect
    <2> QED BY <1>2, <2>1, PathFacts DEF WithParents
  <1>5. TreeOf(e)
    <2> SUFFICES ASSUME NEW p \in Paths, e[p] # Absent, NEW q \in Ancestors[p] \ {Root}
                 PROVE  e[q] = Dir
      BY DEF TreeOf
    <2>1. q \in Paths /\ q # a /\ p # a
      BY <1>2, <1>4, PathFacts DEF Resources
    <2>2. CASE p = b \/ p \in Ancestors[b]
      <3>1. q \in Ancestors[b] /\ q # b
        BY <2>1, <2>2, PathFacts
      <3> QED BY <1>4, <2>1, <3>1
    <2>3. CASE p # b /\ p \notin Ancestors[b]
      <3>1. d[q] = Dir
        BY <1>4, <2>1, <2>3 DEF TreeOf
      <3> QED BY <1>2, <1>4, <2>1, <3>1, PathFacts
    <2> QED BY <2>2, <2>3
  <1>7. /\ a \in Targets(o) /\ b \in Targets(o)
        /\ \A p \in Paths : (p = b \/ p \in Ancestors[b] => Overlap(p, b)) /\ (p = a => Overlap(p, a))
    BY <1>1, TargetFacts DEF Overlap
  <1>8. Outcome(o, d, e)
    BY <1>4, <1>5, <1>7 DEF Outcome
  <1> QED BY <1>1, <1>2, <1>3, <1>4, <1>8

LEMMA DeleteOutcome ==
    ASSUME NEW o \in Ops, NEW d \in [Paths -> Contents], TreeOf(d),
           Def[o].kind = "deletePath"
    PROVE  Outcome(o, d, Effect(o, d)) /\ Effect(o, d)[Def[o].path] = Absent
  <1>1. PICK a \in Paths : a = Def[o].path
    BY PathFacts
  <1>3. PICK e : e = Effect(o, d)
    OBVIOUS
  <1>4. /\ e \in [Paths -> Contents]
        /\ \A p \in Paths : e[p] = IF p = a \/ a \in Ancestors[p] THEN Absent ELSE d[p]
    <2>1. e = [q \in Paths |-> IF q = a \/ q \in Below(a) THEN Absent ELSE d[q]]
      BY <1>1, <1>3 DEF Effect
    <2> QED BY <2>1, PathFacts DEF Below
  <1>5. TreeOf(e)
    <2> SUFFICES ASSUME NEW p \in Paths, e[p] # Absent, NEW q \in Ancestors[p] \ {Root}
                 PROVE  e[q] = Dir
      BY DEF TreeOf
    <2>1. q \in Paths /\ p # a /\ a \notin Ancestors[p]
      BY <1>4, PathFacts DEF Resources
    <2>2. q # a /\ a \notin Ancestors[q]
      BY <2>1, PathFacts
    <2> QED BY <1>4, <2>1, <2>2 DEF TreeOf
  <1>7. a \in Targets(o) /\ \A p \in Paths : p = a \/ a \in Ancestors[p] => Overlap(p, a)
    BY <1>1, TargetFacts DEF Overlap
  <1>8. Outcome(o, d, e)
    BY <1>4, <1>5, <1>7 DEF Outcome
  <1> QED BY <1>1, <1>3, <1>4, <1>8

LEMMA EffectOutcome ==
    ASSUME NEW o \in Ops, NEW d \in [Paths -> Contents], TreeOf(d), Feasible(o, d)
    PROVE  Outcome(o, d, Effect(o, d))
  <1>1. CASE Def[o].kind = "createFolder"
    BY <1>1, FolderOutcome
  <1>2. CASE Def[o].kind = "writeFile"
    <2>1. Def[o].value \in Contents \ {Absent, Dir}
      BY PathFacts
    <2>2. Effect(o, d) = [WithParents(d, Def[o].path) EXCEPT ![Def[o].path] = Def[o].value]
      BY <1>2 DEF Effect
    <2> QED BY <1>2, <2>1, <2>2, WriteOutcome
  <1>3. CASE Def[o].kind = "renamePath"
    BY <1>3, RenameOutcome
  <1>4. CASE Def[o].kind = "deletePath"
    BY <1>4, DeleteOutcome
  <1> QED BY <1>1, <1>2, <1>3, <1>4, PathFacts DEF Kinds

LEMMA TornOutcome ==
    ASSUME NEW o \in Ops, NEW d \in [Paths -> Contents], TreeOf(d), Feasible(o, d),
           Def[o].kind = "writeFile"
    PROVE  Outcome(o, d, [Effect(o, d) EXCEPT ![Def[o].path] = Torn])
  <1>1. PICK e : e = [Effect(o, d) EXCEPT ![Def[o].path] = Torn]
    OBVIOUS
  <1>2. e = [WithParents(d, Def[o].path) EXCEPT ![Def[o].path] = Torn]
    BY <1>1, PathFacts DEF Effect, WithParents
  <1>3. Torn \in Contents \ {Absent, Dir}
    BY PathFacts
  <1> QED BY <1>1, <1>2, <1>3, WriteOutcome

\* Some of the parents of a path to be written or moved to.
LEMMA ParentsOutcome ==
    ASSUME NEW o \in Ops, NEW d \in [Paths -> Contents], TreeOf(d),
           NEW b \in Targets(o), b \in Paths, ParentsAllow(d, b), NEW e \in SomeParents(d, b)
    PROVE  Outcome(o, d, e)
  <1>1. PICK S \in SUBSET (Ancestors[b] \ {Root}) :
            Upward(S) /\ e = [q \in Paths |-> IF q \in S THEN Dir ELSE d[q]]
    BY DEF SomeParents
  <1>2. /\ e \in [Paths -> Contents]
        /\ \A p \in Paths : e[p] = IF p \in S THEN Dir ELSE d[p]
    BY <1>1, PathFacts
  <1>3. TreeOf(e)
    <2> SUFFICES ASSUME NEW p \in Paths, e[p] # Absent, NEW q \in Ancestors[p] \ {Root}
                 PROVE  e[q] = Dir
      BY DEF TreeOf
    <2>1. q \in Paths
      BY PathFacts DEF Resources
    <2>2. CASE p \in S
      BY <1>1, <1>2, <2>1, <2>2 DEF Upward
    <2>3. CASE p \notin S
      BY <1>2, <2>1, <2>3 DEF TreeOf
    <2> QED BY <2>2, <2>3
  <1>4. \A p \in Paths : p \in S => Overlap(p, b)
    BY <1>1 DEF Overlap
  <1> QED BY <1>2, <1>3, <1>4, PathFacts DEF Outcome

\* Some of the entries of a folder to be deleted.
LEMMA EntriesOutcome ==
    ASSUME NEW o \in Ops, NEW d \in [Paths -> Contents], TreeOf(d),
           NEW a \in Targets(o), a \in Paths, NEW e \in SomeEntriesLess(d, a)
    PROVE  Outcome(o, d, e)
  <1>1. PICK S \in SUBSET Below(a) :
            Downward(S) /\ e = [q \in Paths |-> IF q \in S THEN Absent ELSE d[q]]
    BY DEF SomeEntriesLess
  <1>2. /\ e \in [Paths -> Contents]
        /\ \A p \in Paths : e[p] = IF p \in S THEN Absent ELSE d[p]
    BY <1>1, PathFacts
  <1>3. TreeOf(e)
    <2> SUFFICES ASSUME NEW p \in Paths, e[p] # Absent, NEW q \in Ancestors[p] \ {Root}
                 PROVE  e[q] = Dir
      BY DEF TreeOf
    <2>1. q \in Paths /\ p \notin S
      BY <1>2, PathFacts DEF Resources
    <2>2. q \notin S
      BY <1>1, <2>1 DEF Downward, Below
    <2> QED BY <1>2, <2>1, <2>2 DEF TreeOf
  <1>4. \A p \in Paths : p \in S => Overlap(p, a)
    BY <1>1 DEF Overlap, Below
  <1> QED BY <1>2, <1>3, <1>4, PathFacts DEF Outcome

LEMMA PartialOutcome ==
    ASSUME NEW o \in Ops, NEW d \in [Paths -> Contents], TreeOf(d), Feasible(o, d),
           NEW e \in PartialEffects(o, d)
    PROVE  Outcome(o, d, e)
  <1>1. PICK a \in Paths, b \in Paths : a = Def[o].path /\ b = Def[o].next
    BY PathFacts
  <1>2. CASE Def[o].kind = "createFolder"
    <2>1. e = d
      BY <1>2 DEF PartialEffects
    <2> QED BY <2>1 DEF Outcome
  <1>3. CASE Def[o].kind = "writeFile"
    <2>1. ParentsAllow(d, a) /\ a \in Targets(o)
      BY <1>1, <1>3, TargetFacts DEF Feasible
    <2>2. e \in SomeParents(d, a) \/ e = [Effect(o, d) EXCEPT ![Def[o].path] = Torn]
      BY <1>1, <1>3 DEF PartialEffects
    <2> QED BY <1>3, <2>1, <2>2, ParentsOutcome, TornOutcome
  <1>4. CASE Def[o].kind = "renamePath"
    <2>1. ParentsAllow(d, b) /\ b \in Targets(o)
      BY <1>1, <1>4, TargetFacts DEF Feasible
    <2>2. e \in SomeParents(d, b)
      BY <1>1, <1>4 DEF PartialEffects
    <2> QED BY <2>1, <2>2, ParentsOutcome
  <1>5. CASE Def[o].kind = "deletePath"
    <2>1. e \in SomeEntriesLess(d, a) /\ a \in Targets(o)
      BY <1>1, <1>5, TargetFacts DEF PartialEffects
    <2> QED BY <2>1, EntriesOutcome
  <1> QED BY <1>2, <1>3, <1>4, <1>5, PathFacts DEF Kinds

\* The effect on a disk that is as the intent says is the effect intended.
LEMMA EffectDone ==
    ASSUME NEW o \in Ops, NEW d \in [Paths -> Contents], TreeOf(d), Feasible(o, d),
           PreState(o, d) = intent[o]
    PROVE  Done(o, Effect(o, d))
  <1>1. CASE Def[o].kind = "createFolder"
    <2>1. Effect(o, d)[Def[o].path] = Dir
      BY <1>1, PathFacts DEF Effect
    <2> QED BY <1>1, <2>1 DEF Done, EffectVisible
  <1>2. CASE Def[o].kind = "writeFile"
    <2>1. Effect(o, d)[Def[o].path] = Def[o].value
      BY <1>2, PathFacts DEF Effect, WithParents
    <2> QED BY <1>2, <2>1 DEF Done, EffectVisible
  <1>3. CASE Def[o].kind = "renamePath"
    <2>1. intent[o][1] = d[Def[o].path]
      BY <1>3 DEF PreState
    <2> QED BY <1>3, <2>1, RenameOutcome DEF Done
  <1>4. CASE Def[o].kind = "deletePath"
    BY <1>4, DeleteOutcome DEF Done, EffectVisible
  <1> QED BY <1>1, <1>2, <1>3, <1>4, PathFacts DEF Kinds

\* An effect that recovery or a later attempt recognizes is the effect intended.
LEMMA VisibleDone ==
    ASSUME NEW o \in Ops, EffectVisible(o, disk)
    PROVE  Done(o, disk)
  <1>1. CASE Def[o].kind = "renamePath"
    BY <1>1, PathFacts DEF Done, EffectVisible
  <1>2. CASE Def[o].kind # "renamePath"
    BY <1>2 DEF Done
  <1> QED BY <1>1, <1>2

\* What is known of an operation's paths depends on nothing but these paths.
LEMMA SamePaths ==
    ASSUME NEW o \in Ops, \A x \in Targets(o) : disk'[x] = disk[x], intent'[o] = intent[o]
    PROVE  /\ PreState(o, disk') = PreState(o, disk)
           /\ Done(o, disk) => Done(o, disk)'
  <1>1. CASE Def[o].kind = "renamePath"
    <2>1. /\ disk'[Def[o].path] = disk[Def[o].path] /\ disk'[Def[o].next] = disk[Def[o].next]
      BY <1>1, TargetFacts
    <2> QED BY <1>1, <2>1 DEF PreState, Done
  <1>2. CASE Def[o].kind # "renamePath"
    <2>1. disk'[Def[o].path] = disk[Def[o].path]
      BY <1>2, TargetFacts
    <2>2. PreState(o, disk') = PreState(o, disk)
      BY <1>2, <2>1 DEF PreState
    <2>3. Done(o, disk) => Done(o, disk)'
      BY <1>2, <2>1 DEF Done, EffectVisible
    <2> QED BY <2>2, <2>3
  <1> QED BY <1>1, <1>2

LEMMA PreStateNotEmpty ==
    ASSUME NEW o, NEW d
    PROVE  PreState(o, d) # <<>>
  BY DEF PreState

LEMMA ClassifyFacts ==
    ASSUME NEW o \in Ops
    PROVE  /\ Classify(o) \in {"uncertain", "applied", "not_applied"}
           /\ Classify(o) = "not_applied" => PreState(o, disk) = intent[o]
           /\ Classify(o) = "applied" => Done(o, disk)
  <1>1. Classify(o) = "applied" => EffectVisible(o, disk)
    BY DEF Classify
  <1> QED BY <1>1, VisibleDone DEF Classify

-----------------------------------------------------------------------------
(* Sections *)

LEMMA RequestFacts ==
    ASSUME NEW o
    PROVE  /\ Targets(o) \subseteq LockRequests(o)
           /\ \A x \in Targets(o) : Ancestors[x] \subseteq LockRequests(o)
  BY DEF LockRequests

\* The locks keep sections apart.
LEMMA LocksSeparate ==
    ASSUME \A w \in Workers : Locked(w), Apart
    PROVE  SectionsDisjoint
  <1> SUFFICES ASSUME ~lost, NEW w \in Workers, NEW u \in Workers, w # u,
                      InSection(w), InSection(u),
                      NEW x \in Targets(op[w]), NEW y \in Targets(op[u]), Overlap(x, y)
               PROVE  FALSE
    BY DEF SectionsDisjoint
  <1>1. LockRequests(op[w]) \subseteq held[w] /\ LockRequests(op[u]) \subseteq held[u]
    BY DEF Locked
  <1>2. x \in held[w] /\ y \in held[u]
    BY <1>1, RequestFacts
  <1>3. x \in held[u] \/ y \in held[w]
    BY <1>1, RequestFacts DEF Overlap
  <1> QED BY <1>2, <1>3 DEF Apart, Exclusive

\* Two workers in sections work on different operations and different paths.
LEMMA OthersApart ==
    ASSUME IInv, ~lost, NEW w \in Workers, NEW u \in Workers, w # u,
           InSection(w), InSection(u), op[w] \in Ops, op[u] \in Ops
    PROVE  /\ op[u] # op[w]
           /\ \A x \in Targets(op[w]), y \in Targets(op[u]) : ~Overlap(x, y) /\ ~Overlap(y, x)
  <1>1. \A x \in Targets(op[w]), y \in Targets(op[u]) : ~Overlap(x, y)
    BY LocksSeparate DEF IInv, SectionsDisjoint
  <1>2. op[u] # op[w]
    BY <1>1, TargetFacts DEF Overlap
  <1> QED BY <1>1, <1>2, OverlapSymmetric

-----------------------------------------------------------------------------
(* Frames *)

RowTypes ==
    /\ status \in [Runs -> {"pending", "running", "interrupted", "ended"}]
    /\ holder \in [Runs -> Workers \cup {NoWorker, Gone}]
    /\ live \in [Runs -> BOOLEAN]
    /\ faults \in 0..MaxFaults

DataTypes ==
    /\ disk \in [Paths -> Contents]
    /\ DOMAIN intent = Ops
    /\ receipt \in [Ops -> {"none", "succeeded", "failed"}]
    /\ charge \in [Ops -> {"none", "reserved", "committed"}]
    /\ changes \in [Ops -> Nat]
    /\ disturbed \in [Ops -> BOOLEAN]

WorkTypes ==
    /\ mode \in [Workers -> {"idle", "execute", "recover", "freeze"}]
    /\ run \in [Workers -> Runs \cup {NoRun}]
    /\ todo \in [Workers -> SUBSET Ops]
    /\ op \in [Workers -> Ops \cup {NoOp}]
    /\ pc \in [Workers -> {"idle", "next", "lock", "check", "prepare", "apply",
                           "complete", "leave", "failing", "ending"}]
    /\ outcome \in [Workers -> {"succeeded", "failed"}]
    /\ doubt \in [Workers -> BOOLEAN]
    /\ held \in [Workers -> SUBSET Resources]
    /\ \A w \in Workers : held[w] # {} => pc[w] = "lock" \/ InSection(w)

LEMMA TypeParts == TypeOK <=> RowTypes /\ DataTypes /\ WorkTypes /\ lost \in BOOLEAN
  BY DEF TypeOK, RowTypes, DataTypes, WorkTypes

LEMMA TypePartsNext ==
    ASSUME RowTypes', DataTypes', WorkTypes', lost' \in BOOLEAN
    PROVE  TypeOK'
  BY DEF TypeOK, RowTypes, DataTypes, WorkTypes

\* A step that is not about u leaves all of this to it.
SameWorker(u) ==
    /\ mode'[u] = mode[u] /\ todo'[u] = todo[u] /\ op'[u] = op[u]
    /\ pc'[u] = pc[u] /\ outcome'[u] = outcome[u] /\ held'[u] = held[u]

OthersSame(w) == \A u \in Workers : u # w => SameWorker(u)

\* What a worker relies on apart from the data.
Placed(w) == Control(w) /\ Locked(w)

LEMMA OtherPlaced ==
    ASSUME IInv, NEW u \in Workers, SameWorker(u), ~lost' => ~lost,
           \A o \in Ops : intent[o] # <<>> => intent'[o] # <<>>
    PROVE  Placed(u)'
  <1>1. Control(u) /\ Locked(u) /\ todo[u] \subseteq Ops /\ op[u] \in Ops \cup {NoOp}
    BY DEF IInv, TypeOK
  <1>2. pc[u] \in {"apply", "complete"} => op[u] \in Ops
    BY <1>1 DEF Control, IInv, TypeOK
  <1>3. Control(u)'
    BY <1>1, <1>2 DEF Control, SameWorker
  <1>4. Locked(u)'
    BY <1>1 DEF Locked, InSection, SameWorker, LockRequests, Targets
  <1> QED BY <1>3, <1>4 DEF Placed

\* The operation of a worker that is preparing, applying or completing it.
LEMMA InHand ==
    ASSUME IInv, NEW u \in Workers, pc[u] \in {"prepare", "apply", "complete", "failing"}
    PROVE  /\ op[u] \in Ops
           /\ pc[u] # "failing" => InSection(u)
           /\ pc[u] \in {"apply", "complete"} => intent[op[u]] # <<>>
           /\ pc[u] # "complete" => mode[u] = "execute"
  BY DEF IInv, TypeOK, Control, InSection

\* What u has found out stays true when its paths, its intent and the artifacts
\* of others on its paths stay as they are.
LEMMA OtherQuiet ==
    ASSUME IInv, NEW u \in Workers, SameWorker(u), ~lost' => ~lost,
           ~lost /\ pc[u] \in {"prepare", "apply", "complete"} =>
               /\ intent'[op[u]] = intent[op[u]]
               /\ \A x \in Targets(op[u]) : disk'[x] = disk[x]
               /\ Clear(op[u]) => Clear(op[u])'
    PROVE  Quiet(u)'
  <1> SUFFICES ASSUME ~lost', pc[u] \in {"prepare", "apply", "complete"}
               PROVE  Quiet(u)'
    BY DEF Quiet, SameWorker
  <1>1. ~lost /\ op[u] \in Ops /\ Quiet(u) /\ op'[u] = op[u] /\ pc'[u] = pc[u] /\ outcome'[u] = outcome[u]
    BY InHand DEF IInv, SameWorker
  <1>2. PICK o \in Ops : o = op[u]
    BY <1>1
  <1>3. /\ PreState(o, disk') = PreState(o, disk) /\ intent'[o] = intent[o]
        /\ Done(o, disk) => Done(o, disk)'
        /\ Clear(o) => Clear(o)'
    BY <1>1, <1>2, SamePaths DEF Clear
  <1>4. /\ pc[u] = "prepare" => intent[o] = <<>>
        /\ pc[u] = "apply" => PreState(o, disk) = intent[o]
        /\ pc[u] = "complete" /\ outcome[u] = "succeeded" => Done(o, disk)
        /\ pc[u] \in {"prepare", "apply"} => Clear(o)
    BY <1>1, <1>2 DEF Quiet
  <1>5. /\ pc'[u] = "prepare" => intent'[op'[u]] = <<>>
        /\ pc'[u] = "apply" => PreState(op'[u], disk') = intent'[op'[u]]
        /\ pc'[u] = "complete" /\ outcome'[u] = "succeeded" => Done(op[u], disk)'
        /\ pc'[u] \in {"prepare", "apply"} => Clear(op[u])'
    <2>1. op'[u] = o
      BY <1>1, <1>2
    <2>2. Done(o, disk)' => Done(op[u], disk)'
      BY <2>1 DEF Done, EffectVisible
    <2>3. Clear(o)' => Clear(op[u])'
      BY <2>1 DEF Clear, Ticket
    <2> QED BY <1>1, <1>3, <1>4, <2>1, <2>2, <2>3
  <1> QED BY <1>5 DEF Quiet

\* A session that has what it had for the same operation, or nothing any more.
LEMMA ApartKept ==
    ASSUME IInv, NEW w \in Workers, OthersSame(w),
           held'[w] = {} \/ (held'[w] = held[w] /\ op'[w] = op[w])
    PROVE  Apart'
  <1> SUFFICES ASSUME NEW v \in Workers, NEW u \in Workers, v # u, NEW x \in held'[v] \cap held'[u]
               PROVE  x \notin Exclusive(op'[v])
    BY DEF Apart, Exclusive, Targets
  <1>1. held'[v] = held[v] /\ op'[v] = op[v] /\ held'[u] = held[u]
    BY DEF OthersSame, SameWorker
  <1> QED BY <1>1 DEF IInv, Apart

\* A step of the workers W that changes neither disk nor operation records.
LEMMA ControlSteps ==
    ASSUME IInv, NEW W \in SUBSET Workers, \A u \in Workers \ W : SameWorker(u),
           RowTypes', WorkTypes', lost' \in BOOLEAN, ~lost' => ~lost,
           UNCHANGED <<disk, intent, receipt, charge, changes, disturbed>>,
           \A u \in W : Placed(u)' /\ Quiet(u)', Apart'
    PROVE  IInv'
  <1>1. TypeOK'
    <2>1. DataTypes'
      BY TypeParts DEF IInv, DataTypes
    <2> QED BY <2>1, TypePartsNext
  <1>2. ASSUME NEW u \in Workers \ W
        PROVE  Placed(u)' /\ Quiet(u)'
    <2>1. SameWorker(u)
      BY <1>2
    <2>2. ASSUME pc[u] \in {"prepare", "apply", "complete"}
          PROVE  Clear(op[u]) => Clear(op[u])'
      BY <2>1 DEF Clear, SameWorker, Succeeded
    <2> QED BY <2>1, <2>2, OtherPlaced, OtherQuiet
  <1>3. Charges'
    <2>1. \A r \in Runs : Charged(r)' = Charged(r)
      BY DEF Charged
    <2> QED BY <2>1 DEF IInv, Charges, ChargesFollowIntents
  <1>4. TreeOf(disk)'
    BY DEF IInv, TreeOf
  <1>5. History'
    BY DEF IInv, History
  <1> QED BY <1>1, <1>2, <1>3, <1>4, <1>5 DEF IInv, Placed

LEMMA ControlStep ==
    ASSUME IInv, NEW w \in Workers, OthersSame(w), RowTypes', WorkTypes',
           lost' \in BOOLEAN, ~lost' => ~lost,
           UNCHANGED <<disk, intent, receipt, charge, changes, disturbed>>,
           Placed(w)', Quiet(w)', Apart'
    PROVE  IInv'
  <1>1. {w} \in SUBSET Workers /\ \A u \in Workers \ {w} : SameWorker(u)
    BY DEF OthersSame
  <1>2. \A u \in {w} : Placed(u)' /\ Quiet(u)'
    OBVIOUS
  <1> QED BY <1>1, <1>2, ControlSteps

-----------------------------------------------------------------------------
(* Steps of a worker that leave disk and records alone *)

\* Workers that forget what they did rely on nothing.
LEMMA ForgetFacts ==
    ASSUME IInv, NEW W \in SUBSET Workers, ForgetWork(W)
    PROVE  /\ WorkTypes' /\ Apart'
           /\ \A u \in Workers \ W : SameWorker(u)
           /\ \A u \in W : Placed(u)' /\ Quiet(u)'
  <1>1. WorkTypes
    BY TypeParts DEF IInv
  <1>2. \A u \in W : /\ mode'[u] = "idle" /\ todo'[u] = {} /\ op'[u] = NoOp /\ pc'[u] = "idle"
                     /\ outcome'[u] = "succeeded" /\ held'[u] = {}
    BY <1>1 DEF ForgetWork, WorkTypes
  <1>3. \A u \in Workers \ W : SameWorker(u)
    BY <1>1 DEF ForgetWork, WorkTypes, SameWorker
  <1>4. WorkTypes'
    <2>1. /\ mode' \in [Workers -> {"idle", "execute", "recover", "freeze"}]
          /\ run' \in [Workers -> Runs \cup {NoRun}]
          /\ todo' \in [Workers -> SUBSET Ops]
          /\ op' \in [Workers -> Ops \cup {NoOp}]
          /\ pc' \in [Workers -> {"idle", "next", "lock", "check", "prepare", "apply",
                                  "complete", "leave", "failing", "ending"}]
          /\ outcome' \in [Workers -> {"succeeded", "failed"}]
          /\ held' \in [Workers -> SUBSET Resources]
      BY <1>1 DEF ForgetWork, WorkTypes
    <2>2. doubt' \in [Workers -> BOOLEAN]
      BY <1>1, Zenon DEF ForgetWork, WorkTypes
    <2>3. \A u \in Workers : held'[u] # {} => pc'[u] = "lock" \/ InSection(u)'
      BY <1>1, <1>2, <1>3 DEF WorkTypes, SameWorker, InSection
    <2> QED BY <2>1, <2>2, <2>3 DEF WorkTypes
  <1>5. \A u \in W : Placed(u)' /\ Quiet(u)'
    BY <1>2 DEF Placed, Control, Locked, InSection, Quiet
  <1>6. Apart'
    <2> SUFFICES ASSUME NEW v \in Workers, NEW u \in Workers, v # u, NEW x \in held'[v] \cap held'[u]
                 PROVE  x \notin Exclusive(op'[v])
      BY DEF Apart, Exclusive, Targets
    <2>1. held'[v] = held[v] /\ op'[v] = op[v] /\ held'[u] = held[u]
      BY <1>2, <1>3 DEF SameWorker
    <2> QED BY <2>1 DEF IInv, Apart
  <1> QED BY <1>3, <1>4, <1>5, <1>6

LEMMA IdleFacts ==
    ASSUME IInv, NEW w \in Workers, BecomeIdle(w)
    PROVE  WorkTypes' /\ OthersSame(w) /\ Placed(w)' /\ Quiet(w)' /\ Apart'
  BY ForgetFacts DEF BecomeIdle, OthersSame

LEMMA WorkTypesNext ==
    ASSUME IInv, NEW w \in Workers, OthersSame(w),
           mode' \in [Workers -> {"idle", "execute", "recover", "freeze"}],
           run' \in [Workers -> Runs \cup {NoRun}],
           todo' \in [Workers -> SUBSET Ops],
           op' \in [Workers -> Ops \cup {NoOp}],
           pc' \in [Workers -> {"idle", "next", "lock", "check", "prepare", "apply",
                                "complete", "leave", "failing", "ending"}],
           outcome' \in [Workers -> {"succeeded", "failed"}],
           doubt' \in [Workers -> BOOLEAN],
           held' \in [Workers -> SUBSET Resources],
           held'[w] # {} => pc'[w] = "lock" \/ InSection(w)'
    PROVE  WorkTypes'
  <1>1. \A u \in Workers : held'[u] # {} => pc'[u] = "lock" \/ InSection(u)'
    BY DEF IInv, TypeOK, OthersSame, SameWorker, InSection
  <1> QED BY <1>1 DEF WorkTypes

LEMMA FaultCounted ==
    ASSUME IInv, Fault
    PROVE  faults' \in 0..MaxFaults
  <1>1. MaxFaults \in Nat /\ faults \in 0..MaxFaults
    BY ConstantsAssumption DEF ConstantsAssumption, IInv, TypeOK
  <1>2. faults < MaxFaults /\ faults' = faults + 1
    BY DEF Fault
  <1> QED BY <1>1, <1>2

LEMMA IdleWorker ==
    ASSUME IInv, NEW w \in Workers, mode[w] = "idle" \/ pc[w] \in {"next", "failing", "ending"}
    PROVE  /\ held[w] = {}
           /\ mode[w] = "idle" => op[w] = NoOp /\ pc[w] = "idle"
  BY DEF IInv, TypeOK, Control, InSection

\* A worker takes a run to execute or to recover it.
LEMMA TakeStep ==
    ASSUME IInv, NEW w \in Workers, NEW r \in Runs, NEW m \in {"execute", "recover"},
           NEW ops \in SUBSET Ops, m = "recover" => \A o \in ops : intent[o] # <<>>,
           mode[w] = "idle", TakeRun(w, r, m, ops),
           UNCHANGED <<disk, changes, disturbed, intent, receipt, charge, op, outcome, doubt,
                       held, lost, faults>>
    PROVE  IInv'
  <1>1. WorkTypes /\ RowTypes /\ lost \in BOOLEAN
    BY TypeParts DEF IInv
  <1>2. held[w] = {} /\ op[w] = NoOp
    BY IdleWorker
  <1>3. /\ mode'[w] = m /\ todo'[w] = ops /\ pc'[w] = "next" /\ op'[w] = NoOp /\ held'[w] = {}
        /\ mode' \in [Workers -> {"idle", "execute", "recover", "freeze"}]
        /\ run' \in [Workers -> Runs \cup {NoRun}]
        /\ todo' \in [Workers -> SUBSET Ops]
        /\ pc' \in [Workers -> {"idle", "next", "lock", "check", "prepare", "apply",
                                "complete", "leave", "failing", "ending"}]
    BY <1>1, <1>2 DEF TakeRun, Goto, WorkTypes
  <1>4. OthersSame(w)
    BY <1>1 DEF TakeRun, Goto, WorkTypes, OthersSame, SameWorker
  <1>5. WorkTypes'
    <2>1. /\ op' \in [Workers -> Ops \cup {NoOp}] /\ outcome' \in [Workers -> {"succeeded", "failed"}]
          /\ doubt' \in [Workers -> BOOLEAN] /\ held' \in [Workers -> SUBSET Resources]
      BY <1>1 DEF WorkTypes
    <2> QED BY <1>3, <1>4, <2>1, WorkTypesNext
  <1>6. RowTypes'
    <2>1. /\ status' \in [Runs -> {"pending", "running", "interrupted", "ended"}]
          /\ holder' \in [Runs -> Workers \cup {NoWorker, Gone}] /\ faults' \in 0..MaxFaults
      BY <1>1 DEF TakeRun, RowTypes
    <2>2. live' \in [Runs -> BOOLEAN]
      BY <1>1, Zenon DEF TakeRun, RowTypes
    <2> QED BY <2>1, <2>2 DEF RowTypes
  <1>7. Placed(w)' /\ Quiet(w)'
    BY <1>3 DEF Placed, Control, Locked, InSection, Quiet
  <1>8. Apart'
    BY <1>3, <1>4, ApartKept
  <1> QED BY <1>1, <1>4, <1>5, <1>6, <1>7, <1>8, ControlStep

LEMMA ClaimStep ==
    ASSUME IInv, NEW w \in Workers, NEW r \in Runs, claimPendingRun(w, r)
    PROVE  IInv'
  <1>1. PICK ops \in SUBSET Ops : ops = {o \in RunOps(r) : receipt[o] = "none"}
    BY DEF RunOps
  <1>2. TakeRun(w, r, "execute", ops) /\ mode[w] = "idle"
        /\ UNCHANGED <<disk, changes, disturbed, intent, receipt, charge, op, outcome, doubt,
                       held, lost, faults>>
    BY <1>1 DEF claimPendingRun, diskVars, dbVars
  <1> QED BY <1>2, TakeStep

LEMMA RecoveryStep ==
    ASSUME IInv, NEW w \in Workers, NEW r \in Runs, claimRunRecovery(w, r)
    PROVE  IInv'
  <1>1. PICK ops \in SUBSET Ops : ops = {o \in RunOps(r) : intent[o] # <<>>}
    BY DEF RunOps
  <1>2. TakeRun(w, r, "recover", ops) /\ mode[w] = "idle" /\ (\A o \in ops : intent[o] # <<>>)
        /\ UNCHANGED <<disk, changes, disturbed, intent, receipt, charge, op, outcome, doubt,
                       held, lost, faults>>
    BY <1>1 DEF claimRunRecovery, diskVars, dbVars
  <1> QED BY <1>2, TakeStep

LEMMA EndRowTypes ==
    ASSUME IInv, NEW w \in Workers, NEW to \in {"pending", "interrupted", "ended"},
           EndRow(w, to), faults' = faults
    PROVE  RowTypes'
  <1>1. RowTypes
    BY TypeParts DEF IInv
  <1>2. CASE UNCHANGED rowVars
    BY <1>1, <1>2 DEF RowTypes, rowVars
  <1>3. CASE /\ status' = [status EXCEPT ![run[w]] = to]
             /\ holder' = [holder EXCEPT ![run[w]] = NoWorker]
             /\ live' = [live EXCEPT ![run[w]] = FALSE]
    <2>1. /\ status' \in [Runs -> {"pending", "running", "interrupted", "ended"}]
          /\ holder' \in [Runs -> Workers \cup {NoWorker, Gone}] /\ faults' \in 0..MaxFaults
      BY <1>1, <1>3 DEF RowTypes
    <2>2. live' \in [Runs -> BOOLEAN]
      BY <1>1, <1>3, Zenon DEF RowTypes
    <2> QED BY <2>1, <2>2 DEF RowTypes
  <1> QED BY <1>2, <1>3 DEF EndRow

LEMMA EndStep ==
    ASSUME IInv, NEW w \in Workers, endExecution(w) \/ endRecovery(w)
    PROVE  IInv'
  <1>1. PICK to \in {"pending", "interrupted", "ended"} : EndRow(w, to)
    <2>1. CASE endExecution(w)
      BY <2>1 DEF endExecution
    <2>2. CASE endRecovery(w)
      <3>1. EndRow(w, IF doubt[w] THEN "interrupted" ELSE "pending")
        BY <2>2 DEF endRecovery
      <3>2. CASE doubt[w]
        BY <3>1, <3>2
      <3>3. CASE ~doubt[w]
        BY <3>1, <3>3
      <3> QED BY <3>2, <3>3
    <2> QED BY <2>1, <2>2
  <1>2. /\ BecomeIdle(w)
        /\ UNCHANGED <<disk, changes, disturbed, intent, receipt, charge, lost, faults>>
    BY DEF endExecution, endRecovery, diskVars, dbVars
  <1>3. RowTypes' /\ lost' \in BOOLEAN
    BY <1>1, <1>2, EndRowTypes DEF IInv, TypeOK
  <1> QED BY <1>2, <1>3, IdleFacts, ControlStep

LEMMA NextOperationStep ==
    ASSUME IInv, NEW w \in Workers, nextOperation(w)
    PROVE  IInv'
  <1>1. WorkTypes /\ RowTypes /\ lost \in BOOLEAN /\ Control(w)
    BY TypeParts DEF IInv
  <1>2. PICK o \in todo[w] : /\ op' = [op EXCEPT ![w] = o]
                             /\ todo' = [todo EXCEPT ![w] = @ \ {o}]
    BY DEF nextOperation
  <1>3. /\ pc[w] = "next" /\ pc' = [pc EXCEPT ![w] = "lock"]
        /\ outcome' = [outcome EXCEPT ![w] = "succeeded"]
        /\ UNCHANGED <<status, holder, live, disk, changes, disturbed, intent, receipt, charge,
                       mode, run, doubt, held, lost, faults>>
    BY DEF nextOperation, rowVars, diskVars, dbVars, Goto
  <1>4. o \in Ops /\ held[w] = {} /\ mode[w] \in {"execute", "recover"}
    BY <1>1, <1>2, <1>3, IdleWorker DEF WorkTypes, Control
  <1>5. /\ pc'[w] = "lock" /\ op'[w] = o /\ todo'[w] = todo[w] \ {o}
        /\ held'[w] = {} /\ mode'[w] = mode[w]
    BY <1>1, <1>2, <1>3, <1>4 DEF WorkTypes
  <1>6. OthersSame(w)
    BY <1>1, <1>2, <1>3 DEF WorkTypes, OthersSame, SameWorker
  <1>7. WorkTypes'
    <2>1. /\ todo' \in [Workers -> SUBSET Ops]
          /\ op' \in [Workers -> Ops \cup {NoOp}]
          /\ pc' \in [Workers -> {"idle", "next", "lock", "check", "prepare", "apply",
                                  "complete", "leave", "failing", "ending"}]
          /\ outcome' \in [Workers -> {"succeeded", "failed"}]
      BY <1>1, <1>2, <1>3, <1>4 DEF WorkTypes
    <2>2. /\ mode' \in [Workers -> {"idle", "execute", "recover", "freeze"}]
          /\ run' \in [Workers -> Runs \cup {NoRun}]
          /\ doubt' \in [Workers -> BOOLEAN] /\ held' \in [Workers -> SUBSET Resources]
      BY <1>1, <1>3 DEF WorkTypes
    <2> QED BY <1>5, <1>6, <2>1, <2>2, WorkTypesNext
  <1>8. Placed(w)' /\ Quiet(w)'
    <2>1. mode[w] = "recover" => \A q \in todo[w] : intent[q] # <<>>
      BY <1>1 DEF Control
    <2> QED BY <1>2, <1>3, <1>4, <1>5, <2>1 DEF Placed, Control, Locked, InSection, Quiet
  <1>9. Apart'
    BY <1>5, <1>6, ApartKept
  <1>10. RowTypes'
    BY <1>1, <1>3 DEF RowTypes
  <1> QED BY <1>1, <1>3, <1>6, <1>7, <1>8, <1>9, <1>10, ControlStep

\* The worker goes on with what it has in hand, with its locks or without them.
LEMMA MoveFacts ==
    ASSUME IInv, NEW w \in Workers,
           NEW to \in {"idle", "next", "lock", "check", "prepare", "apply", "complete", "leave",
                       "failing", "ending"},
           Goto(w, to), held' = held \/ Unlock(w),
           held'[w] # {} => to = "lock" \/ to \in {"check", "prepare", "apply", "complete", "leave"},
           outcome' \in [Workers -> {"succeeded", "failed"}],
           \A u \in Workers : u # w => outcome'[u] = outcome[u],
           doubt' \in [Workers -> BOOLEAN], UNCHANGED <<mode, run, todo, op>>
    PROVE  /\ WorkTypes' /\ OthersSame(w) /\ Apart'
           /\ pc'[w] = to /\ (held' = held \/ held'[w] = {})
  <1>1. WorkTypes
    BY TypeParts DEF IInv
  <1>2. /\ pc'[w] = to
        /\ pc' \in [Workers -> {"idle", "next", "lock", "check", "prepare", "apply",
                                "complete", "leave", "failing", "ending"}]
        /\ \A u \in Workers : u # w => pc'[u] = pc[u]
    BY <1>1 DEF Goto, WorkTypes
  <1>3. /\ held' \in [Workers -> SUBSET Resources]
        /\ \A u \in Workers : u # w => held'[u] = held[u]
        /\ held' = held \/ held'[w] = {}
    <2>1. CASE held' = held
      BY <1>1, <2>1 DEF WorkTypes
    <2>2. CASE Unlock(w)
      BY <1>1, <2>2 DEF Unlock, WorkTypes
    <2> QED BY <2>1, <2>2
  <1>4. OthersSame(w)
    BY <1>2, <1>3 DEF OthersSame, SameWorker
  <1>5. WorkTypes'
    <2>1. /\ mode' \in [Workers -> {"idle", "execute", "recover", "freeze"}]
          /\ run' \in [Workers -> Runs \cup {NoRun}]
          /\ todo' \in [Workers -> SUBSET Ops]
          /\ op' \in [Workers -> Ops \cup {NoOp}]
      BY <1>1 DEF WorkTypes
    <2>2. held'[w] # {} => pc'[w] = "lock" \/ InSection(w)'
      BY <1>2 DEF InSection
    <2> QED BY <1>2, <1>3, <1>4, <2>1, <2>2, WorkTypesNext
  <1>6. Apart'
    BY <1>3, <1>4, ApartKept
  <1> QED BY <1>2, <1>3, <1>4, <1>5, <1>6

\* ... and nothing else changes.
LEMMA MoveStep ==
    ASSUME IInv, NEW w \in Workers,
           NEW to \in {"idle", "next", "lock", "check", "prepare", "apply", "complete", "leave",
                       "failing", "ending"},
           Goto(w, to), held' = held \/ Unlock(w),
           held'[w] # {} => to = "lock" \/ to \in {"check", "prepare", "apply", "complete", "leave"},
           doubt' \in [Workers -> BOOLEAN], UNCHANGED <<mode, run, todo, op, outcome>>,
           UNCHANGED <<status, holder, live, disk, changes, disturbed, intent, receipt, charge, lost>>,
           faults' \in 0..MaxFaults,
           Placed(w)', Quiet(w)'
    PROVE  IInv'
  <1>1. WorkTypes /\ RowTypes /\ lost \in BOOLEAN
    BY TypeParts DEF IInv
  <1>2. outcome' \in [Workers -> {"succeeded", "failed"}]
        /\ \A u \in Workers : u # w => outcome'[u] = outcome[u]
    BY <1>1 DEF WorkTypes
  <1>3. RowTypes' /\ lost' \in BOOLEAN
    BY <1>1 DEF RowTypes
  <1>4. WorkTypes' /\ OthersSame(w) /\ Apart'
    BY <1>2, MoveFacts
  <1> QED BY <1>3, <1>4, ControlStep

\* An operation is abandoned: no locks, nothing to rely on.
LEMMA AbandonStep ==
    ASSUME IInv, NEW w \in Workers, NEW to \in {"failing", "ending"}, Goto(w, to), Unlock(w),
           mode[w] \in {"execute", "recover"}, mode[w] = "recover" => to = "ending",
           op[w] \in Ops,
           UNCHANGED <<mode, run, todo, op, outcome, doubt>>,
           UNCHANGED <<status, holder, live, disk, changes, disturbed, intent, receipt, charge, lost>>,
           faults' \in 0..MaxFaults
    PROVE  IInv'
  <1>1. WorkTypes /\ Control(w)
    BY TypeParts DEF IInv
  <1>2. held'[w] = {} /\ pc'[w] = to /\ doubt' \in [Workers -> BOOLEAN]
    BY <1>1 DEF Unlock, Goto, WorkTypes
  <1>3. Placed(w)' /\ Quiet(w)'
    BY <1>1, <1>2 DEF Placed, Control, Locked, InSection, Quiet
  <1> QED BY <1>2, <1>3, MoveStep

LEMMA MaterializationStep ==
    ASSUME IInv, NEW w \in Workers, beginMaterialization(w)
    PROVE  IInv'
  <1>1. WorkTypes /\ RowTypes /\ lost \in BOOLEAN /\ Control(w)
    BY TypeParts DEF IInv
  <1>2. /\ mode[w] = "idle" /\ mode' = [mode EXCEPT ![w] = "freeze"] /\ pc' = [pc EXCEPT ![w] = "lock"]
        /\ UNCHANGED <<status, holder, live, disk, changes, disturbed, intent, receipt, charge,
                       run, todo, op, outcome, doubt, held, lost, faults>>
    BY DEF beginMaterialization, rowVars, diskVars, dbVars, Goto
  <1>3. held[w] = {} /\ op[w] = NoOp
    BY <1>2, IdleWorker
  <1>4. mode'[w] = "freeze" /\ pc'[w] = "lock" /\ op'[w] = NoOp /\ held'[w] = {}
    BY <1>1, <1>2, <1>3 DEF WorkTypes
  <1>5. OthersSame(w)
    BY <1>1, <1>2 DEF WorkTypes, OthersSame, SameWorker
  <1>6. WorkTypes'
    <2>1. /\ mode' \in [Workers -> {"idle", "execute", "recover", "freeze"}]
          /\ pc' \in [Workers -> {"idle", "next", "lock", "check", "prepare", "apply",
                                  "complete", "leave", "failing", "ending"}]
      BY <1>1, <1>2 DEF WorkTypes
    <2>2. /\ todo' \in [Workers -> SUBSET Ops] /\ op' \in [Workers -> Ops \cup {NoOp}]
          /\ outcome' \in [Workers -> {"succeeded", "failed"}]
          /\ run' \in [Workers -> Runs \cup {NoRun}]
          /\ doubt' \in [Workers -> BOOLEAN] /\ held' \in [Workers -> SUBSET Resources]
      BY <1>1, <1>2 DEF WorkTypes
    <2> QED BY <1>4, <1>5, <2>1, <2>2, WorkTypesNext
  <1>7. Placed(w)' /\ Quiet(w)'
    BY <1>4 DEF Placed, Control, Locked, InSection, Quiet
  <1>8. Apart'
    BY <1>4, <1>5, ApartKept
  <1>9. RowTypes'
    BY <1>1, <1>2 DEF RowTypes
  <1> QED BY <1>1, <1>2, <1>5, <1>6, <1>7, <1>8, <1>9, ControlStep

LEMMA AcquireStep ==
    ASSUME IInv, NEW w \in Workers, acquireLock(w)
    PROVE  IInv'
  <1>1. WorkTypes /\ RowTypes /\ lost \in BOOLEAN /\ Control(w)
    BY TypeParts DEF IInv
  <1>2. PICK x \in Resources :
          /\ NextLock(w, x)
          /\ \A u \in Workers \ {w} : ~Conflicts(u, w, x)
          /\ held' = [held EXCEPT ![w] = @ \cup {x}]
          /\ Goto(w, IF Missing(w) = {x} THEN "check" ELSE "lock")
    BY DEF acquireLock
  <1>3. /\ pc[w] = "lock"
        /\ UNCHANGED <<status, holder, live, disk, changes, disturbed, intent, receipt, charge,
                       mode, run, todo, op, outcome, doubt, lost, faults>>
    BY DEF acquireLock, rowVars, diskVars, dbVars
  <1>4. PICK to \in {"check", "lock"} : /\ pc' = [pc EXCEPT ![w] = to]
                                        /\ to = "check" => Missing(w) = {x}
    <2>1. CASE Missing(w) = {x}
      BY <1>2, <2>1 DEF Goto
    <2>2. CASE Missing(w) # {x}
      BY <1>2, <2>2 DEF Goto
    <2> QED BY <2>1, <2>2
  <1>5. /\ pc'[w] = to /\ held'[w] = held[w] \cup {x}
        /\ pc' \in [Workers -> {"idle", "next", "lock", "check", "prepare", "apply",
                                "complete", "leave", "failing", "ending"}]
        /\ held' \in [Workers -> SUBSET Resources]
    BY <1>1, <1>2, <1>4 DEF WorkTypes
  <1>6. OthersSame(w)
    BY <1>1, <1>2, <1>3, <1>4 DEF WorkTypes, OthersSame, SameWorker
  <1>7. WorkTypes'
    <2>1. /\ mode' \in [Workers -> {"idle", "execute", "recover", "freeze"}]
          /\ todo' \in [Workers -> SUBSET Ops] /\ op' \in [Workers -> Ops \cup {NoOp}]
          /\ outcome' \in [Workers -> {"succeeded", "failed"}]
          /\ run' \in [Workers -> Runs \cup {NoRun}]
          /\ doubt' \in [Workers -> BOOLEAN]
      BY <1>1, <1>3 DEF WorkTypes
    <2>2. pc'[w] = "lock" \/ InSection(w)'
      BY <1>5 DEF InSection
    <2> QED BY <1>5, <1>6, <2>1, <2>2, WorkTypesNext
  <1>8. Placed(w)' /\ Quiet(w)'
    <2>1. Control(w)'
      BY <1>1, <1>3, <1>5 DEF Control
    <2>2. to = "check" => LockRequests(op[w]) \subseteq held'[w]
      BY <1>4, <1>5 DEF Missing
    <2>3. Locked(w)'
      BY <1>3, <1>5, <2>2 DEF Locked, InSection, LockRequests, Targets
    <2>4. Quiet(w)'
      BY <1>5 DEF Quiet
    <2> QED BY <2>1, <2>3, <2>4 DEF Placed
  <1>9. Apart'
    <2> SUFFICES ASSUME NEW v \in Workers, NEW u \in Workers, v # u,
                        NEW y \in held'[v] \cap held'[u]
                 PROVE  y \notin Exclusive(op[v])
      BY <1>3 DEF Apart, Exclusive, Targets
    <2>1. y \in held[v] /\ y \in held[u] => y \notin Exclusive(op[v])
      BY DEF IInv, Apart
    <2>2. CASE v = w
      <3>1. held'[u] = held[u]
        BY <1>6, <2>2 DEF OthersSame, SameWorker
      <3> QED BY <1>2, <1>5, <2>1, <2>2, <3>1 DEF Conflicts
    <2>3. CASE u = w
      <3>1. held'[v] = held[v]
        BY <1>6, <2>3 DEF OthersSame, SameWorker
      <3> QED BY <1>2, <1>5, <2>1, <2>3, <3>1 DEF Conflicts
    <2>4. CASE u # w /\ v # w
      BY <1>6, <2>1, <2>4 DEF OthersSame, SameWorker
    <2> QED BY <2>2, <2>3, <2>4
  <1>10. RowTypes'
    BY <1>1, <1>3 DEF RowTypes
  <1> QED BY <1>1, <1>3, <1>6, <1>7, <1>8, <1>9, <1>10, ControlStep

\* A lock timeout, or a completion that fails.
LEMMA GiveUpStep ==
    ASSUME IInv, NEW w \in Workers, lockTimeout(w) \/ failCompletion(w)
    PROVE  IInv'
  <1>1. /\ pc[w] \in {"lock", "complete"} /\ faults' \in 0..MaxFaults
        /\ UNCHANGED <<status, holder, live, disk, changes, disturbed, intent, receipt, charge, lost>>
    BY FaultCounted DEF lockTimeout, failCompletion, rowVars, diskVars, dbVars
  <1>2. CASE mode[w] = "execute"
    <2>1. PICK to \in {"failing", "ending"} : Goto(w, to) /\ Unlock(w)
      BY <1>2 DEF lockTimeout, failCompletion
    <2>2. UNCHANGED <<mode, run, todo, op, outcome, doubt>>
      BY <1>2 DEF lockTimeout, failCompletion
    <2>3. op[w] \in Ops
      BY <1>1, <1>2 DEF IInv, Control
    <2> QED BY <1>1, <1>2, <2>1, <2>2, <2>3, AbandonStep
  <1>3. CASE mode[w] # "execute"
    <2>1. BecomeIdle(w)
      BY <1>3 DEF lockTimeout, failCompletion
    <2>2. RowTypes' /\ lost' \in BOOLEAN
      BY <1>1, TypeParts DEF IInv, RowTypes
    <2> QED BY <1>1, <2>1, <2>2, IdleFacts, ControlStep
  <1> QED BY <1>2, <1>3

LEMMA LeaveStep ==
    ASSUME IInv, NEW w \in Workers, leaveSection(w)
    PROVE  IInv'
  <1>1. WorkTypes /\ RowTypes /\ lost \in BOOLEAN /\ Control(w)
    BY TypeParts DEF IInv
  <1>2. /\ pc[w] = "leave" /\ held' = [held EXCEPT ![w] = {}] /\ op' = [op EXCEPT ![w] = NoOp]
        /\ UNCHANGED <<status, holder, live, disk, changes, disturbed, intent, receipt, charge,
                       run, todo, outcome, doubt, lost, faults>>
    BY DEF leaveSection, rowVars, diskVars, dbVars, Unlock
  <1>3. PICK m \in {"idle", "execute", "recover", "freeze"}, to \in {"idle", "next"} :
          /\ mode' = [mode EXCEPT ![w] = m] /\ pc' = [pc EXCEPT ![w] = to]
          /\ \/ m = "idle" /\ to = "idle"
             \/ m = mode[w] /\ m \in {"execute", "recover"} /\ to = "next"
    <2>1. CASE mode[w] = "freeze"
      BY <2>1 DEF leaveSection, Goto
    <2>2. CASE mode[w] # "freeze"
      <3>1. mode' = mode /\ pc' = [pc EXCEPT ![w] = "next"]
        BY <2>2 DEF leaveSection, Goto
      <3>2. mode' = [mode EXCEPT ![w] = mode[w]] /\ mode[w] \in {"execute", "recover"}
        BY <1>1, <1>2, <2>2, <3>1 DEF WorkTypes, Control
      <3> QED BY <3>1, <3>2
    <2> QED BY <2>1, <2>2
  <1>4. mode'[w] = m /\ pc'[w] = to /\ op'[w] = NoOp /\ held'[w] = {} /\ todo'[w] = todo[w]
    BY <1>1, <1>2, <1>3 DEF WorkTypes
  <1>5. OthersSame(w)
    BY <1>1, <1>2, <1>3 DEF WorkTypes, OthersSame, SameWorker
  <1>6. WorkTypes'
    <2>1. /\ mode' \in [Workers -> {"idle", "execute", "recover", "freeze"}]
          /\ pc' \in [Workers -> {"idle", "next", "lock", "check", "prepare", "apply",
                                  "complete", "leave", "failing", "ending"}]
          /\ op' \in [Workers -> Ops \cup {NoOp}] /\ held' \in [Workers -> SUBSET Resources]
      BY <1>1, <1>2, <1>3 DEF WorkTypes
    <2>2. /\ todo' \in [Workers -> SUBSET Ops]
          /\ outcome' \in [Workers -> {"succeeded", "failed"}]
          /\ run' \in [Workers -> Runs \cup {NoRun}]
          /\ doubt' \in [Workers -> BOOLEAN]
      BY <1>1, <1>2 DEF WorkTypes
    <2> QED BY <1>4, <1>5, <2>1, <2>2, WorkTypesNext
  <1>7. Placed(w)' /\ Quiet(w)'
    BY <1>1, <1>2, <1>3, <1>4 DEF Placed, Control, Locked, InSection, Quiet
  <1>8. Apart'
    BY <1>4, <1>5, ApartKept
  <1>9. RowTypes'
    BY <1>1, <1>2 DEF RowTypes
  <1> QED BY <1>1, <1>2, <1>5, <1>6, <1>7, <1>8, <1>9, ControlStep

\* The worker keeps its locks and goes on in its section.
LEMMA InsideStep ==
    ASSUME IInv, NEW w \in Workers,
           NEW to \in {"check", "prepare", "apply", "complete", "leave"},
           Goto(w, to), InSection(w),
           doubt' \in [Workers -> BOOLEAN], UNCHANGED <<mode, run, todo, op, outcome, held>>,
           UNCHANGED <<status, holder, live, disk, changes, disturbed, intent, receipt, charge,
                       lost, faults>>,
           mode[w] = "freeze" => to \in {"check", "leave"},
           mode[w] = "recover" => to \in {"check", "complete", "leave"},
           to \in {"apply", "complete"} => intent[op[w]] # <<>>,
           ~lost => /\ to = "prepare" => intent[op[w]] = <<>>
                    /\ to = "apply" => PreState(op[w], disk) = intent[op[w]]
                    /\ to = "complete" => Done(op[w], disk)
                    /\ to \in {"prepare", "apply"} => Clear(op[w])
    PROVE  IInv'
  <1>1. WorkTypes /\ RowTypes /\ Control(w) /\ Locked(w)
    BY TypeParts DEF IInv
  <1>2. pc'[w] = to /\ faults' \in 0..MaxFaults
    BY <1>1 DEF Goto, WorkTypes, RowTypes
  <1>3. Control(w)'
    BY <1>1, <1>2 DEF Control, InSection
  <1>4. Locked(w)'
    BY <1>1, <1>2 DEF Locked, InSection, LockRequests, Targets
  <1>5. Quiet(w)'
    <2>1. Done(op[w], disk) => Done(op[w], disk)'
      BY DEF Done, EffectVisible
    <2>2. Clear(op[w]) => Clear(op[w])'
      BY DEF Clear, Succeeded, Ticket
    <2> QED BY <1>2, <2>1, <2>2 DEF Quiet
  <1> QED BY <1>2, <1>3, <1>4, <1>5, MoveStep DEF Placed

LEMMA MaterializeStep ==
    ASSUME IInv, NEW w \in Workers, materialize(w)
    PROVE  IInv'
  <1>1. /\ mode[w] = "freeze" /\ pc[w] = "check" /\ Goto(w, "leave")
        /\ UNCHANGED <<status, holder, live, disk, changes, disturbed, intent, receipt, charge,
                       lost, faults, mode, run, todo, op, outcome, doubt, held>>
    BY DEF materialize, rowVars, diskVars, dbVars
  <1>2. doubt' \in [Workers -> BOOLEAN] /\ InSection(w)
    BY <1>1 DEF IInv, TypeOK, InSection
  <1> QED BY <1>1, <1>2, InsideStep

LEMMA ReconcileStep ==
    ASSUME IInv, NEW w \in Workers, reconcilePreparedTargetOperation(w)
    PROVE  IInv'
  <1>1. /\ mode[w] = "recover" /\ pc[w] = "check"
        /\ UNCHANGED <<status, holder, live, disk, changes, disturbed, intent, receipt, charge,
                       lost, faults, mode, run, todo, op, outcome, held>>
    BY DEF reconcilePreparedTargetOperation, rowVars, diskVars, dbVars
  <1>2. InSection(w) /\ op[w] \in Ops /\ intent[op[w]] # <<>> /\ doubt \in [Workers -> BOOLEAN]
    <2>1. Control(w) /\ doubt \in [Workers -> BOOLEAN]
      BY DEF IInv, TypeOK
    <2>2. op[w] \in Ops
      BY <1>1, <2>1 DEF Control
    <2>3. op[w] # NoOp
      BY <2>2, PathFacts
    <2> QED BY <1>1, <2>1, <2>2, <2>3 DEF InSection, Control
  <1>3. /\ Classify(op[w]) \in {"uncertain", "applied", "not_applied"}
        /\ Classify(op[w]) = "applied" => Done(op[w], disk)
    BY <1>2, ClassifyFacts
  <1>4. \/ Goto(w, "leave") /\ doubt' = doubt
        \/ Goto(w, "leave") /\ doubt' = [doubt EXCEPT ![w] = TRUE]
        \/ Goto(w, "complete") /\ doubt' = doubt /\ Classify(op[w]) = "applied"
    <2>1. CASE receipt[op[w]] # "none"
      BY <2>1 DEF reconcilePreparedTargetOperation
    <2>2. CASE receipt[op[w]] = "none" /\ Classify(op[w]) = "uncertain"
      BY <2>2 DEF reconcilePreparedTargetOperation
    <2>3. CASE receipt[op[w]] = "none" /\ Classify(op[w]) = "applied"
      BY <2>3 DEF reconcilePreparedTargetOperation
    <2>4. CASE receipt[op[w]] = "none" /\ Classify(op[w]) = "not_applied"
      BY <2>4 DEF reconcilePreparedTargetOperation
    <2> QED BY <1>3, <2>1, <2>2, <2>3, <2>4
  <1>5. doubt' \in [Workers -> BOOLEAN]
    <2>1. CASE doubt' = doubt
      BY <1>2, <2>1
    <2>2. CASE doubt' = [doubt EXCEPT ![w] = TRUE]
      BY <1>2, <2>2, Zenon
    <2> QED BY <1>4, <2>1, <2>2
  <1>6. PICK to \in {"leave", "complete"} : Goto(w, to) /\ (to = "complete" => Done(op[w], disk))
    BY <1>3, <1>4
  <1> QED BY <1>1, <1>2, <1>5, <1>6, InsideStep

\* The ownership test leaves no file of another ticket in the way.
LEMMA OwnershipClear ==
    ASSUME NEW o \in Ops, ~OwnershipRefuses(o)
    PROVE  Clear(o)
  <1> SUFFICES ASSUME Def[o].run \notin Permitted, NEW c \in Ops, Succeeded(c), Ticket(c) # Ticket(o),
                      NEW a \in Artifacts(c), NEW x \in Targets(o), Overlap(a, x)
               PROVE  disk[a] \in {Absent, Dir}
    BY DEF Clear
  <1>1. ~OtherOwner(o, x, TRUE)
    BY DEF OwnershipRefuses
  <1>2. OwnerStale(c, a, o, TRUE)
    BY <1>1 DEF OtherOwner
  <1> QED BY <1>2 DEF OwnerStale, Exists

LEMMA BeginMutationStep ==
    ASSUME IInv, NEW w \in Workers, beginWorkspaceMutation(w)
    PROVE  IInv'
  <1>1. /\ mode[w] = "execute" /\ pc[w] = "check"
        /\ UNCHANGED <<status, holder, live, disk, changes, disturbed, intent, receipt,
                       lost, faults, mode, run, todo, op, outcome, doubt>>
    BY DEF beginWorkspaceMutation, rowVars, diskVars
  <1>2. /\ InSection(w) /\ op[w] \in Ops /\ doubt' \in [Workers -> BOOLEAN]
        /\ faults' \in 0..MaxFaults
    <2>1. Control(w)
      BY DEF IInv
    <2>2. op[w] \in Ops
      BY <1>1, <2>1 DEF Control
    <2> QED BY <1>1, <2>2 DEF InSection, IInv, TypeOK
  <1>3. PICK o \in Ops : o = op[w]
    BY <1>2
  <1>4. ASSUME FailOperation(w), charge' = charge
        PROVE  IInv'
    BY <1>1, <1>2, <1>4, AbandonStep DEF FailOperation
  <1>5. ASSUME Goto(w, "leave"), UNCHANGED <<held, charge>>
        PROVE  IInv'
    BY <1>1, <1>2, <1>5, InsideStep
  <1>6. ASSUME ~OwnershipRefuses(o), intent[o] = <<>>, Goto(w, "prepare"), UNCHANGED <<held, charge>>
        PROVE  IInv'
    <2>1. Clear(o)
      BY <1>6, OwnershipClear
    <2> QED BY <1>1, <1>2, <1>3, <1>6, <2>1, InsideStep
  <1>7. ASSUME ~OwnershipRefuses(o), ResumePrepared(w, o)
        PROVE  IInv'
    <2>1. Clear(o) /\ intent[o] # <<>>
      BY <1>7, OwnershipClear DEF ResumePrepared
    <2>2. charge' = charge
      <3>1. charge[o] # "none"
        BY <2>1 DEF IInv, Charges, ChargesFollowIntents
      <3> QED BY <1>7, <3>1 DEF ResumePrepared, Reserve
    <2>3. /\ Classify(o) \in {"uncertain", "applied", "not_applied"}
          /\ Classify(o) = "not_applied" => PreState(o, disk) = intent[o]
          /\ Classify(o) = "applied" => Done(o, disk)
      BY ClassifyFacts
    <2>4. CASE Classify(o) = "uncertain"
      <3>1. FailOperation(w)
        BY <1>7, <2>4 DEF ResumePrepared
      <3> QED BY <1>4, <2>2, <3>1
    <2>5. CASE Classify(o) = "applied"
      <3>1. held' = held /\ Goto(w, "complete")
        BY <1>7, <2>5 DEF ResumePrepared
      <3> QED BY <1>1, <1>2, <1>3, <2>1, <2>2, <2>3, <2>5, <3>1, InsideStep
    <2>6. CASE Classify(o) = "not_applied"
      <3>1. held' = held /\ Goto(w, "apply")
        BY <1>7, <2>6 DEF ResumePrepared
      <3> QED BY <1>1, <1>2, <1>3, <2>1, <2>2, <2>3, <2>6, <3>1, InsideStep
    <2> QED BY <2>3, <2>4, <2>5, <2>6
  <1>8. \/ FailOperation(w) /\ charge' = charge
        \/ Goto(w, "leave") /\ UNCHANGED <<held, charge>>
        \/ ~OwnershipRefuses(o) /\ intent[o] = <<>> /\ Goto(w, "prepare") /\ UNCHANGED <<held, charge>>
        \/ ~OwnershipRefuses(o) /\ ResumePrepared(w, o)
    BY <1>3 DEF beginWorkspaceMutation
  <1> QED BY <1>4, <1>5, <1>6, <1>7, <1>8

\* The worker goes on without its locks and does not know it.
LEMMA LoseSessionStep ==
    ASSUME IInv, NEW w \in Workers, loseSession(w)
    PROVE  IInv'
  <1>1. WorkTypes /\ RowTypes /\ Control(w)
    BY TypeParts DEF IInv
  <1>2. /\ held' = [held EXCEPT ![w] = {}] /\ lost' = TRUE /\ faults' \in 0..MaxFaults
        /\ UNCHANGED <<status, holder, live, disk, changes, disturbed, intent, receipt, charge,
                       mode, run, todo, op, pc, outcome, doubt>>
    BY FaultCounted DEF loseSession, Unlock, rowVars, diskVars, dbVars
  <1>3. held'[w] = {} /\ held' \in [Workers -> SUBSET Resources]
    BY <1>1, <1>2 DEF WorkTypes
  <1>4. OthersSame(w)
    BY <1>1, <1>2 DEF WorkTypes, OthersSame, SameWorker
  <1>5. WorkTypes'
    <2>1. /\ mode' \in [Workers -> {"idle", "execute", "recover", "freeze"}]
          /\ pc' \in [Workers -> {"idle", "next", "lock", "check", "prepare", "apply",
                                  "complete", "leave", "failing", "ending"}]
          /\ todo' \in [Workers -> SUBSET Ops] /\ op' \in [Workers -> Ops \cup {NoOp}]
          /\ outcome' \in [Workers -> {"succeeded", "failed"}]
          /\ run' \in [Workers -> Runs \cup {NoRun}]
          /\ doubt' \in [Workers -> BOOLEAN]
      BY <1>1, <1>2 DEF WorkTypes
    <2> QED BY <1>3, <1>4, <2>1, WorkTypesNext
  <1>6. Placed(w)' /\ Quiet(w)'
    BY <1>1, <1>2 DEF Placed, Control, Locked, Quiet
  <1>7. Apart'
    BY <1>3, <1>4, ApartKept
  <1>8. RowTypes'
    BY <1>1, <1>2 DEF RowTypes
  <1> QED BY <1>2, <1>4, <1>5, <1>6, <1>7, <1>8, ControlStep

-----------------------------------------------------------------------------
(* Steps of no worker *)

LEMMA RowStep ==
    ASSUME IInv, RowTypes',
           UNCHANGED <<disk, intent, receipt, charge, changes, disturbed, mode, run, todo, op, pc,
                       outcome, doubt, held, lost>>
    PROVE  IInv'
  <1>1. TypeOK'
    <2>1. DataTypes' /\ WorkTypes' /\ lost' \in BOOLEAN
      BY TypeParts DEF IInv, DataTypes, WorkTypes, InSection
    <2> QED BY <2>1, TypePartsNext
  <1>2. ASSUME NEW u \in Workers
        PROVE  Placed(u)' /\ Quiet(u)'
    <2>1. SameWorker(u)
      BY DEF SameWorker
    <2>2. Clear(op[u]) => Clear(op[u])'
      BY DEF Clear, Succeeded, Ticket
    <2> QED BY <2>1, <2>2, OtherPlaced, OtherQuiet
  <1>3. Apart'
    BY DEF IInv, Apart, Exclusive, Targets
  <1>4. Charges'
    <2>1. \A r \in Runs : Charged(r)' = Charged(r)
      BY DEF Charged
    <2> QED BY <2>1 DEF IInv, Charges, ChargesFollowIntents
  <1>5. TreeOf(disk)' /\ History'
    BY DEF IInv, TreeOf, History
  <1> QED BY <1>1, <1>2, <1>3, <1>4, <1>5 DEF IInv, Placed

LEMMA ExpireStep ==
    ASSUME IInv, NEW r \in Runs, expireLease(r)
    PROVE  IInv'
  <1>1. RowTypes
    BY TypeParts DEF IInv
  <1>2. /\ live' = [live EXCEPT ![r] = FALSE]
        /\ UNCHANGED <<status, holder, disk, intent, receipt, charge, changes, disturbed, mode, run,
                       todo, op, pc, outcome, doubt, held, lost>>
    BY DEF expireLease, diskVars, dbVars, workVars
  <1>3. faults' \in 0..MaxFaults
    <2>1. Fault \/ faults' = faults
      BY DEF expireLease
    <2> QED BY <1>1, <2>1, FaultCounted DEF RowTypes
  <1>4. live' \in [Runs -> BOOLEAN]
    BY <1>1, <1>2, Zenon DEF RowTypes
  <1>5. RowTypes'
    BY <1>1, <1>2, <1>3, <1>4 DEF RowTypes
  <1> QED BY <1>2, <1>5, RowStep

LEMMA StopStep ==
    ASSUME IInv, NEW r \in Runs, stopAgentRun(r)
    PROVE  IInv'
  <1>1. RowTypes
    BY TypeParts DEF IInv
  <1>2. /\ status' = [status EXCEPT ![r] = "interrupted"]
        /\ holder' = [holder EXCEPT ![r] = NoWorker]
        /\ live' = [live EXCEPT ![r] = FALSE]
        /\ UNCHANGED <<disk, intent, receipt, charge, changes, disturbed, mode, run,
                       todo, op, pc, outcome, doubt, held, lost>>
        /\ Fault
    BY DEF stopAgentRun, diskVars, dbVars, workVars
  <1>3. /\ status' \in [Runs -> {"pending", "running", "interrupted", "ended"}]
        /\ holder' \in [Runs -> Workers \cup {NoWorker, Gone}]
    BY <1>1, <1>2 DEF RowTypes
  <1>4. live' \in [Runs -> BOOLEAN]
    BY <1>1, <1>2, Zenon DEF RowTypes
  <1>5. RowTypes'
    BY <1>2, <1>3, <1>4, FaultCounted DEF RowTypes
  <1> QED BY <1>2, <1>5, RowStep

-----------------------------------------------------------------------------
(* Steps on the records *)

\* The parts of the invariant, put together after a step of the workers W.
LEMMA DataSteps ==
    ASSUME IInv, NEW W \in SUBSET Workers, \A u \in Workers \ W : SameWorker(u),
           RowTypes', WorkTypes', DataTypes', lost' = lost,
           \A o \in Ops : intent[o] # <<>> => intent'[o] # <<>>,
           \A u \in W : Placed(u)', \A u \in Workers : Quiet(u)',
           Apart', Charges', TreeOf(disk)', History'
    PROVE  IInv'
  <1>1. TypeOK'
    <2>1. lost' \in BOOLEAN
      BY DEF IInv, TypeOK
    <2> QED BY <2>1, TypePartsNext
  <1>2. \A u \in Workers \ W : Placed(u)'
    BY OtherPlaced
  <1> QED BY <1>1, <1>2 DEF IInv, Placed

LEMMA DataStep ==
    ASSUME IInv, NEW w \in Workers, OthersSame(w), RowTypes', WorkTypes', DataTypes', lost' = lost,
           \A o \in Ops : intent[o] # <<>> => intent'[o] # <<>>,
           Placed(w)', \A u \in Workers : Quiet(u)', Apart', Charges', TreeOf(disk)', History'
    PROVE  IInv'
  <1>1. {w} \in SUBSET Workers /\ \A u \in Workers \ {w} : SameWorker(u)
    BY DEF OthersSame
  <1>2. \A u \in {w} : Placed(u)'
    OBVIOUS
  <1> QED BY <1>1, <1>2, DataSteps

\* A charge is added only where the budget has room for it.
LEMMA ChargeGrows ==
    ASSUME IInv, NEW o \in Ops, BudgetAllows(o), charge'[o] # "none",
           \A q \in Ops : q # o => charge'[q] = charge[q]
    PROVE  \A r \in Runs : IsFiniteSet(Charged(r)') /\ Cardinality(Charged(r)') <= Budget[r]
  <1> SUFFICES ASSUME NEW r \in Runs
               PROVE  IsFiniteSet(Charged(r)') /\ Cardinality(Charged(r)') <= Budget[r]
    OBVIOUS
  <1>1. IsFiniteSet(Charged(r)) /\ Cardinality(Charged(r)) <= Budget[r] /\ Budget[r] \in Nat
    BY ConstantsAssumption DEF IInv, Charges, ChargesFollowIntents, ConstantsAssumption
  <1>2. CASE charge[o] # "none" \/ Def[o].run # r
    <2>1. Charged(r)' = Charged(r)
      BY <1>2 DEF Charged, RunOps
    <2> QED BY <1>1, <2>1
  <1>3. CASE charge[o] = "none" /\ Def[o].run = r
    <2>1. Charged(r)' = Charged(r) \cup {o} /\ o \notin Charged(r)
      BY <1>3 DEF Charged, RunOps
    <2>2. Cardinality(Charged(r)) < Budget[r]
      BY <1>3 DEF BudgetAllows
    <2>3. Cardinality(Charged(r)) \in Nat
      BY <1>1, FS_CardinalityType
    <2>4. IsFiniteSet(Charged(r)') /\ Cardinality(Charged(r)') = Cardinality(Charged(r)) + 1
      BY <1>1, <2>1, FS_AddElement
    <2> QED BY <1>1, <2>2, <2>3, <2>4
  <1> QED BY <1>2, <1>3

LEMMA PrepareStep ==
    ASSUME IInv, NEW w \in Workers, prepareTargetOperation(w)
    PROVE  IInv'
  <1>1. /\ pc[w] = "prepare"
        /\ UNCHANGED <<status, holder, live, disk, changes, disturbed, receipt, mode, run, todo, op,
                       outcome, doubt, lost, faults>>
    BY DEF prepareTargetOperation, rowVars, diskVars
  <1>2. WorkTypes /\ RowTypes /\ DataTypes /\ Control(w) /\ Locked(w) /\ Quiet(w)
    BY TypeParts DEF IInv
  <1>3. op[w] \in Ops /\ InSection(w) /\ mode[w] = "execute"
    BY <1>1, InHand
  <1>4. PICK o \in Ops : o = op[w]
    BY <1>3
  <1>5. \/ /\ Unlock(w) /\ UNCHANGED <<intent, charge>>
           /\ \E to \in {"failing", "ending"} : Goto(w, to)
        \/ /\ BudgetAllows(o) /\ PrepareRows(w, o) /\ Goto(w, "apply") /\ held' = held
    BY <1>4 DEF prepareTargetOperation, FailOperation
  <1>6. CASE Unlock(w) /\ UNCHANGED <<intent, charge>> /\ \E to \in {"failing", "ending"} : Goto(w, to)
    <2>1. PICK to \in {"failing", "ending"} : Goto(w, to)
      BY <1>6
    <2>2. faults' \in 0..MaxFaults
      BY <1>1, <1>2 DEF RowTypes
    <2> QED BY <1>1, <1>3, <1>6, <2>1, <2>2, AbandonStep
  <1>7. CASE BudgetAllows(o) /\ PrepareRows(w, o) /\ Goto(w, "apply") /\ held' = held
    <2>1. /\ intent' = [intent EXCEPT ![o] = PreState(o, disk)]
          /\ charge' = Reserve(o)
      BY <1>7 DEF PrepareRows
    <2>2. /\ DOMAIN intent' = Ops /\ intent'[o] = PreState(o, disk) /\ intent'[o] # <<>>
          /\ \A q \in Ops : q # o => intent'[q] = intent[q]
      BY <1>2, <2>1, PreStateNotEmpty DEF DataTypes
    <2>3. /\ charge' \in [Ops -> {"none", "reserved", "committed"}] /\ charge'[o] # "none"
          /\ charge[o] # "none" => charge'[o] = charge[o]
          /\ \A q \in Ops : q # o => charge'[q] = charge[q]
      BY <1>2, <2>1 DEF DataTypes, Reserve
    <2>4. WorkTypes' /\ OthersSame(w) /\ Apart' /\ pc'[w] = "apply"
      <3>1. /\ outcome' \in [Workers -> {"succeeded", "failed"}]
            /\ \A u \in Workers : u # w => outcome'[u] = outcome[u]
            /\ doubt' \in [Workers -> BOOLEAN]
        BY <1>1, <1>2 DEF WorkTypes
      <3> QED BY <1>1, <1>7, <3>1, MoveFacts
    <2>5. RowTypes' /\ DataTypes'
      BY <1>1, <1>2, <2>2, <2>3 DEF RowTypes, DataTypes
    <2>6. \A q \in Ops : intent[q] # <<>> => intent'[q] # <<>>
      BY <2>2
    <2>7. Placed(w)'
      <3>1. Control(w)'
        BY <1>1, <1>2, <1>3, <1>4, <2>2, <2>4 DEF Control
      <3>2. Locked(w)'
        BY <1>1, <1>2, <1>3, <1>7, <2>4 DEF Locked, InSection, LockRequests, Targets
      <3> QED BY <3>1, <3>2 DEF Placed
    <2>8. Quiet(w)'
      <3>1. ~lost => Clear(op[w])
        BY <1>1, <1>2 DEF Quiet
      <3>2. Clear(op[w]) => Clear(op[w])'
        BY <1>1 DEF Clear, Succeeded, Ticket
      <3>3. PreState(op'[w], disk') = intent'[op'[w]]
        BY <1>1, <1>4, <2>2
      <3> QED BY <1>1, <2>4, <3>1, <3>2, <3>3 DEF Quiet
    <2>9. ASSUME NEW u \in Workers, u # w
          PROVE  Quiet(u)'
      <3>1. SameWorker(u)
        BY <2>4, <2>9 DEF OthersSame
      <3>2. ASSUME ~lost, pc[u] \in {"prepare", "apply", "complete"}
            PROVE  /\ intent'[op[u]] = intent[op[u]]
                   /\ \A x \in Targets(op[u]) : disk'[x] = disk[x]
                   /\ Clear(op[u]) => Clear(op[u])'
        <4>1. op[u] \in Ops /\ op[u] # o
          BY <1>3, <1>4, <2>9, <3>2, InHand, OthersApart
        <4>2. Clear(op[u]) => Clear(op[u])'
          BY <1>1 DEF Clear, Succeeded, Ticket
        <4> QED BY <1>1, <2>2, <4>1, <4>2
      <3> QED BY <1>1, <3>1, <3>2, OtherQuiet
    <2>10. Charges'
      <3>1. \A r \in Runs : IsFiniteSet(Charged(r)') /\ Cardinality(Charged(r)') <= Budget[r]
        BY <1>7, <2>3, ChargeGrows
      <3>2. ASSUME NEW q \in Ops
            PROVE  /\ intent'[q] # <<>> => charge'[q] # "none"
                   /\ receipt'[q] # "none" => intent'[q] # <<>> /\ charge'[q] = "committed"
        <4>1. /\ intent[q] # <<>> => charge[q] # "none"
              /\ receipt[q] # "none" => intent[q] # <<>> /\ charge[q] = "committed"
          BY DEF IInv, Charges, ChargesFollowIntents
        <4>2. receipt'[q] = receipt[q]
          BY <1>1
        <4>3. CASE q = o
          BY <2>2, <2>3, <4>1, <4>2, <4>3
        <4>4. CASE q # o
          BY <2>2, <2>3, <4>1, <4>2, <4>4
        <4> QED BY <4>3, <4>4
      <3> QED BY <3>1, <3>2 DEF Charges, ChargesFollowIntents
    <2>11. TreeOf(disk)'
      BY <1>1 DEF IInv, TreeOf
    <2>12. History'
      <3> SUFFICES ASSUME NEW q \in Ops, changes[q] > 0
                   PROVE  /\ intent'[q] # <<>>
                          /\ ~lost /\ ~disturbed[q] =>
                                changes[q] = 1 /\ PreState(q, disk) # intent'[q]
        BY <1>1 DEF History
      <3>1. /\ intent[q] # <<>>
            /\ ~lost /\ ~disturbed[q] => changes[q] = 1 /\ PreState(q, disk) # intent[q]
        BY DEF IInv, History
      <3>2. CASE q # o
        BY <2>2, <3>1, <3>2
      <3>3. CASE q = o
        <4>1. lost
          BY <1>1, <1>2, <1>4, <3>1, <3>3 DEF Quiet
        <4> QED BY <2>2, <3>3, <4>1
      <3> QED BY <3>2, <3>3
    <2>13. lost' = lost /\ \A u \in Workers : Quiet(u)'
      BY <1>1, <2>8, <2>9
    <2> QED BY <2>4, <2>5, <2>6, <2>7, <2>10, <2>11, <2>12, <2>13, DataStep
  <1> QED BY <1>5, <1>6, <1>7

\* A completion is never refused: the prepared operation has its charge.
LEMMA CompleteStep ==
    ASSUME IInv, NEW w \in Workers, completeTargetOperation(w)
    PROVE  IInv'
  <1>1. /\ pc[w] = "complete"
        /\ UNCHANGED <<status, holder, live, disk, changes, disturbed, intent, mode, run, todo, op,
                       outcome, doubt, lost, faults>>
    BY DEF completeTargetOperation, rowVars, diskVars
  <1>2. WorkTypes /\ RowTypes /\ DataTypes /\ Control(w) /\ Locked(w)
    BY TypeParts DEF IInv
  <1>3. op[w] \in Ops /\ InSection(w) /\ intent[op[w]] # <<>>
    BY <1>1, InHand
  <1>4. PICK o \in Ops : o = op[w]
    BY <1>3
  <1>5. charge[o] # "none"
    BY <1>3, <1>4 DEF IInv, Charges, ChargesFollowIntents
  <1>6. /\ receipt' = IF receipt[o] = "none" THEN [receipt EXCEPT ![o] = outcome[w]] ELSE receipt
        /\ charge' = [charge EXCEPT ![o] = "committed"]
    BY <1>4, <1>5 DEF completeTargetOperation, CompleteRows
  <1>7. PICK to \in {"ending", "leave"} :
          /\ Goto(w, to) /\ (held' = held \/ Unlock(w)) /\ (to = "ending" => Unlock(w))
          /\ to = "leave" => held' = held
    <2>1. CASE outcome[w] = "failed"
      BY <1>4, <1>5, <2>1 DEF completeTargetOperation
    <2>2. CASE outcome[w] # "failed"
      BY <1>4, <1>5, <2>2 DEF completeTargetOperation
    <2> QED BY <2>1, <2>2
  <1>8. /\ receipt' \in [Ops -> {"none", "succeeded", "failed"}]
        /\ \A q \in Ops : q # o => receipt'[q] = receipt[q]
    BY <1>2, <1>6 DEF DataTypes, WorkTypes
  <1>9. /\ charge' \in [Ops -> {"none", "reserved", "committed"}] /\ charge'[o] = "committed"
        /\ \A q \in Ops : q # o => charge'[q] = charge[q]
    BY <1>2, <1>6 DEF DataTypes
  <1>10. WorkTypes' /\ OthersSame(w) /\ Apart' /\ pc'[w] = to /\ (held' = held \/ held'[w] = {})
    <2>1. /\ outcome' \in [Workers -> {"succeeded", "failed"}]
          /\ \A u \in Workers : u # w => outcome'[u] = outcome[u]
          /\ doubt' \in [Workers -> BOOLEAN]
      BY <1>1, <1>2 DEF WorkTypes
    <2>2. held'[w] # {} => to = "leave"
      BY <1>2, <1>7 DEF Unlock, WorkTypes
    <2> QED BY <1>1, <1>7, <2>1, <2>2, MoveFacts
  <1>11. RowTypes' /\ DataTypes' /\ \A q \in Ops : intent[q] # <<>> => intent'[q] # <<>>
    BY <1>1, <1>2, <1>8, <1>9 DEF RowTypes, DataTypes
  <1>12. Placed(w)'
    <2>1. Control(w)'
      BY <1>1, <1>2, <1>3, <1>10 DEF Control
    <2>2. Locked(w)'
      BY <1>1, <1>2, <1>3, <1>7, <1>10 DEF Locked, InSection, LockRequests, Targets
    <2> QED BY <2>1, <2>2 DEF Placed
  <1>13. Quiet(w)'
    BY <1>10 DEF Quiet
  <1>14. ASSUME NEW u \in Workers, u # w
         PROVE  Quiet(u)'
    <2>1. SameWorker(u)
      BY <1>10, <1>14 DEF OthersSame
    <2>2. ASSUME ~lost, pc[u] \in {"prepare", "apply", "complete"}, Clear(op[u])
          PROVE  Clear(op[u])'
      <3>1. PICK v \in Ops : v = op[u] /\ v = op'[u]
        BY <2>1, <2>2, InHand DEF SameWorker
      <3>2. \A x \in Targets(o), y \in Targets(v) : ~Overlap(x, y)
        BY <1>3, <1>4, <1>14, <2>2, <3>1, InHand, OthersApart
      <3> SUFFICES ASSUME Def[v].run \notin Permitted, NEW c \in Ops, Succeeded(c)', Ticket(c) # Ticket(v),
                          NEW a \in Artifacts(c), NEW x \in Targets(v), Overlap(a, x)
                   PROVE  disk[a] \in {Absent, Dir}
        BY <1>1, <3>1 DEF Clear, Ticket
      <3>3. CASE c = o
        BY <3>2, <3>3, TargetFacts
      <3>4. CASE c # o
        <4>1. Succeeded(c)
          BY <1>8, <3>4 DEF Succeeded
        <4> QED BY <2>2, <3>1, <4>1 DEF Clear
      <3> QED BY <3>3, <3>4
    <2>3. intent'[op[u]] = intent[op[u]] /\ \A x \in Targets(op[u]) : disk'[x] = disk[x]
      BY <1>1
    <2> QED BY <1>1, <2>1, <2>2, <2>3, OtherQuiet
  <1>15. Charges'
    <2>1. BudgetAllows(o)
      BY <1>5 DEF BudgetAllows
    <2>2. \A r \in Runs : IsFiniteSet(Charged(r)') /\ Cardinality(Charged(r)') <= Budget[r]
      BY <1>9, <2>1, ChargeGrows
    <2>3. ASSUME NEW q \in Ops
          PROVE  /\ intent'[q] # <<>> => charge'[q] # "none"
                 /\ receipt'[q] # "none" => intent'[q] # <<>> /\ charge'[q] = "committed"
      <3>1. /\ intent[q] # <<>> => charge[q] # "none"
            /\ receipt[q] # "none" => intent[q] # <<>> /\ charge[q] = "committed"
        BY DEF IInv, Charges, ChargesFollowIntents
      <3>2. intent'[q] = intent[q]
        BY <1>1
      <3>3. CASE q = o
        BY <1>3, <1>4, <1>9, <3>2, <3>3
      <3>4. CASE q # o
        BY <1>8, <1>9, <3>1, <3>2, <3>4
      <3> QED BY <3>3, <3>4
    <2> QED BY <2>2, <2>3 DEF Charges, ChargesFollowIntents
  <1>16. TreeOf(disk)' /\ History'
    BY <1>1 DEF IInv, TreeOf, History
  <1>17. lost' = lost /\ \A u \in Workers : Quiet(u)'
    BY <1>1, <1>13, <1>14
  <1> QED BY <1>10, <1>11, <1>12, <1>15, <1>16, <1>17, DataStep

LEMMA ChargeFailedStep ==
    ASSUME IInv, NEW w \in Workers, chargeFailedOperation(w)
    PROVE  IInv'
  <1>1. /\ pc[w] = "failing" /\ Goto(w, "ending")
        /\ charge' = IF BudgetAllows(op[w]) THEN [charge EXCEPT ![op[w]] = "committed"] ELSE charge
        /\ UNCHANGED <<status, holder, live, disk, changes, disturbed, intent, receipt, mode, run,
                       todo, op, outcome, doubt, held, lost, faults>>
    BY DEF chargeFailedOperation, rowVars, diskVars
  <1>2. WorkTypes /\ RowTypes /\ DataTypes /\ Control(w)
    BY TypeParts DEF IInv
  <1>3. op[w] \in Ops /\ mode[w] = "execute" /\ held[w] = {}
    BY <1>1, InHand, IdleWorker
  <1>4. WorkTypes' /\ OthersSame(w) /\ Apart' /\ pc'[w] = "ending"
    <2>1. /\ outcome' \in [Workers -> {"succeeded", "failed"}]
          /\ \A u \in Workers : u # w => outcome'[u] = outcome[u]
          /\ doubt' \in [Workers -> BOOLEAN] /\ held'[w] = {}
      BY <1>1, <1>2, <1>3 DEF WorkTypes
    <2> QED BY <1>1, <2>1, MoveFacts
  <1>5. CASE ~BudgetAllows(op[w])
    <2>1. Placed(w)' /\ Quiet(w)'
      BY <1>1, <1>2, <1>3, <1>4 DEF Placed, Control, Locked, InSection, Quiet
    <2>2. charge' = charge
      BY <1>1, <1>5
    <2>3. faults' \in 0..MaxFaults /\ doubt' \in [Workers -> BOOLEAN] /\ held'[w] = {}
      BY <1>1, <1>2, <1>3 DEF RowTypes, WorkTypes
    <2> QED BY <1>1, <2>1, <2>2, <2>3, MoveStep
  <1>6. CASE BudgetAllows(op[w])
    <2>1. PICK o \in Ops : o = op[w]
      BY <1>3
    <2>2. /\ charge' \in [Ops -> {"none", "reserved", "committed"}] /\ charge'[o] = "committed"
          /\ \A q \in Ops : q # o => charge'[q] = charge[q]
      BY <1>1, <1>2, <1>6, <2>1 DEF DataTypes
    <2>3. RowTypes' /\ DataTypes' /\ \A q \in Ops : intent[q] # <<>> => intent'[q] # <<>>
      BY <1>1, <1>2, <2>2 DEF RowTypes, DataTypes
    <2>4. Placed(w)' /\ Quiet(w)'
      BY <1>1, <1>2, <1>3, <1>4 DEF Placed, Control, Locked, InSection, Quiet
    <2>5. ASSUME NEW u \in Workers, u # w
          PROVE  Quiet(u)'
      <3>1. SameWorker(u)
        BY <1>4, <2>5 DEF OthersSame
      <3>2. Clear(op[u]) => Clear(op[u])'
        BY <1>1 DEF Clear, Succeeded, Ticket
      <3> QED BY <1>1, <3>1, <3>2, OtherQuiet
    <2>6. Charges'
      <3>1. \A r \in Runs : IsFiniteSet(Charged(r)') /\ Cardinality(Charged(r)') <= Budget[r]
        BY <1>6, <2>1, <2>2, ChargeGrows
      <3>2. ASSUME NEW q \in Ops
            PROVE  /\ intent'[q] # <<>> => charge'[q] # "none"
                   /\ receipt'[q] # "none" => intent'[q] # <<>> /\ charge'[q] = "committed"
        <4>1. /\ intent[q] # <<>> => charge[q] # "none"
              /\ receipt[q] # "none" => intent[q] # <<>> /\ charge[q] = "committed"
          BY DEF IInv, Charges, ChargesFollowIntents
        <4> QED BY <1>1, <2>2, <4>1
      <3> QED BY <3>1, <3>2 DEF Charges, ChargesFollowIntents
    <2>7. TreeOf(disk)' /\ History'
      BY <1>1 DEF IInv, TreeOf, History
    <2>8. lost' = lost /\ \A u \in Workers : Quiet(u)'
      BY <1>1, <2>4, <2>5
    <2> QED BY <1>4, <2>3, <2>4, <2>6, <2>7, <2>8, DataStep
  <1> QED BY <1>5, <1>6

-----------------------------------------------------------------------------
(* Steps on the disk *)

\* The disk becomes e by the operation w applies, and the workers W, w among them,
\* go on somehow.
LEMMA DiskSteps ==
    ASSUME IInv, NEW W \in SUBSET Workers, NEW w \in W, pc[w] = "apply",
           NEW e, Outcome(op[w], disk, e), ChangeDisk(op[w], e),
           \A u \in Workers \ W : SameWorker(u),
           RowTypes', WorkTypes', UNCHANGED <<intent, receipt, charge, lost>>,
           \A u \in W : Placed(u)' /\ Quiet(u)', Apart'
    PROVE  IInv'
  <1>1. op[w] \in Ops /\ InSection(w) /\ intent[op[w]] # <<>>
    BY InHand
  <1>2. PICK o \in Ops : o = op[w]
    BY <1>1
  <1>3. /\ disk' = e /\ e \in [Paths -> Contents] /\ TreeOf(e)
        /\ \A p \in Paths : e[p] # disk[p] => \E x \in Targets(o) : Overlap(p, x)
        /\ \A p \in Paths : e[p] \notin {Absent, Dir} /\ e[p] # disk[p] => p \in Targets(o)
    BY <1>2 DEF Outcome, ChangeDisk
  <1>4. /\ changes' = IF PreState(o, e) = PreState(o, disk) THEN changes
                     ELSE [changes EXCEPT ![o] = @ + 1]
        /\ disturbed' = [q \in Ops |-> disturbed[q] \/
              (q # o /\ changes[q] > 0 /\ PreState(q, e) # PreState(q, disk))]
    BY <1>2 DEF ChangeDisk
  <1>5. DataTypes
    BY TypeParts DEF IInv
  <1>6. /\ changes' \in [Ops -> Nat]
        /\ \A q \in Ops : q # o => changes'[q] = changes[q]
        /\ PreState(o, e) = PreState(o, disk) => changes'[o] = changes[o]
        /\ PreState(o, e) # PreState(o, disk) => changes'[o] = changes[o] + 1
    BY <1>4, <1>5 DEF DataTypes
  <1>7. /\ disturbed' \in [Ops -> BOOLEAN]
        /\ \A q \in Ops : ~disturbed'[q] => ~disturbed[q]
        /\ \A q \in Ops : ~disturbed'[q] /\ q # o /\ changes[q] > 0 =>
                             PreState(q, e) = PreState(q, disk)
    BY <1>4
  <1>8. DataTypes'
    BY <1>3, <1>5, <1>6, <1>7 DEF DataTypes
  <1>9. ASSUME NEW u \in Workers \ W
        PROVE  Quiet(u)'
    <2>1. SameWorker(u) /\ u # w
      BY <1>9
    <2>2. ASSUME ~lost, pc[u] \in {"prepare", "apply", "complete"}
          PROVE  /\ intent'[op[u]] = intent[op[u]]
                 /\ \A x \in Targets(op[u]) : disk'[x] = disk[x]
                 /\ Clear(op[u]) => Clear(op[u])'
      <3>1. PICK v \in Ops : v = op[u] /\ v = op'[u]
        BY <2>1, <2>2, InHand DEF SameWorker
      <3>2. \A x \in Targets(o), y \in Targets(v) : ~Overlap(x, y) /\ ~Overlap(y, x)
        BY <1>1, <1>2, <2>1, <2>2, <3>1, InHand, OthersApart
      <3>3. Targets(v) \subseteq Paths
        BY TargetFacts
      <3>4. \A x \in Targets(v) : disk'[x] = disk[x]
        BY <1>3, <3>2, <3>3
      <3>5. ASSUME Clear(op[u]) PROVE Clear(op[u])'
        <4> SUFFICES ASSUME Def[v].run \notin Permitted, NEW c \in Ops, Succeeded(c),
                            Ticket(c) # Ticket(v), NEW a \in Artifacts(c),
                            NEW x \in Targets(v), Overlap(a, x)
                     PROVE  e[a] \in {Absent, Dir}
          BY <1>3, <3>1 DEF Clear, Ticket, Succeeded
        <4>1. disk[a] \in {Absent, Dir} /\ a \in Paths
          BY <3>1, <3>5, TargetFacts DEF Clear
        <4>2. a \notin Targets(o)
          BY <3>2
        <4> QED BY <1>3, <4>1, <4>2
      <3> QED BY <3>1, <3>4, <3>5
    <2> QED BY <2>1, <2>2, OtherQuiet
  <1>10. Charges'
    <2>1. \A r \in Runs : Charged(r)' = Charged(r)
      BY DEF Charged
    <2> QED BY <2>1 DEF IInv, Charges, ChargesFollowIntents
  <1>11. TreeOf(disk)'
    BY <1>3 DEF TreeOf
  <1>12. History'
    <2> SUFFICES ASSUME NEW q \in Ops, changes'[q] > 0
                 PROVE  /\ intent[q] # <<>>
                        /\ ~lost /\ ~disturbed'[q] =>
                              changes'[q] = 1 /\ PreState(q, e) # intent[q]
      BY <1>3 DEF History
    <2>1. changes[q] > 0 =>
            /\ intent[q] # <<>>
            /\ ~lost /\ ~disturbed[q] => changes[q] = 1 /\ PreState(q, disk) # intent[q]
      BY DEF IInv, History
    <2>2. CASE q # o
      BY <1>6, <1>7, <2>1, <2>2
    <2>3. CASE q = o /\ PreState(o, e) = PreState(o, disk)
      BY <1>6, <1>7, <2>1, <2>3
    <2>4. CASE q = o /\ PreState(o, e) # PreState(o, disk)
      <3>1. intent[o] # <<>>
        BY <1>1, <1>2
      <3>2. ASSUME ~lost, ~disturbed'[o]
            PROVE  changes'[o] = 1 /\ PreState(o, e) # intent[o]
        <4>1. PreState(o, disk) = intent[o]
          BY <1>2, <3>2 DEF IInv, Quiet
        <4>2. ~(changes[o] > 0)
          BY <1>7, <2>1, <2>4, <3>2, <4>1
        <4>3. changes[o] = 0
          BY <1>5, <4>2 DEF DataTypes
        <4> QED BY <1>6, <2>4, <4>1, <4>3
      <3> QED BY <2>4, <3>1, <3>2
    <2> QED BY <2>2, <2>3, <2>4
  <1>13. lost' = lost /\ (\A u \in Workers : Quiet(u)') /\ \A q \in Ops : intent[q] # <<>> => intent'[q] # <<>>
    BY <1>9
  <1> QED BY <1>8, <1>10, <1>11, <1>12, <1>13, DataSteps

LEMMA DiskStep ==
    ASSUME IInv, NEW w \in Workers, pc[w] = "apply",
           NEW e, Outcome(op[w], disk, e), ChangeDisk(op[w], e),
           OthersSame(w), RowTypes', WorkTypes', UNCHANGED <<intent, receipt, charge, lost>>,
           Placed(w)', Quiet(w)', Apart'
    PROVE  IInv'
  <1>1. /\ {w} \in SUBSET Workers /\ w \in {w}
        /\ \A u \in Workers \ {w} : SameWorker(u)
    BY DEF OthersSame
  <1>2. \A u \in {w} : Placed(u)' /\ Quiet(u)'
    OBVIOUS
  <1> QED BY <1>1, <1>2, DiskSteps

LEMMA ApplyStep ==
    ASSUME IInv, NEW w \in Workers, applyEffect(w)
    PROVE  IInv'
  <1>1. /\ pc[w] = "apply" /\ Goto(w, "complete")
        /\ UNCHANGED <<status, holder, live, intent, receipt, charge, mode, run, todo, op, doubt,
                       held, lost, faults>>
    BY DEF applyEffect, rowVars, dbVars
  <1>2. WorkTypes /\ RowTypes /\ DataTypes /\ Control(w) /\ Locked(w) /\ Quiet(w) /\ TreeOf(disk)
    BY TypeParts DEF IInv
  <1>3. op[w] \in Ops /\ InSection(w) /\ intent[op[w]] # <<>> /\ mode[w] = "execute"
    BY <1>1, InHand
  <1>4. PICK o \in Ops : o = op[w] /\ o = op'[w]
    BY <1>1, <1>3
  <1>5. /\ outcome' \in [Workers -> {"succeeded", "failed"}]
        /\ \A u \in Workers : u # w => outcome'[u] = outcome[u]
        /\ ~Feasible(o, disk) => outcome'[w] = "failed" /\ UNCHANGED <<disk, changes, disturbed>>
    <2>1. CASE Feasible(o, disk)
      BY <1>2, <1>4, <2>1 DEF applyEffect, WorkTypes
    <2>2. CASE ~Feasible(o, disk)
      <3>1. outcome' = [outcome EXCEPT ![w] = "failed"] /\ UNCHANGED <<disk, changes, disturbed>>
        BY <1>4, <2>2 DEF applyEffect, diskVars
      <3> QED BY <1>2, <3>1 DEF WorkTypes
    <2> QED BY <2>1, <2>2
  <1>6. WorkTypes' /\ OthersSame(w) /\ Apart' /\ pc'[w] = "complete"
    <2>1. doubt' \in [Workers -> BOOLEAN]
      BY <1>1, <1>2 DEF WorkTypes
    <2> QED BY <1>1, <1>5, <2>1, MoveFacts
  <1>7. Placed(w)'
    <2>1. Control(w)'
      BY <1>1, <1>2, <1>3, <1>6 DEF Control
    <2>2. Locked(w)'
      BY <1>1, <1>2, <1>3, <1>6 DEF Locked, InSection, LockRequests, Targets
    <2> QED BY <2>1, <2>2 DEF Placed
  <1>8. RowTypes'
    BY <1>1, <1>2 DEF RowTypes
  <1>9. CASE Feasible(o, disk)
    <2>1. PICK e : e = Effect(o, disk)
      OBVIOUS
    <2>2. Outcome(o, disk, e)
      BY <1>2, <1>9, <2>1, EffectOutcome DEF DataTypes
    <2>3. ChangeDisk(o, e)
      BY <1>4, <1>9, <2>1 DEF applyEffect
    <2>4. Quiet(w)'
      <3>1. ~lost => Done(o, e)
        BY <1>1, <1>2, <1>4, <1>9, <2>1, EffectDone DEF Quiet, DataTypes
      <3>2. disk' = e
        BY <2>3 DEF ChangeDisk
      <3>3. Done(o, e) => Done(op[w], disk)'
        BY <1>1, <1>4, <3>2 DEF Done, EffectVisible
      <3> QED BY <1>1, <1>6, <3>1, <3>3 DEF Quiet
    <2> QED BY <1>1, <1>4, <1>6, <1>7, <1>8, <2>2, <2>3, <2>4, DiskStep
  <1>10. CASE ~Feasible(o, disk)
    <2>1. Quiet(w)'
      BY <1>5, <1>6, <1>10 DEF Quiet
    <2>2. lost' \in BOOLEAN /\ (~lost' => ~lost)
      BY <1>1 DEF IInv, TypeOK
    <2> QED BY <1>1, <1>5, <1>6, <1>7, <1>8, <1>10, <2>1, <2>2, ControlStep
  <1> QED BY <1>9, <1>10

\* A process that dies may leave an effect half done; the locks of its workers go
\* back.
LEMMA CrashStep ==
    ASSUME IInv, NEW w \in Workers, crash(w)
    PROVE  IInv'
  <1>0. SameProcess(w) \in SUBSET Workers /\ w \in SameProcess(w)
    BY DEF SameProcess
  <1>1. PICK W \in SUBSET Workers : W = SameProcess(w) /\ w \in W
    BY <1>0
  <1>2. /\ ForgetWork(W) /\ Fault
        /\ holder' = [r \in Runs |-> IF holder[r] \in W THEN Gone ELSE holder[r]]
        /\ UNCHANGED <<status, live, intent, receipt, charge, lost>>
    BY <1>1 DEF crash, dbVars
  <1>3. RowTypes /\ DataTypes /\ TreeOf(disk) /\ lost \in BOOLEAN
    BY TypeParts DEF IInv
  <1>4. RowTypes'
    BY <1>2, <1>3, FaultCounted DEF RowTypes
  <1>5. /\ WorkTypes' /\ Apart' /\ \A u \in Workers \ W : SameWorker(u)
        /\ \A u \in W : Placed(u)' /\ Quiet(u)'
    BY <1>2, ForgetFacts
  <1>6. CASE UNCHANGED diskVars
    <2>1. UNCHANGED <<disk, changes, disturbed>>
      BY <1>6 DEF diskVars
    <2> QED BY <1>2, <1>3, <1>4, <1>5, <2>1, ControlSteps
  <1>7. CASE /\ pc[w] = "apply" /\ Feasible(op[w], disk)
             /\ \E d \in PartialEffects(op[w], disk) : ChangeDisk(op[w], d)
    <2>1. PICK e \in PartialEffects(op[w], disk) : ChangeDisk(op[w], e)
      BY <1>7
    <2>2. op[w] \in Ops
      BY <1>7, InHand
    <2>3. Outcome(op[w], disk, e)
      BY <1>3, <1>7, <2>2, PartialOutcome DEF DataTypes
    <2> QED BY <1>1, <1>2, <1>4, <1>5, <1>7, <2>1, <2>3, DiskSteps
  <1> QED BY <1>6, <1>7 DEF crash

-----------------------------------------------------------------------------
(* Invariance *)

LEMMA InitInvariant == Init => IInv
  <1> SUFFICES ASSUME Init PROVE IInv
    OBVIOUS
  <1>1. RowTypes
    BY ConstantsAssumption DEF Init, RowTypes, ConstantsAssumption
  <1>2. DataTypes
    BY PathFacts DEF Init, DataTypes
  <1>3. WorkTypes
    BY DEF Init, WorkTypes
  <1>4. TypeOK
    BY <1>1, <1>2, <1>3, TypeParts DEF Init
  <1>5. ASSUME NEW w \in Workers
        PROVE  Control(w) /\ Locked(w) /\ Quiet(w)
    BY DEF Init, Control, Locked, Quiet, InSection
  <1>6. Apart
    BY DEF Init, Apart
  <1>7. Charges
    <2>1. \A r \in Runs : Charged(r) = {}
      BY DEF Init, Charged, RunOps
    <2>2. \A r \in Runs : IsFiniteSet(Charged(r)) /\ Cardinality(Charged(r)) <= Budget[r]
      <3>1. IsFiniteSet({}) /\ Cardinality({}) = 0
        BY FS_EmptySet
      <3>2. \A r \in Runs : Budget[r] \in Nat
        BY ConstantsAssumption DEF ConstantsAssumption
      <3> QED BY <2>1, <3>1, <3>2
    <2> QED BY <2>2 DEF Init, Charges, ChargesFollowIntents
  <1>8. TreeOf(disk) /\ History
    BY DEF Init, TreeOf, History
  <1> QED BY <1>4, <1>5, <1>6, <1>7, <1>8 DEF IInv

LEMMA NextInvariant == IInv /\ [Next]_vars => IInv'
  <1> SUFFICES ASSUME IInv, [Next]_vars PROVE IInv'
    OBVIOUS
  <1>1. ASSUME NEW w \in Workers, NEW r \in Runs, claimPendingRun(w, r) PROVE IInv'
    BY <1>1, ClaimStep
  <1>2. ASSUME NEW w \in Workers, NEW r \in Runs, claimRunRecovery(w, r) PROVE IInv'
    BY <1>2, RecoveryStep
  <1>3. ASSUME NEW w \in Workers, endExecution(w) \/ endRecovery(w) PROVE IInv'
    BY <1>3, EndStep
  <1>4. ASSUME NEW w \in Workers, nextOperation(w) PROVE IInv'
    BY <1>4, NextOperationStep
  <1>5. ASSUME NEW w \in Workers, beginMaterialization(w) PROVE IInv'
    BY <1>5, MaterializationStep
  <1>6. ASSUME NEW w \in Workers, acquireLock(w) PROVE IInv'
    BY <1>6, AcquireStep
  <1>7. ASSUME NEW w \in Workers, lockTimeout(w) \/ failCompletion(w) PROVE IInv'
    BY <1>7, GiveUpStep
  <1>8. ASSUME NEW w \in Workers, leaveSection(w) PROVE IInv'
    BY <1>8, LeaveStep
  <1>9. ASSUME NEW w \in Workers, materialize(w) PROVE IInv'
    BY <1>9, MaterializeStep
  <1>10. ASSUME NEW w \in Workers, beginWorkspaceMutation(w) PROVE IInv'
    BY <1>10, BeginMutationStep
  <1>11. ASSUME NEW w \in Workers, prepareTargetOperation(w) PROVE IInv'
    BY <1>11, PrepareStep
  <1>12. ASSUME NEW w \in Workers, applyEffect(w) PROVE IInv'
    BY <1>12, ApplyStep
  <1>13. ASSUME NEW w \in Workers, completeTargetOperation(w) PROVE IInv'
    BY <1>13, CompleteStep
  <1>14. ASSUME NEW w \in Workers, chargeFailedOperation(w) PROVE IInv'
    BY <1>14, ChargeFailedStep
  <1>15. ASSUME NEW w \in Workers, reconcilePreparedTargetOperation(w) PROVE IInv'
    BY <1>15, ReconcileStep
  <1>16. ASSUME NEW w \in Workers, crash(w) PROVE IInv'
    BY <1>16, CrashStep
  <1>17. ASSUME NEW w \in Workers, loseSession(w) PROVE IInv'
    BY <1>17, LoseSessionStep
  <1>18. ASSUME NEW r \in Runs, expireLease(r) PROVE IInv'
    BY <1>18, ExpireStep
  <1>19. ASSUME NEW r \in Runs, stopAgentRun(r) PROVE IInv'
    BY <1>19, StopStep
  <1>20. CASE UNCHANGED vars
    <2>1. RowTypes'
      BY <1>20, TypeParts DEF IInv, RowTypes, vars
    <2> QED BY <1>20, <2>1, RowStep DEF vars
  <1> QED
    BY <1>1, <1>2, <1>3, <1>4, <1>5, <1>6, <1>7, <1>8, <1>9, <1>10, <1>11, <1>12, <1>13,
       <1>14, <1>15, <1>16, <1>17, <1>18, <1>19, <1>20 DEF Next, allSettled

\* What the workers rely on holds in every reachable state.
THEOREM Invariance == Spec => []IInv
  <1>1. Init => IInv
    BY InitInvariant
  <1>2. IInv /\ [Next]_vars => IInv'
    BY NextInvariant
  <1> QED BY <1>1, <1>2, PTL DEF Spec

\* The variables keep their types, and only a worker in its section or on the way
\* into it has locks.
THEOREM TypeCorrect == Spec => []TypeOK
  <1>1. IInv => TypeOK
    BY DEF IInv
  <1> QED BY <1>1, Invariance, PTL

\* Shared locks on the ancestors and exclusive ones on the paths of an operation
\* keep the sections of withTargetOperationLock and of a materialization apart,
\* for every tree of paths, as long as no lock session is lost.
THEOREM SectionsAreDisjoint == Spec => []SectionsDisjoint
  <1>1. IInv => SectionsDisjoint
    BY LocksSeparate DEF IInv
  <1> QED BY <1>1, Invariance, PTL

\* An operation changes what it addresses at most once, although attempts of its
\* run that died inside the provider's call, were stalled or recovered may each come
\* to apply it, unless another operation has changed its paths in between or a lock
\* session was lost.  Parents made or entries taken by an attempt that died before
\* the change itself may be there when the next one makes it.
THEOREM EffectsHappenOnce == Spec => []EffectOnce
  <1>1. IInv => EffectOnce
    <2> SUFFICES ASSUME IInv, NEW o \in Ops, changes[o] > 1, ~disturbed[o], ~lost
                 PROVE  FALSE
      BY DEF EffectOnce
    <2>1. changes[o] \in Nat
      BY DEF IInv, TypeOK
    <2>2. changes[o] > 0 => changes[o] = 1
      BY DEF IInv, History
    <2> QED BY <2>1, <2>2
  <1> QED BY <1>1, Invariance, PTL

\* An intent has its reservation and a receipt its committed charge, and the
\* charges of a run stay within its budget: no completion is refused for want of
\* a charge, lock session or not.
THEOREM ChargesAreComplete == Spec => []ChargesFollowIntents
  <1>1. IInv => ChargesFollowIntents
    BY DEF IInv, Charges
  <1> QED BY <1>1, Invariance, PTL

-----------------------------------------------------------------------------
(* What a step may do to receipts and files *)

\* Only completeTargetOperation writes a receipt.
LEMMA ReceiptWritten ==
    ASSUME [Next]_vars, receipt' # receipt
    PROVE  \E w \in Workers : completeTargetOperation(w)
  <1>1. ASSUME NEW w \in Workers, NEW r \in Runs, claimPendingRun(w, r) \/ claimRunRecovery(w, r)
        PROVE  receipt' = receipt
    BY <1>1 DEF claimPendingRun, claimRunRecovery, dbVars
  <1>2. ASSUME NEW w \in Workers,
               \/ endExecution(w) \/ endRecovery(w) \/ nextOperation(w) \/ beginMaterialization(w)
               \/ acquireLock(w) \/ lockTimeout(w) \/ leaveSection(w) \/ materialize(w)
        PROVE  receipt' = receipt
    BY <1>2 DEF endExecution, endRecovery, nextOperation, beginMaterialization, acquireLock,
       lockTimeout, leaveSection, materialize, dbVars
  <1>3. ASSUME NEW w \in Workers,
               \/ beginWorkspaceMutation(w) \/ prepareTargetOperation(w) \/ applyEffect(w)
               \/ failCompletion(w) \/ chargeFailedOperation(w)
               \/ reconcilePreparedTargetOperation(w) \/ crash(w) \/ loseSession(w)
        PROVE  receipt' = receipt
    BY <1>3 DEF beginWorkspaceMutation, prepareTargetOperation, applyEffect, failCompletion,
       chargeFailedOperation, reconcilePreparedTargetOperation, crash, loseSession, dbVars
  <1>4. ASSUME NEW r \in Runs, expireLease(r) \/ stopAgentRun(r)
        PROVE  receipt' = receipt
    BY <1>4 DEF expireLease, stopAgentRun, dbVars
  <1>5. CASE UNCHANGED vars
    BY <1>5 DEF vars
  <1> QED BY <1>1, <1>2, <1>3, <1>4, <1>5 DEF Next, allSettled

\* Only the worker that applies an operation changes the disk, and only where the
\* operation's paths are.
LEMMA DiskChanged ==
    ASSUME IInv, [Next]_vars, disk' # disk
    PROVE  \E w \in Workers : /\ pc[w] = "apply" /\ pc'[w] # "apply" /\ op[w] \in Ops
                              /\ \A p \in Paths : disk'[p] # disk[p] =>
                                    \E x \in Targets(op[w]) : Overlap(p, x)
  <1>1. ASSUME NEW w \in Workers, NEW r \in Runs, claimPendingRun(w, r) \/ claimRunRecovery(w, r)
        PROVE  disk' = disk
    BY <1>1 DEF claimPendingRun, claimRunRecovery, diskVars
  <1>2. ASSUME NEW w \in Workers,
               \/ endExecution(w) \/ endRecovery(w) \/ nextOperation(w) \/ beginMaterialization(w)
               \/ acquireLock(w) \/ lockTimeout(w) \/ leaveSection(w) \/ materialize(w)
        PROVE  disk' = disk
    BY <1>2 DEF endExecution, endRecovery, nextOperation, beginMaterialization, acquireLock,
       lockTimeout, leaveSection, materialize, diskVars
  <1>3. ASSUME NEW w \in Workers,
               \/ beginWorkspaceMutation(w) \/ prepareTargetOperation(w) \/ completeTargetOperation(w)
               \/ failCompletion(w) \/ chargeFailedOperation(w)
               \/ reconcilePreparedTargetOperation(w) \/ loseSession(w)
        PROVE  disk' = disk
    BY <1>3 DEF beginWorkspaceMutation, prepareTargetOperation, completeTargetOperation,
       failCompletion, chargeFailedOperation, reconcilePreparedTargetOperation, loseSession, diskVars
  <1>4. ASSUME NEW r \in Runs, expireLease(r) \/ stopAgentRun(r)
        PROVE  disk' = disk
    BY <1>4 DEF expireLease, stopAgentRun, diskVars
  <1>5. disk' = disk \/ ~UNCHANGED vars
    BY DEF vars
  <1>6. PICK w \in Workers : applyEffect(w) \/ crash(w)
    <2>1. Next /\ ~allSettled
      BY <1>5 DEF allSettled
    <2>2. ASSUME \A w \in Workers : ~applyEffect(w) /\ ~crash(w)
          PROVE  FALSE
      BY <1>1, <1>2, <1>3, <1>4, <2>1, <2>2 DEF Next
    <2> QED BY <2>2
  <1>7. disk \in [Paths -> Contents] /\ TreeOf(disk) /\ DOMAIN pc = Workers
    BY DEF IInv, TypeOK
  <1>8. PICK e : /\ pc[w] = "apply" /\ pc'[w] # "apply" /\ disk' = e /\ op[w] \in Ops
                 /\ Outcome(op[w], disk, e)
    <2>1. CASE applyEffect(w)
      <3>1. pc[w] = "apply" /\ Feasible(op[w], disk) /\ disk' = Effect(op[w], disk)
        BY <2>1 DEF applyEffect, ChangeDisk, diskVars
      <3>2. op[w] \in Ops
        BY <3>1, InHand
      <3>3. pc'[w] = "complete"
        BY <1>7, <2>1 DEF applyEffect, Goto
      <3> QED BY <1>7, <3>1, <3>2, <3>3, EffectOutcome
    <2>2. CASE crash(w)
      <3>1. /\ pc[w] = "apply" /\ Feasible(op[w], disk)
            /\ disk' \in PartialEffects(op[w], disk)
        BY <2>2 DEF crash, ChangeDisk, diskVars
      <3>2. op[w] \in Ops
        BY <3>1, InHand
      <3>3. pc'[w] = "idle"
        BY <2>2 DEF crash, ForgetWork, SameProcess
      <3> QED BY <1>7, <3>1, <3>2, <3>3, PartialOutcome
    <2> QED BY <1>6, <2>1, <2>2
  <1> QED BY <1>8 DEF Outcome

\* Whoever writes a receipt that says "succeeded" (the execution that applied the
\* operation, a later attempt or recovery) writes it while the disk shows the
\* effect, as long as no lock session is lost.
THEOREM ReceiptsMatchTheDisk == Spec => ReceiptMatchesDisk
  <1>1. IInv /\ [Next]_vars =>
          \A o \in Ops : receipt[o] = "none" /\ receipt'[o] = "succeeded" => Done(o, disk) \/ lost
    <2> SUFFICES ASSUME IInv, [Next]_vars, NEW o \in Ops,
                        receipt[o] = "none", receipt'[o] = "succeeded", ~lost
                 PROVE  Done(o, disk)
      OBVIOUS
    <2>1. PICK w \in Workers : completeTargetOperation(w)
      BY ReceiptWritten
    <2>2. pc[w] = "complete"
      BY <2>1 DEF completeTargetOperation
    <2>3. o = op[w] /\ outcome[w] = "succeeded"
      <3>1. op[w] \in Ops /\ receipt \in [Ops -> {"none", "succeeded", "failed"}]
        BY <2>2, InHand DEF IInv, TypeOK
      <3>2. receipt' = receipt \/ receipt' = [receipt EXCEPT ![op[w]] = outcome[w]]
        BY <2>1 DEF completeTargetOperation, CompleteRows
      <3> QED BY <3>1, <3>2
    <2> QED BY <2>2, <2>3 DEF IInv, Quiet
  <1> QED BY <1>1, Invariance, PTL DEF Spec, ReceiptMatchesDisk

\* A file that a succeeded receipt of a ticket accounts for is changed only by an
\* operation of that ticket or of a run with the cross-ticket permission: the
\* ownership test made when the section is entered still holds when the effect is
\* applied, as long as no lock session is lost.
THEOREM ArtifactsAreProtected == Spec => ArtifactsProtected
  <1>1. IInv /\ [Next]_vars =>
          \A c \in Ops, a \in Paths :
              /\ Succeeded(c)
              /\ a \in Artifacts(c)
              /\ disk[a] \notin {Absent, Dir}
              /\ disk'[a] # disk[a]
              => \E w \in Workers :
                    /\ pc[w] = "apply" /\ pc'[w] # "apply"
                    /\ Ticket(op[w]) = Ticket(c) \/ Def[op[w]].run \in Permitted \/ lost
    <2> SUFFICES ASSUME IInv, [Next]_vars, NEW c \in Ops, NEW a \in Paths, Succeeded(c),
                        a \in Artifacts(c), disk[a] \notin {Absent, Dir}, disk'[a] # disk[a]
                 PROVE  \E w \in Workers :
                           /\ pc[w] = "apply" /\ pc'[w] # "apply"
                           /\ Ticket(op[w]) = Ticket(c) \/ Def[op[w]].run \in Permitted \/ lost
      OBVIOUS
    <2>1. disk' # disk
      OBVIOUS
    <2>2. PICK w \in Workers : /\ pc[w] = "apply" /\ pc'[w] # "apply" /\ op[w] \in Ops
                               /\ \E x \in Targets(op[w]) : Overlap(a, x)
      BY <2>1, DiskChanged
    <2>3. ~lost => Clear(op[w])
      BY <2>2 DEF IInv, Quiet
    <2>4. Ticket(op[w]) = Ticket(c) \/ Def[op[w]].run \in Permitted \/ lost
      BY <2>2, <2>3 DEF Clear
    <2> QED BY <2>2, <2>4
  <1> QED BY <1>1, Invariance, PTL DEF Spec, ArtifactsProtected

-----------------------------------------------------------------------------
(* Waiting for locks *)

\* A worker on its way into its section still misses a lock, and those it misses
\* come after those it has (the sorted requests of buildWorkspaceLockRequests).
Ordered(w) ==
    pc[w] = "lock" =>
        /\ Missing(w) # {}
        /\ \A x \in held[w], y \in Missing(w) : NameOrder[x] < NameOrder[y]

\* Worker v does not come to wait by a step, which leaves the others where they are.
Off(v) ==
    /\ pc'[v] # "lock"
    /\ \A u \in Workers : u # v => pc'[u] = pc[u] /\ op'[u] = op[u] /\ held'[u] = held[u]

\* A worker that waits after a step waited before it, has no lock yet, or has
\* just been granted one.
LEMMA WaitCases ==
    ASSUME IInv, [Next]_vars, NEW w \in Workers, pc'[w] = "lock"
    PROVE  \/ pc[w] = "lock" /\ op'[w] = op[w] /\ held'[w] = held[w]
           \/ held'[w] = {}
           \/ acquireLock(w)
  <1> DEFINE Goal == \/ pc[w] = "lock" /\ op'[w] = op[w] /\ held'[w] = held[w]
                     \/ held'[w] = {}
                     \/ acquireLock(w)
  <1> USE DEF Goto, Unlock, BecomeIdle, ForgetWork, FailOperation
  <1>0. /\ pc \in [Workers -> {"idle", "next", "lock", "check", "prepare", "apply",
                               "complete", "leave", "failing", "ending"}]
        /\ held \in [Workers -> SUBSET Resources] /\ op \in [Workers -> Ops \cup {NoOp}]
        /\ \A v \in Workers : pc[v] \in {"idle", "next"} => held[v] = {}
        /\ \A v \in Workers : mode[v] = "idle" => pc[v] = "idle"
    BY DEF IInv, TypeOK, InSection, Control
  <1>1. ASSUME NEW v \in Workers, Off(v) PROVE Goal
    BY <1>1 DEF Off
  <1>2. ASSUME NEW v \in Workers, NEW r \in Runs, claimPendingRun(v, r) \/ claimRunRecovery(v, r)
        PROVE  Off(v)
    BY <1>0, <1>2 DEF claimPendingRun, claimRunRecovery, TakeRun, Off
  <1>3. ASSUME NEW v \in Workers, endExecution(v) \/ endRecovery(v)
        PROVE  Off(v)
    BY ZenonT(40), <1>0, <1>3 DEF endExecution, endRecovery, Off
  <1>4. ASSUME NEW v \in Workers, nextOperation(v) \/ beginMaterialization(v)
        PROVE  Goal
    <2>1. held' = held /\ held[v] = {}
      BY <1>0, <1>4 DEF nextOperation, beginMaterialization
    <2>2. \A u \in Workers : u # v => pc'[u] = pc[u] /\ op'[u] = op[u]
      BY <1>0, <1>4 DEF nextOperation, beginMaterialization
    <2> QED BY <2>1, <2>2
  <1>5. ASSUME NEW v \in Workers, acquireLock(v) PROVE Goal
    <2>1. CASE v = w BY <1>5, <2>1
    <2>2. CASE v # w BY <1>0, <1>5, <2>2 DEF acquireLock
    <2> QED BY <2>1, <2>2
  <1>6. ASSUME NEW v \in Workers, lockTimeout(v) \/ failCompletion(v)
        PROVE  Off(v)
    <2>1. CASE BecomeIdle(v)
      BY <1>0, <2>1 DEF Off
    <2>2. CASE Unlock(v) /\ (Goto(v, "failing") \/ Goto(v, "ending")) /\ UNCHANGED op
      BY <1>0, <2>2 DEF Off
    <2> QED BY <1>6, <2>1, <2>2 DEF lockTimeout, failCompletion
  <1>7. ASSUME NEW v \in Workers, leaveSection(v) \/ materialize(v) \/ loseSession(v)
        PROVE  Off(v)
    BY <1>0, <1>7 DEF leaveSection, materialize, loseSession, Off
  <1>8. ASSUME NEW v \in Workers, beginWorkspaceMutation(v) PROVE Off(v)
    BY <1>0, <1>8 DEF beginWorkspaceMutation, ResumePrepared, Classify, Off
  <1>9. ASSUME NEW v \in Workers, prepareTargetOperation(v) PROVE Off(v)
    BY <1>0, <1>9 DEF prepareTargetOperation, Off
  <1>10. ASSUME NEW v \in Workers, applyEffect(v) \/ chargeFailedOperation(v) PROVE Off(v)
    BY <1>0, <1>10 DEF applyEffect, chargeFailedOperation, Off
  <1>11. ASSUME NEW v \in Workers, completeTargetOperation(v) PROVE Off(v)
    BY <1>0, <1>11 DEF completeTargetOperation, Off
  <1>12. ASSUME NEW v \in Workers, reconcilePreparedTargetOperation(v) PROVE Off(v)
    BY <1>0, <1>12 DEF reconcilePreparedTargetOperation, Classify, Off
  <1>13. ASSUME UNCHANGED workVars PROVE Goal
    BY <1>13 DEF workVars
  <1>14. ASSUME NEW r \in Runs, expireLease(r) \/ stopAgentRun(r) PROVE UNCHANGED workVars
    BY <1>14 DEF expireLease, stopAgentRun
  <1>15. ASSUME UNCHANGED vars PROVE Goal
    BY <1>13, <1>15 DEF vars, workVars
  <1> HIDE DEF Goal
  <1>16. ASSUME NEW v \in Workers,
                \/ \E r \in Runs : claimPendingRun(v, r) \/ claimRunRecovery(v, r)
                \/ endExecution(v) \/ endRecovery(v) \/ lockTimeout(v)
                \/ failCompletion(v) \/ leaveSection(v) \/ materialize(v) \/ loseSession(v)
                \/ beginWorkspaceMutation(v) \/ prepareTargetOperation(v) \/ applyEffect(v)
                \/ chargeFailedOperation(v) \/ completeTargetOperation(v)
                \/ reconcilePreparedTargetOperation(v)
         PROVE  Off(v)
    BY <1>2, <1>3, <1>6, <1>7, <1>8, <1>9, <1>10, <1>11, <1>12, <1>16
  <1>17. ASSUME NEW v \in Workers, crash(v) PROVE pc[w] = "lock" /\ op'[w] = op[w] /\ held'[w] = held[w]
    BY <1>0, <1>17 DEF crash
  <1>18. ASSUME NEW v \in Workers, crash(v) PROVE Goal
    BY <1>17, <1>18 DEF Goal
  <1>20. Goal
    BY <1>1, <1>4, <1>5, <1>13, <1>14, <1>15, <1>16, <1>18 DEF Next, allSettled
  <1> QED BY <1>20 DEF Goal

LEMMA RequestsOf ==
    ASSUME NEW o \in Ops \cup {NoOp}
    PROVE  LockRequests(o) # {} /\ LockRequests(o) \subseteq Resources
  BY ConstantsAssumption, TargetFacts, RequestFacts DEF LockRequests, Targets, Resources

LEMMA OrderedStep ==
    ASSUME IInv, [Next]_vars, NEW w \in Workers, Ordered(w)
    PROVE  Ordered(w)'
  <1> SUFFICES ASSUME pc'[w] = "lock"
               PROVE  /\ Missing(w)' # {}
                      /\ \A x \in held'[w], y \in Missing(w)' : NameOrder[x] < NameOrder[y]
    BY DEF Ordered
  <1>0. TypeOK'
    BY NextInvariant DEF IInv
  <1>1. CASE pc[w] = "lock" /\ op'[w] = op[w] /\ held'[w] = held[w]
    <2>1. Missing(w)' = Missing(w)
      BY <1>1 DEF Missing, LockRequests, Targets
    <2> QED BY <1>1, <2>1 DEF Ordered
  <1>2. CASE held'[w] = {}
    <2>1. op'[w] \in Ops \cup {NoOp}
      BY <1>0 DEF TypeOK
    <2>2. LockRequests(op'[w]) # {}
      BY <2>1, RequestsOf
    <2>3. Missing(w)' = LockRequests(op'[w])
      BY <1>2 DEF Missing, LockRequests, Targets
    <2> QED BY <1>2, <2>2, <2>3
  <1>3. CASE acquireLock(w)
    <2>1. PICK x \in Resources :
             /\ NextLock(w, x)
             /\ held' = [held EXCEPT ![w] = @ \cup {x}]
             /\ pc' = [pc EXCEPT ![w] = IF Missing(w) = {x} THEN "check" ELSE "lock"]
      BY <1>3 DEF acquireLock, Goto
    <2>2. held'[w] = held[w] \cup {x} /\ Missing(w) # {x}
      BY <2>1 DEF IInv, TypeOK
    <2>3. op'[w] = op[w]
      BY <1>3 DEF acquireLock
    <2>4. Missing(w)' = Missing(w) \ {x}
      BY <2>2, <2>3 DEF Missing, LockRequests, Targets
    <2>5. x \in Missing(w) /\ \A y \in Missing(w) : NameOrder[x] <= NameOrder[y]
      BY <2>1 DEF NextLock
    <2>6. Missing(w) \subseteq Resources
      BY RequestsOf DEF Missing, IInv, TypeOK
    <2>7. ASSUME NEW z \in held'[w], NEW y \in Missing(w)' PROVE NameOrder[z] < NameOrder[y]
      <3>1. y \in Missing(w) /\ y # x /\ y \in Resources
        BY <2>4, <2>6
      <3>2. CASE z = x
        <4>1. NameOrder[x] <= NameOrder[y] /\ NameOrder[x] # NameOrder[y]
          BY <2>5, <3>1, ConstantsAssumption
        <4>2. NameOrder[x] \in Nat /\ NameOrder[y] \in Nat
          BY <3>1, ConstantsAssumption
        <4> QED BY <3>2, <4>1, <4>2
      <3>3. CASE z # x
        BY <1>3, <2>2, <2>7, <3>1, <3>3 DEF Ordered, acquireLock
      <3> QED BY <3>2, <3>3
    <2> QED BY <2>2, <2>4, <2>5, <2>7
  <1> QED BY <1>1, <1>2, <1>3, WaitCases

\* Every set of natural numbers that is not empty has a least element.
LEMMA LeastNatural ==
    ASSUME NEW T \in SUBSET Nat, T # {}
    PROVE  \E n \in T : \A m \in T : n <= m
  <1> DEFINE R == {pair \in Nat \X Nat : pair[1] < pair[2]}
  <1>1. IsWellFoundedOn(R, Nat)
    BY NatLessThanWellFounded DEF OpToRel, IsWellFoundedOn
  <1>2. \E x \in T : \A y \in T : ~ (<<y, x>> \in R)
    <2> HIDE DEF R
    <2> QED BY <1>1, WFMin, Zenon
  <1>3. PICK n \in T : \A y \in T : ~ (<<y, n>> \in R)
    BY <1>2
  <1>4. \A m \in T : n <= m
    <2> TAKE m \in T
    <2>1. n \in Nat /\ m \in Nat /\ <<m, n>> \in Nat \X Nat /\ <<m, n>>[1] = m /\ <<m, n>>[2] = n
      OBVIOUS
    <2>2. ~(m < n)
      BY <1>3, <2>1
    <2> QED BY <2>1, <2>2
  <1> QED BY <1>4

\* A finite set of natural numbers has a greatest element: one with the fewest
\* elements above it.
LEMMA GreatestNatural ==
    ASSUME NEW T \in SUBSET Nat, T # {}, IsFiniteSet(T)
    PROVE  \E n \in T : \A m \in T : m <= n
  <1> DEFINE Above(n) == {m \in T : n < m}
             Counts == {Cardinality(Above(n)) : n \in T}
  <1>1. \A n \in T : IsFiniteSet(Above(n)) /\ Cardinality(Above(n)) \in Nat
    <2> TAKE n \in T
    <2>1. Above(n) \subseteq T OBVIOUS
    <2>2. IsFiniteSet(Above(n)) BY <2>1, FS_Subset
    <2> QED BY <2>2, FS_CardinalityType
  <1>2. Counts \in SUBSET Nat /\ Counts # {}
    <2> HIDE DEF Above
    <2> QED BY <1>1
  <1>3. PICK c \in Counts : \A d \in Counts : c <= d
    <2> HIDE DEF Counts
    <2> QED BY <1>2, LeastNatural
  <1>4. PICK n \in T : c = Cardinality(Above(n))
    <2> HIDE DEF Above
    <2> QED OBVIOUS
  <1>5. ASSUME NEW m \in T, n < m PROVE FALSE
    <2>1. n \in Nat /\ m \in Nat OBVIOUS
    <2>2. Above(m) \subseteq Above(n) /\ m \in Above(n) /\ m \notin Above(m)
      <3>1. \A x \in T : m < x => n < x
        BY <1>5, <2>1
      <3>2. ~(m < m)
        BY <2>1
      <3> QED BY <1>5, <3>1, <3>2
    <2>3. Cardinality(Above(m)) < Cardinality(Above(n))
      <3>1. Above(m) # Above(n) BY <2>2
      <3> HIDE DEF Above
      <3> QED BY <1>1, <2>2, <3>1, FS_Subset
    <2>4. Cardinality(Above(n)) <= Cardinality(Above(m))
      <3> HIDE DEF Above
      <3> QED BY <1>3, <1>4
    <2> HIDE DEF Above
    <2> QED BY <1>1, <2>3, <2>4
  <1> QED
    <2>1. \A m \in T : m <= n
      <3> TAKE m \in T
      <3>1. n \in Nat /\ m \in Nat /\ ~(n < m) BY <1>5
      <3> QED BY <3>1
    <2> QED BY <2>1

\* A waiting worker has a next lock.
LEMMA NextLockExists ==
    ASSUME IInv, NEW w \in Workers, pc[w] = "lock", Ordered(w)
    PROVE  \E x \in Resources : NextLock(w, x)
  <1> DEFINE T == {NameOrder[x] : x \in Missing(w)}
  <1>1. Missing(w) # {} /\ Missing(w) \subseteq Resources
    BY RequestsOf DEF Ordered, Missing, IInv, TypeOK
  <1>2. T \in SUBSET Nat /\ T # {}
    BY <1>1, ConstantsAssumption
  <1>3. PICK n \in T : \A m \in T : n <= m
    <2> HIDE DEF T
    <2> QED BY <1>2, LeastNatural
  <1>4. PICK x \in Missing(w) : n = NameOrder[x]
    OBVIOUS
  <1>5. \A y \in Missing(w) : NameOrder[x] <= NameOrder[y]
    BY <1>3, <1>4
  <1> QED BY <1>1, <1>4, <1>5 DEF NextLock

\* Among the waiting workers, the one whose next lock comes last is held up only
\* by a worker in its section.
LEMMA SomebodyGoesOn ==
    ASSUME IInv, \A w \in Workers : Ordered(w),
           NEW v \in Workers, pc[v] = "lock"
    PROVE  \E w \in Workers : InSection(w) \/ Grantable(w)
  <1> SUFFICES ASSUME \A w \in Workers : ~InSection(w) /\ ~Grantable(w)
               PROVE  FALSE
    OBVIOUS
  <1> DEFINE Waits == {w \in Workers : pc[w] = "lock"}
             After(w) == CHOOSE x \in Resources : NextLock(w, x)
             Ranks == {NameOrder[After(w)] : w \in Waits}
  <1>1. \A w \in Waits : After(w) \in Resources /\ NextLock(w, After(w))
    BY NextLockExists
  <1>2. Ranks \in SUBSET Nat /\ Ranks # {}
    <2>1. v \in Waits OBVIOUS
    <2> HIDE DEF Waits, After
    <2> QED BY <1>1, <2>1, ConstantsAssumption
  <1>3. IsFiniteSet(Ranks)
    <2>1. IsFiniteSet(Waits)
      BY ConstantsAssumption, FS_Subset
    <2> DEFINE f == [w \in Waits |-> NameOrder[After(w)]]
    <2>2. f \in Surjection(Waits, Ranks)
      <3> HIDE DEF Waits, After
      <3> QED BY DEF Surjection
    <2> HIDE DEF f, Waits, Ranks
    <2> QED BY <2>1, <2>2, FS_Surjection
  <1>4. PICK n \in Ranks : \A m \in Ranks : m <= n
    <2> HIDE DEF Ranks
    <2> QED BY <1>2, <1>3, GreatestNatural
  <1>5. PICK w \in Waits : n = NameOrder[After(w)]
    <2> HIDE DEF Waits, After
    <2> QED OBVIOUS
  <1> HIDE DEF After
  <1>6. PICK u \in Workers \ {w} : Conflicts(u, w, After(w))
    BY <1>1, <1>5 DEF Grantable
  <1>7. After(w) \in held[u]
    BY <1>6 DEF Conflicts
  <1>8. u \in Waits
    BY <1>6, <1>7 DEF IInv, TypeOK
  <1>9. After(u) \in Missing(u) /\ After(u) \in Resources
    BY <1>1, <1>8 DEF NextLock
  <1>10. NameOrder[After(w)] < NameOrder[After(u)]
    BY <1>7, <1>8, <1>9 DEF Ordered
  <1>11. NameOrder[After(u)] <= NameOrder[After(w)]
    <2> HIDE DEF Waits
    <2> QED BY <1>4, <1>5, <1>8
  <1>12. NameOrder[After(u)] \in Nat /\ NameOrder[After(w)] \in Nat
    BY <1>1, <1>5, <1>9, ConstantsAssumption
  <1> QED BY <1>10, <1>11, <1>12

\* The workers of withTargetOperationLock and of materializations never all wait
\* for each other's locks: while one waits, a worker is inside its section or the
\* next lock of some waiting worker is free, for every tree of paths, every mix
\* of operations and whatever crashes, timeouts and lost sessions there were.
THEOREM LockWaitsEnd ==
    Spec => []((\E w \in Workers : pc[w] = "lock") =>
                  \E w \in Workers : InSection(w) \/ Grantable(w))
  <1> DEFINE AllOrdered == \A w \in Workers : Ordered(w)
             Goal == (\E w \in Workers : pc[w] = "lock") =>
                        \E w \in Workers : InSection(w) \/ Grantable(w)
  <1>1. Init => AllOrdered
    BY DEF Init, Ordered
  <1>2. IInv /\ AllOrdered /\ [Next]_vars => AllOrdered'
    BY OrderedStep
  <1>3. IInv /\ AllOrdered => Goal
    BY SomebodyGoesOn
  <1> HIDE DEF AllOrdered, Goal
  <1>4. Spec => []Goal
    BY <1>1, <1>2, <1>3, Invariance, PTL DEF Spec
  <1> QED BY <1>4 DEF Goal

-----------------------------------------------------------------------------
(* Nobody is left waiting *)

\* A worker that neither executes nor recovers a run has none.
WithoutRun(w) == mode[w] \in {"idle", "freeze"} => run[w] = NoRun

LEMMA WithoutRunStep ==
    ASSUME IInv, [Next]_vars, NEW w \in Workers, WithoutRun(w)
    PROVE  WithoutRun(w)'
  <1> USE DEF BecomeIdle, ForgetWork, WithoutRun
  <1>0. /\ mode \in [Workers -> {"idle", "execute", "recover", "freeze"}]
        /\ run \in [Workers -> Runs \cup {NoRun}]
    BY DEF IInv, TypeOK
  <1>1. ASSUME UNCHANGED <<mode, run>> PROVE WithoutRun(w)'
    BY <1>1
  <1>2. ASSUME NEW v \in Workers, NEW r \in Runs, claimPendingRun(v, r) \/ claimRunRecovery(v, r)
        PROVE  WithoutRun(w)'
    BY <1>0, <1>2 DEF claimPendingRun, claimRunRecovery, TakeRun
  <1>3. ASSUME NEW v \in Workers,
               \/ endExecution(v) \/ endRecovery(v) \/ crash(v)
               \/ lockTimeout(v) \/ failCompletion(v)
        PROVE  WithoutRun(w)'
    BY ZenonT(40), <1>0, <1>3 DEF endExecution, endRecovery, crash, lockTimeout, failCompletion
  <1>4. ASSUME NEW v \in Workers, beginMaterialization(v) \/ leaveSection(v)
        PROVE  WithoutRun(w)'
    BY <1>0, <1>4 DEF beginMaterialization, leaveSection
  <1>5. ASSUME NEW v \in Workers,
               \/ nextOperation(v) \/ acquireLock(v) \/ materialize(v) \/ loseSession(v)
               \/ beginWorkspaceMutation(v) \/ prepareTargetOperation(v) \/ applyEffect(v)
               \/ completeTargetOperation(v) \/ chargeFailedOperation(v)
               \/ reconcilePreparedTargetOperation(v)
        PROVE  UNCHANGED <<mode, run>>
    BY <1>5 DEF nextOperation, acquireLock, materialize, loseSession, beginWorkspaceMutation,
                prepareTargetOperation, applyEffect, completeTargetOperation,
                chargeFailedOperation, reconcilePreparedTargetOperation
  <1>6. ASSUME NEW r \in Runs, expireLease(r) \/ stopAgentRun(r)
        PROVE  UNCHANGED <<mode, run>>
    BY <1>6 DEF expireLease, stopAgentRun, workVars
  <1>7. ASSUME UNCHANGED vars PROVE UNCHANGED <<mode, run>>
    BY <1>7 DEF vars
  <1> HIDE DEF WithoutRun
  <1> QED BY <1>1, <1>2, <1>3, <1>4, <1>5, <1>6, <1>7 DEF Next, allSettled

\* Whoever holds a worker up has something to do, down to a worker in its section;
\* when all are idle, what is left to wait for is a lease.
LEMMA SomebodyIsNotHeldUp ==
    ASSUME IInv, \A w \in Workers : Ordered(w) /\ WithoutRun(w)
    PROVE  NobodyStuck
  <1> SUFFICES ASSUME NEW r \in Runs, status[r] \in {"pending", "running"},
                      \A w \in Workers : HeldUp(w)
               PROVE  live[r] /\ \A w \in Workers : run[w] # r
    BY DEF NobodyStuck
  <1>1. \A w \in Workers : mode[w] = "idle"
    <2> SUFFICES ASSUME NEW v \in Workers, mode[v] # "idle" PROVE FALSE
      OBVIOUS
    <2>1. pc[v] = "lock"
      BY DEF HeldUp
    <2>2. PICK w \in Workers : InSection(w) \/ Grantable(w)
      BY <2>1, SomebodyGoesOn
    <2>3. pc[w] # "idle" /\ (pc[w] # "lock" \/ Grantable(w))
      BY <2>2 DEF InSection, Grantable
    <2>4. mode[w] # "idle"
      BY <2>3 DEF IInv, Control
    <2> QED BY <2>3, <2>4 DEF HeldUp
  <1>2. status[r] # "pending" /\ ~Recoverable(r)
    BY <1>1, ConstantsAssumption DEF HeldUp, Claimable, Ticking, SameProcess
  <1>3. live[r]
    BY <1>2 DEF Recoverable
  <1>4. \A w \in Workers : run[w] # r
    BY <1>1, ConstantsAssumption DEF WithoutRun
  <1> QED BY <1>3, <1>4

\* No lock, lease or intent holds a run up for good, whoever died with it: while a
\* run is pending or running, a worker has a step to take that waits for nothing
\* (claim, recover, go on in its section, take a free lock) or the run's lease is
\* that of a worker that is gone, for every tree of paths and any faults.
THEOREM NoRunIsHeldUp == Spec => []NobodyStuck
  <1> DEFINE Steady == \A w \in Workers : Ordered(w) /\ WithoutRun(w)
  <1>1. Init => Steady
    BY DEF Init, Ordered, WithoutRun
  <1>2. IInv /\ Steady /\ [Next]_vars => Steady'
    BY OrderedStep, WithoutRunStep
  <1>3. IInv /\ Steady => NobodyStuck
    BY SomebodyIsNotHeldUp
  <1> HIDE DEF Steady
  <1> QED BY <1>1, <1>2, <1>3, Invariance, PTL DEF Spec

-----------------------------------------------------------------------------
(* The run's row *)

\* The row this module keeps of a run claims and starts it in one step, and ends it
\* in one; seen as a standing it is the run of RunStanding.
StandingOf(r) ==
    IF status[r] \in {"interrupted", "ended"} THEN "ended"
    ELSE IF live[r] THEN "held"
    ELSE IF status[r] = "pending" THEN "free" ELSE "lapsed"

Stand == [r \in Runs |-> StandingOf(r)]
Standing == INSTANCE RunStanding WITH standing <- Stand

\* The row of r alone changes, and r goes where a run may go.
Moves(r) ==
    /\ \A s \in Runs \ {r} : status'[s] = status[s] /\ live'[s] = live[s]
    /\ \/ StandingOf(r)' = StandingOf(r)
       \/ StandingOf(r)' \in Standing!After[StandingOf(r)]

LEMMA Afterwards ==
    /\ Standing!After["free"] = {"held", "ended"}
    /\ Standing!After["held"] = {"free", "lapsed", "ended"}
    /\ Standing!After["lapsed"] = {"held", "ended"}
  BY DEF Standing!After, Standing!Standings

LEMMA MovesNext ==
    ASSUME NEW r \in Runs, Moves(r)
    PROVE  [Standing!Next]_Stand
  <1>1. \A s \in Runs \ {r} : StandingOf(s)' = StandingOf(s)
    BY DEF Moves, StandingOf
  <1>2. CASE StandingOf(r)' = StandingOf(r)
    <2>1. \A s \in Runs : StandingOf(s)' = StandingOf(s)
      BY <1>1, <1>2
    <2> QED BY <2>1 DEF Stand
  <1>3. CASE StandingOf(r)' \in Standing!After[StandingOf(r)]
    <2>1. StandingOf(r) \in Standing!Standings
      BY DEF StandingOf, Standing!Standings
    <2>2. StandingOf(r)' \in Standing!Standings
      BY <1>3, <2>1 DEF Standing!After, Standing!Standings
    <2>3. Stand' = [Stand EXCEPT ![r] = StandingOf(r)']
      BY <1>1 DEF Stand
    <2>4. Standing!Move(r, StandingOf(r)')
      BY <1>3, <2>3 DEF Stand, Standing!Move
    <2> QED BY <2>2, <2>4 DEF Standing!Next
  <1> QED BY <1>2, <1>3 DEF Moves

LEMMA EndRowMoves ==
    ASSUME IInv, NEW w \in Workers, NEW to \in {"pending", "interrupted", "ended"}, EndRow(w, to)
    PROVE  UNCHANGED <<status, live>> \/ \E r \in Runs : Moves(r)
  <1>0. /\ status \in [Runs -> {"pending", "running", "interrupted", "ended"}]
        /\ live \in [Runs -> BOOLEAN]
    BY DEF IInv, TypeOK
  <1>1. PICK r : r = run[w]
    OBVIOUS
  <1>2. CASE ~(HeldBy(w, r) /\ status[r] = "running")
    BY <1>1, <1>2 DEF EndRow, rowVars
  <1>3. CASE HeldBy(w, r) /\ status[r] = "running"
    <2>1. /\ status' = [status EXCEPT ![r] = to] /\ live' = [live EXCEPT ![r] = FALSE]
          /\ live[r] /\ status[r] = "running"
      BY <1>1, <1>3 DEF EndRow, HeldBy
    <2>2. CASE r \in Runs
      <3>1. /\ status'[r] = to /\ ~live'[r]
            /\ \A s \in Runs \ {r} : status'[s] = status[s] /\ live'[s] = live[s]
        BY <1>0, <2>1, <2>2
      <3>2. StandingOf(r) = "held" /\ StandingOf(r)' \in {"free", "ended"}
        BY <2>1, <3>1 DEF StandingOf
      <3>3. Moves(r)
        BY <3>1, <3>2, Afterwards DEF Moves
      <3> QED BY <2>2, <3>3
    <2>3. CASE r \notin Runs
      <3>1. status' = status /\ live' = live
        BY <1>0, <2>1, <2>3
      <3> QED BY <3>1
    <2> QED BY <2>2, <2>3
  <1> QED BY <1>2, <1>3

LEMMA RowsMove ==
    ASSUME IInv, [Next]_vars
    PROVE  UNCHANGED <<status, live>> \/ \E r \in Runs : Moves(r)
  <1> DEFINE Goal == UNCHANGED <<status, live>> \/ \E r \in Runs : Moves(r)
  <1>0. /\ status \in [Runs -> {"pending", "running", "interrupted", "ended"}]
        /\ live \in [Runs -> BOOLEAN]
    BY DEF IInv, TypeOK
  <1>1. ASSUME NEW w \in Workers, NEW r \in Runs, claimPendingRun(w, r) \/ claimRunRecovery(w, r)
        PROVE  Goal
    <2>1. /\ status' = [status EXCEPT ![r] = "running"] /\ live' = [live EXCEPT ![r] = TRUE]
          /\ status[r] = "pending" \/ (status[r] = "running" /\ ~live[r])
      BY <1>1 DEF claimPendingRun, claimRunRecovery, TakeRun, Claimable, Recoverable
    <2>2. /\ status'[r] = "running" /\ live'[r]
          /\ \A s \in Runs \ {r} : status'[s] = status[s] /\ live'[s] = live[s]
      BY <1>0, <2>1
    <2>3. StandingOf(r)' = "held" /\ StandingOf(r) \in {"free", "held", "lapsed"}
      BY <2>1, <2>2 DEF StandingOf
    <2>4. Moves(r)
      BY <2>2, <2>3, Afterwards DEF Moves
    <2> QED BY <2>4
  <1>2. ASSUME NEW w \in Workers, endExecution(w) \/ endRecovery(w) PROVE Goal
    <2>1. PICK to \in {"pending", "interrupted", "ended"} : EndRow(w, to)
      BY <1>2 DEF endExecution, endRecovery
    <2> QED BY <2>1, EndRowMoves
  <1>3. ASSUME NEW r \in Runs, expireLease(r) PROVE Goal
    <2>1. live[r] /\ live' = [live EXCEPT ![r] = FALSE] /\ status' = status
      BY <1>3 DEF expireLease
    <2>2. ~live'[r] /\ status'[r] = status[r]
          /\ \A s \in Runs \ {r} : status'[s] = status[s] /\ live'[s] = live[s]
      BY <1>0, <2>1
    <2>3. \/ StandingOf(r) = "held" /\ StandingOf(r)' \in {"free", "lapsed"}
          \/ StandingOf(r) = "ended" /\ StandingOf(r)' = "ended"
      BY <2>1, <2>2 DEF StandingOf
    <2>4. Moves(r)
      BY <2>2, <2>3, Afterwards DEF Moves
    <2> QED BY <2>4
  <1>4. ASSUME NEW r \in Runs, stopAgentRun(r) PROVE Goal
    <2>1. /\ status[r] \in {"pending", "running"} /\ status' = [status EXCEPT ![r] = "interrupted"]
          /\ live' = [live EXCEPT ![r] = FALSE]
      BY <1>4 DEF stopAgentRun
    <2>2. status'[r] = "interrupted"
          /\ \A s \in Runs \ {r} : status'[s] = status[s] /\ live'[s] = live[s]
      BY <1>0, <2>1
    <2>3. StandingOf(r) \in {"free", "held", "lapsed"} /\ StandingOf(r)' = "ended"
      BY <2>1, <2>2 DEF StandingOf
    <2>4. Moves(r)
      BY <2>2, <2>3, Afterwards DEF Moves
    <2> QED BY <2>4
  <1>5. ASSUME NEW w \in Workers,
               \/ nextOperation(w) \/ beginMaterialization(w) \/ acquireLock(w) \/ lockTimeout(w)
               \/ leaveSection(w) \/ materialize(w) \/ beginWorkspaceMutation(w)
               \/ prepareTargetOperation(w) \/ applyEffect(w) \/ completeTargetOperation(w)
               \/ failCompletion(w) \/ chargeFailedOperation(w)
               \/ reconcilePreparedTargetOperation(w) \/ crash(w) \/ loseSession(w)
        PROVE  UNCHANGED <<status, live>>
    BY <1>5 DEF rowVars, nextOperation, beginMaterialization, acquireLock, lockTimeout, leaveSection,
                materialize, beginWorkspaceMutation, prepareTargetOperation, applyEffect,
                completeTargetOperation, failCompletion, chargeFailedOperation,
                reconcilePreparedTargetOperation, crash, loseSession
  <1>6. ASSUME UNCHANGED vars PROVE UNCHANGED <<status, live>>
    BY <1>6 DEF vars
  <1> QED BY <1>1, <1>2, <1>3, <1>4, <1>5, <1>6 DEF Next, allSettled

\* The rows of claimPendingRun, claimRunRecovery, resumeRecoveredRun, terminalizeRun
\* and stop, as this module keeps them, make only the moves RunLease makes too
\* (LeasesGiveStanding): no theorem above rests on a row that comes back after its
\* end, or is recovered while it is held or has not begun.
THEOREM RowsStand == Spec => Standing!Spec
  <1>1. Init => Standing!Init
    BY DEF Init, Standing!Init, Stand, StandingOf
  <1>2. IInv /\ [Next]_vars => [Standing!Next]_Stand
    <2> SUFFICES ASSUME IInv, [Next]_vars PROVE [Standing!Next]_Stand
      OBVIOUS
    <2>1. CASE UNCHANGED <<status, live>>
      BY <2>1 DEF Stand, StandingOf
    <2>2. ASSUME NEW r \in Runs, Moves(r) PROVE [Standing!Next]_Stand
      BY <2>2, MovesNext
    <2> QED BY <2>1, <2>2, RowsMove
  <1> QED BY <1>1, <1>2, Invariance, PTL DEF Spec, Standing!Spec
=============================================================================
