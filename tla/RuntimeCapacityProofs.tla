----------------------- MODULE RuntimeCapacityProofs -----------------------
(***************************************************************************)
(* Theorems about RuntimeCapacity, for any number of runs, processes,      *)
(* resources and slots, any operations and any number of faults.           *)
(*                                                                         *)
(* Own says what an execution of a run relies on.  It is kept by the       *)
(* others because nobody but the owner of a slot frees it while its leases *)
(* are live.  A process that recovers a run it still executes is under the *)
(* run's live lease again without having kept its slots, so Own speaks of  *)
(* the executions whose lease never lapsed: Keeps says that such a one has *)
(* its lease to the end of the run, and that no recovery by its own process*)
(* is under way.                                                           *)
(***************************************************************************)
EXTENDS RuntimeCapacity, SequenceTheorems, TLAPS

\* Slot n of x is this operation's and its lease is live.
Backs(p, r, x, n) == Owns(p, r, slots[x][n]) /\ slots[x][n].lease = "live"

\* What the execution of r in p relies on.
Own(p, r) ==
    /\ exec[r][p] # "idle" => alive[p]
    /\ exec[r][p] \in {"idle", "loop"} => mine[r][p] = <<>>
    /\ exec[r][p] = "asking" => Depth(r, p) < Len(Needs[r])
    /\ lapses = 0 /\ Holds(p, r) /\ exec[r][p] \in {"asking", "using"} =>
          \A i \in 1..Depth(r, p) : Backs(p, r, Needs[r][i], mine[r][p][i])
    /\ Holds(p, r) /\ exec[r][p] \in {"loop", "using", "unwinding"} => wait[r] = "none"
    /\ Holds(p, r) /\ exec[r][p] = "asking" /\ wait[r] # "none" =>
          /\ wait[r] = NextNeed(r, p)
          /\ \A n \in 1..Limit[NextNeed(r, p)] : ~Backs(p, r, NextNeed(r, p), n)

\* An execution has its run's lease until it loses it or the run has ended, and
\* its own process recovers the run only after that.
Keeps(p, r) ==
    /\ exec[r][p] = "idle" => p \notin lost[r]
    /\ exec[r][p] # "idle" => p \in lost[r] \/ HeldBy(p, r) \/ status[r] = "ended"
    /\ rec[p] = r => exec[r][p] = "idle" \/ p \in lost[r] \/ status[r] = "ended"

\* A run that has ended is nobody's.
EndedFree == \A r \in Runs : status[r] = "ended" => owner[r] = NoProc

Base == CoreTypes /\ EndedFree /\ (\A r \in Runs, p \in Procs : Own(p, r))
IInv == Base /\ TypeOK /\ (\A r \in Runs, p \in Procs : Keeps(p, r))

-----------------------------------------------------------------------------
(* Sequences and types *)

LEMMA AppendFacts ==
    ASSUME NEW s \in Seq(Nat), NEW n \in Nat
    PROVE  /\ Append(s, n) \in Seq(Nat)
           /\ Len(Append(s, n)) = Len(s) + 1
           /\ \A i \in 1..Len(s) : Append(s, n)[i] = s[i]
           /\ Append(s, n)[Len(s) + 1] = n
  BY AppendProperties

LEMMA ButLastFacts ==
    ASSUME NEW s \in Seq(Nat), s # <<>>
    PROVE  /\ Len(s) \in Nat /\ Len(s) > 0
           /\ SubSeq(s, 1, Len(s) - 1) \in Seq(Nat)
           /\ Len(SubSeq(s, 1, Len(s) - 1)) = Len(s) - 1
           /\ \A i \in 1..(Len(s) - 1) : SubSeq(s, 1, Len(s) - 1)[i] = s[i]
           /\ Len(s) = 1 => SubSeq(s, 1, Len(s) - 1) = <<>>
  <1>1. Len(s) \in Nat /\ Len(s) > 0
    BY EmptySeq, LenProperties
  <1>2. /\ SubSeq(s, 1, Len(s) - 1) \in Seq(Nat)
        /\ Len(SubSeq(s, 1, Len(s) - 1)) = Len(s) - 1
        /\ \A i \in 1..(Len(s) - 1) : SubSeq(s, 1, Len(s) - 1)[i] = s[i]
    <2>1. /\ Len(s) - 1 \in Int /\ 1 \in Int
          /\ \A i \in 1..(Len(s) - 1) : s[i] \in Nat
      BY <1>1, ElementOfSeq
    <2>2. CASE Len(s) = 1
      BY <2>1, <2>2, SubSeqEmpty, EmptySeq
    <2>3. CASE Len(s) # 1
      <3>0. Len(s) - 1 \in Nat /\ 1 <= Len(s) - 1
        BY <1>1, <2>3
      <3>1. PICK m \in Nat : m = Len(s) - 1 /\ 1 <= m
        BY <3>0
      <3>2. /\ SubSeq(s, 1, m) \in Seq(Nat)
            /\ Len(SubSeq(s, 1, m)) = m - 1 + 1
            /\ \A i \in 1 .. m - 1 + 1 : SubSeq(s, 1, m)[i] = s[1 + i - 1]
        BY <2>1, <3>1, SubSeqProperties
      <3>3. m - 1 + 1 = m /\ \A i \in 1..m : 1 + i - 1 = i
        OBVIOUS
      <3> QED BY <3>1, <3>2, <3>3
    <2> QED BY <2>2, <2>3
  <1>3. Len(s) = 1 => SubSeq(s, 1, Len(s) - 1) = <<>>
    BY <1>2, EmptySeq
  <1> QED BY <1>1, <1>2, <1>3

\* What the constants are.
LEMMA ConstantFacts ==
    /\ NoProc \notin Procs /\ NoRun \notin Runs
    /\ \A x \in Resources : Limit[x] \in Nat /\ Limit[x] > 0
    /\ \A r \in Runs : Needs[r] \in Seq(Resources) /\ Len(Needs[r]) \in Nat /\ Len(Needs[r]) > 0
    /\ \A r \in Runs : \A i \in 1..Len(Needs[r]) : Needs[r][i] \in Resources
    /\ \A r \in Runs : \A i, j \in 1..Len(Needs[r]) : Needs[r][i] = Needs[r][j] => i = j
    /\ MaxOps \in Nat /\ MaxLapses \in Nat /\ MaxFaults \in Nat
  BY ConstantsAssumption DEF ConstantsAssumption

\* The slots of a resource, row by row.
SlotsOK(S) ==
    /\ S = [x \in Resources |-> S[x]]
    /\ \A x \in Resources : /\ S[x] \in [1..Limit[x] -> SlotRows]
                            /\ \A n \in 1..Limit[x] :
                                 /\ S[x][n].owner = NoProc <=> S[x][n].run = NoRun
                                 /\ S[x][n].owner = NoProc <=> S[x][n].lease = "none"

LEMMA SlotsType ==
    ASSUME TypeOK
    PROVE  SlotsOK(slots)
  <1>1. slots = [x \in Resources |-> slots[x]]
    BY DEF TypeOK, CoreTypes
  <1>2. ASSUME NEW x \in Resources
        PROVE  slots[x] \in [1..Limit[x] -> SlotRows]
    <2>1. PICK y \in Resources : slots[x] \in [1..Limit[y] -> SlotRows]
      BY DEF TypeOK, CoreTypes
    <2>2. DOMAIN slots[x] = 1..Limit[x]
      BY DEF TypeOK, CoreTypes
    <2> QED BY <2>1, <2>2
  <1>3. \A x \in Resources : \A n \in 1..Limit[x] :
            /\ slots[x][n].owner = NoProc <=> slots[x][n].run = NoRun
            /\ slots[x][n].owner = NoProc <=> slots[x][n].lease = "none"
    BY DEF TypeOK, CoreTypes
  <1> QED BY <1>1, <1>2, <1>3 DEF SlotsOK

\* ... and back.
LEMMA SlotsTypeIntro ==
    ASSUME NEW S, SlotsOK(S)
    PROVE  /\ S \in [Resources -> UNION {[1..Limit[x] -> SlotRows] : x \in Resources}]
           /\ \A x \in Resources :
                 /\ DOMAIN S[x] = 1..Limit[x]
                 /\ \A n \in 1..Limit[x] :
                       LET s == S[x][n] IN
                       (s.owner = NoProc) = (s.run = NoRun) /\ (s.owner = NoProc) = (s.lease = "none")
  <1>1. \A x \in Resources : S[x] \in UNION {[1..Limit[y] -> SlotRows] : y \in Resources}
    BY DEF SlotsOK
  <1>2. \A x \in Resources : DOMAIN S[x] = 1..Limit[x]
    BY DEF SlotsOK
  <1>3. \A x \in Resources : \A n \in 1..Limit[x] :
            /\ (S[x][n].owner = NoProc) = (S[x][n].run = NoRun)
            /\ (S[x][n].owner = NoProc) = (S[x][n].lease = "none")
    BY DEF SlotsOK
  <1> QED BY <1>1, <1>2, <1>3 DEF SlotsOK

LEMMA SlotRowTypes ==
    ASSUME TypeOK, NEW x \in Resources, NEW n \in 1..Limit[x]
    PROVE  /\ slots[x][n] \in SlotRows
           /\ slots[x][n].owner \in Procs \cup {NoProc}
           /\ slots[x][n].run \in Runs \cup {NoRun}
           /\ slots[x][n].op \in 0..MaxOps
           /\ slots[x][n].lease \in {"none", "live", "expired"}
           /\ slots[x][n].owner = NoProc <=> slots[x][n].run = NoRun
           /\ slots[x][n].owner = NoProc <=> slots[x][n].lease = "none"
  <1>1. /\ slots[x] \in [1..Limit[x] -> SlotRows]
        /\ slots[x][n].owner = NoProc <=> slots[x][n].run = NoRun
        /\ slots[x][n].owner = NoProc <=> slots[x][n].lease = "none"
    BY SlotsType DEF SlotsOK
  <1>2. slots[x][n] \in SlotRows
    BY <1>1
  <1> QED BY <1>1, <1>2 DEF SlotRows

LEMMA FreeSlotType ==
    /\ FreeSlot \in SlotRows
    /\ FreeSlot.owner = NoProc /\ FreeSlot.run = NoRun /\ FreeSlot.lease = "none"
  BY ConstantFacts DEF FreeSlot, SlotRows

-----------------------------------------------------------------------------
(* What a step leaves to an execution it is not about *)

\* A lease that was lost stays so, the run's wait and the slots behind it stay.
LEMMA OwnKept ==
    ASSUME IInv, NEW r \in Runs, NEW p \in Procs,
           exec'[r][p] = exec[r][p], mine'[r][p] = mine[r][p], op'[r][p] = op[r][p],
           alive'[p] = alive[p],
           lapses' = 0 => lapses = 0,
           Holds(p, r)' => Holds(p, r) /\ wait'[r] = wait[r],
           Holds(p, r)' /\ lapses' = 0 /\ exec[r][p] \in {"asking", "using"} =>
               \A x \in Resources : \A n \in 1..Limit[x] : Backs(p, r, x, n) => Backs(p, r, x, n)',
           Holds(p, r)' /\ exec[r][p] = "asking" =>
               \A x \in Resources : \A n \in 1..Limit[x] : Backs(p, r, x, n)' => Backs(p, r, x, n)
    PROVE  Own(p, r)'
  <1>1. Own(p, r)
    BY DEF IInv, Base
  <1>2. Depth(r, p)' = Depth(r, p) /\ NextNeed(r, p)' = NextNeed(r, p)
    BY DEF Depth, NextNeed
  <1>3. /\ exec'[r][p] # "idle" => alive'[p]
        /\ exec'[r][p] \in {"idle", "loop"} => mine'[r][p] = <<>>
        /\ exec'[r][p] = "asking" => Depth(r, p)' < Len(Needs[r])
        /\ Holds(p, r)' /\ exec'[r][p] \in {"loop", "using", "unwinding"} => wait'[r] = "none"
    BY <1>1, <1>2 DEF Own
  <1>4. ASSUME lapses' = 0, Holds(p, r)', exec'[r][p] \in {"asking", "using"}, NEW i \in 1..Depth(r, p)
        PROVE  Backs(p, r, Needs[r][i], mine[r][p][i])'
    <2>1. Backs(p, r, Needs[r][i], mine[r][p][i])
      BY <1>1, <1>4 DEF Own
    <2>2. Needs[r][i] \in Resources /\ mine[r][p][i] \in 1..Limit[Needs[r][i]]
      BY <1>4, ConstantFacts DEF IInv, Base, CoreTypes, Depth
    <2>3. Backs(p, r, Needs[r][i], mine[r][p][i]) => Backs(p, r, Needs[r][i], mine[r][p][i])'
      BY <1>4, <2>2
    <2> QED BY <2>1, <2>3
  <1>5. ASSUME Holds(p, r)', exec'[r][p] = "asking", wait'[r] # "none"
        PROVE  /\ wait'[r] = NextNeed(r, p)'
               /\ \A n \in 1..Limit[NextNeed(r, p)'] : ~Backs(p, r, NextNeed(r, p), n)'
    <2>1. /\ wait[r] = NextNeed(r, p)
          /\ \A n \in 1..Limit[NextNeed(r, p)] : ~Backs(p, r, NextNeed(r, p), n)
      BY <1>1, <1>5 DEF Own
    <2>2. NextNeed(r, p) \in Resources
      BY <1>1, <1>5, ConstantFacts, LenProperties DEF IInv, Base, CoreTypes, Own, NextNeed, Depth
    <2> QED BY <1>2, <1>5, <2>1, <2>2
  <1> QED BY <1>2, <1>3, <1>4, <1>5 DEF Own

\* What an execution has of slots depends on mine alone.
MineOK ==
    /\ mine \in [Runs -> [Procs -> Seq(Nat)]]
    /\ \A r \in Runs, p \in Procs :
          /\ Len(mine[r][p]) <= Len(Needs[r])
          /\ \A i \in 1..Len(mine[r][p]) : mine[r][p][i] \in 1..Limit[Needs[r][i]]

LEMMA MineType == TypeOK => MineOK
  BY DEF TypeOK, CoreTypes, MineOK, Depth

LEMMA MineSet ==
    ASSUME TypeOK, NEW r \in Runs, NEW p \in Procs, NEW s \in Seq(Nat),
           mine' = [mine EXCEPT ![r][p] = s]
    PROVE  /\ mine' \in [Runs -> [Procs -> Seq(Nat)]] /\ mine'[r][p] = s
           /\ \A t \in Runs, q \in Procs : (t # r \/ q # p) => mine'[t][q] = mine[t][q]
  BY DEF TypeOK, CoreTypes

LEMMA MineUpdate ==
    ASSUME TypeOK, NEW r \in Runs, NEW p \in Procs, NEW s \in Seq(Nat),
           Len(s) <= Len(Needs[r]),
           \A i \in 1..Len(s) : s[i] \in 1..Limit[Needs[r][i]],
           mine' \in [Runs -> [Procs -> Seq(Nat)]], mine'[r][p] = s,
           \A t \in Runs, q \in Procs : (t # r \/ q # p) => mine'[t][q] = mine[t][q]
    PROVE  MineOK'
  <1>2. ASSUME NEW t \in Runs, NEW q \in Procs
        PROVE  /\ Len(mine'[t][q]) <= Len(Needs[t])
               /\ \A i \in 1..Len(mine'[t][q]) : mine'[t][q][i] \in 1..Limit[Needs[t][i]]
    <2>1. CASE t = r /\ q = p
      BY <2>1
    <2>2. CASE t # r \/ q # p
      BY <2>2, MineType DEF MineOK
    <2> QED BY <2>1, <2>2
  <1> QED BY <1>2 DEF MineOK

\* The parts of the type invariant, put together.
LEMMA TypeIntro ==
    ASSUME /\ status' \in [Runs -> {"pending", "running", "ended"}]
           /\ owner' \in [Runs -> Procs \cup {NoProc}]
           /\ lease' \in [Runs -> {"none", "live", "expired"}]
           /\ \A r \in Runs : owner'[r] = NoProc <=> lease'[r] = "none",
           SlotsOK(slots'), MineOK',
           wait' \in [Runs -> Resources \cup {Admission, "none"}],
           exec' \in [Runs -> [Procs -> ExecStates]],
           op' \in [Runs -> [Procs -> 0..MaxOps]],
           alive' \in [Procs -> BOOLEAN],
           lapses' \in 0..MaxLapses, faults' \in 0..MaxFaults
    PROVE  CoreTypes'
  <1>1. \A r \in Runs : (owner'[r] = NoProc) = (lease'[r] = "none")
    OBVIOUS
  <1>2. /\ slots' \in [Resources -> UNION {[1..Limit[x] -> SlotRows] : x \in Resources}]
        /\ \A x \in Resources :
              /\ DOMAIN slots'[x] = 1..Limit[x]
              /\ \A n \in 1..Limit[x] :
                    LET s == slots'[x][n] IN
                    (s.owner = NoProc) = (s.run = NoRun) /\ (s.owner = NoProc) = (s.lease = "none")
    BY SlotsTypeIntro
  <1>3. /\ mine' \in [Runs -> [Procs -> Seq(Nat)]]
        /\ \A r \in Runs, p \in Procs :
              /\ Depth(r, p)' <= Len(Needs[r])
              /\ \A i \in 1..Depth(r, p)' : mine'[r][p][i] \in 1..Limit[Needs[r][i]]
    BY DEF MineOK, Depth
  <1> QED BY <1>1, <1>2, <1>3 DEF TypeOK, CoreTypes

\* Only the run's row, its wait and the execution's control state change.
LEMMA RowStep ==
    ASSUME IInv, NEW r \in Runs, NEW p \in Procs,
           exec' \in [Runs -> [Procs -> ExecStates]],
           \A s \in Runs, q \in Procs : (s # r \/ q # p) => exec'[s][q] = exec[s][q],
           status' \in [Runs -> {"pending", "running", "ended"}],
           owner' \in [Runs -> Procs \cup {NoProc}],
           lease' \in [Runs -> {"none", "live", "expired"}],
           wait' \in [Runs -> Resources \cup {Admission, "none"}],
           op' \in [Runs -> [Procs -> 0..MaxOps]],
           \A s \in Runs, q \in Procs : (s # r \/ q # p) => op'[s][q] = op[s][q],
           \A s \in Runs : s # r => /\ status'[s] = status[s] /\ owner'[s] = owner[s]
                                    /\ lease'[s] = lease[s] /\ wait'[s] = wait[s],
           (owner'[r] = NoProc) <=> (lease'[r] = "none"),
           status'[r] = "ended" => owner'[r] = NoProc,
           \A q \in Procs : q # p /\ HeldBy(q, r)' => HeldBy(q, r) /\ wait'[r] = wait[r],
           \A s \in Runs, q \in Procs : (s # r \/ q # p) /\ q \in lost[s] => q \in lost'[s],
           Own(p, r)',
           UNCHANGED <<slots, mine, alive, lapses>>, faults' \in 0..MaxFaults
    PROVE  Base'
  <1>2. CoreTypes'
    <2>0. \A s \in Runs : owner[s] = NoProc <=> lease[s] = "none"
      BY DEF IInv, Base, CoreTypes
    <2>1. \A s \in Runs : owner'[s] = NoProc <=> lease'[s] = "none"
      BY <2>0
    <2>2. SlotsOK(slots') /\ MineOK'
      BY SlotsType, MineType DEF IInv, Base, MineOK
    <2>3. alive' \in [Procs -> BOOLEAN] /\ lapses' \in 0..MaxLapses
      BY DEF IInv, Base, CoreTypes
    <2> QED BY <2>1, <2>2, <2>3, TypeIntro
  <1>3. EndedFree'
    BY DEF IInv, Base, EndedFree
  <1>4. ASSUME NEW s \in Runs, NEW q \in Procs, s # r \/ q # p
        PROVE  Own(q, s)'
    <2>1. \A x \in Resources : \A n \in 1..Limit[x] : Backs(q, s, x, n)' <=> Backs(q, s, x, n)
      BY <1>4 DEF Backs, Owns
    <2>2. HeldBy(q, s)' => HeldBy(q, s) /\ wait'[s] = wait[s]
      <3>1. CASE s # r
        BY <3>1 DEF HeldBy
      <3>2. CASE s = r
        BY <1>4, <3>2
      <3> QED BY <3>1, <3>2
    <2>3. Holds(q, s)' => Holds(q, s) /\ wait'[s] = wait[s]
      BY <1>4, <2>2 DEF Holds
    <2> QED BY <1>4, <2>1, <2>3, OwnKept
  <1> QED BY <1>2, <1>3, <1>4 DEF IInv, Base

-----------------------------------------------------------------------------
(* The run's row *)

\* The row, its wait, and nothing else; facts the steps below start from.
LEMMA RowFacts ==
    ASSUME IInv, NEW r \in Runs
    PROVE  /\ owner[r] \in Procs \cup {NoProc}
           /\ lease[r] \in {"none", "live", "expired"}
           /\ owner[r] = NoProc <=> lease[r] = "none"
           /\ status[r] = "ended" => owner[r] = NoProc
           /\ wait[r] \in Resources \cup {Admission, "none"}
  BY DEF IInv, Base, CoreTypes, EndedFree

LEMMA FaultCounted ==
    ASSUME TypeOK, Fault \/ UNCHANGED faults
    PROVE  faults' \in 0..MaxFaults
  BY ConstantFacts DEF TypeOK, CoreTypes, Fault

LEMMA RecordWaitStep ==
    ASSUME IInv, NEW r \in Runs, recordPendingRunCapacityWait(r)
    PROVE  Base'
  <1>1. /\ ~Leased(r)
        /\ wait' = [wait EXCEPT ![r] = Admission]
        /\ UNCHANGED <<status, owner, lease, slots, exec, mine, op, alive, lost, lapses, faults>>
    BY DEF recordPendingRunCapacityWait, rowVars, boundVars
  <1>2. /\ wait' \in [Runs -> Resources \cup {Admission, "none"}]
        /\ \A s \in Runs : s # r => wait'[s] = wait[s]
    BY <1>1 DEF IInv, Base, CoreTypes
  <1>3. CoreTypes'
    <2>1. SlotsOK(slots') /\ MineOK' /\ \A s \in Runs : owner'[s] = NoProc <=> lease'[s] = "none"
      BY <1>1, SlotsType, MineType, RowFacts DEF IInv, Base, MineOK
    <2>2. /\ status' \in [Runs -> {"pending", "running", "ended"}]
          /\ owner' \in [Runs -> Procs \cup {NoProc}]
          /\ lease' \in [Runs -> {"none", "live", "expired"}]
          /\ exec' \in [Runs -> [Procs -> ExecStates]]
          /\ op' \in [Runs -> [Procs -> 0..MaxOps]]
          /\ alive' \in [Procs -> BOOLEAN] /\ lapses' \in 0..MaxLapses /\ faults' \in 0..MaxFaults
      BY <1>1 DEF IInv, Base, CoreTypes
    <2> QED BY <1>2, <2>1, <2>2, TypeIntro
  <1>4. EndedFree'
    BY <1>1 DEF IInv, Base, EndedFree
  <1>5. ASSUME NEW s \in Runs, NEW q \in Procs
        PROVE  Own(q, s)'
    <2>1. Holds(q, s)' => Holds(q, s) /\ s # r
      BY <1>1, ConstantFacts DEF Holds, HeldBy, Leased
    <2>2. \A x \in Resources : \A n \in 1..Limit[x] : Backs(q, s, x, n)' <=> Backs(q, s, x, n)
      BY <1>1 DEF Backs, Owns
    <2> QED BY <1>1, <1>2, <2>1, <2>2, OwnKept
  <1> QED BY <1>3, <1>4, <1>5 DEF IInv, Base

LEMMA ClaimPendingStep ==
    ASSUME IInv, NEW p \in Procs, NEW r \in Runs, claimPendingRun(p, r)
    PROVE  Base'
  <1>1. /\ alive[p] /\ exec[r][p] = "idle" /\ status[r] = "pending"
        /\ UNCHANGED <<slots, mine, op, alive, lost, lapses, faults>>
    BY DEF claimPendingRun, boundVars
  <1>2. /\ exec' \in [Runs -> [Procs -> ExecStates]] /\ exec'[r][p] = "loop"
        /\ \A s \in Runs, q \in Procs : (s # r \/ q # p) => exec'[s][q] = exec[s][q]
    BY DEF IInv, Base, CoreTypes, claimPendingRun, ExecStates
  <1>3. /\ status' \in [Runs -> {"pending", "running", "ended"}] /\ status'[r] = "running"
        /\ owner' \in [Runs -> Procs \cup {NoProc}] /\ owner'[r] = p
        /\ lease' \in [Runs -> {"none", "live", "expired"}] /\ lease'[r] = "live"
        /\ wait' \in [Runs -> Resources \cup {Admission, "none"}] /\ wait'[r] = "none"
        /\ \A s \in Runs : s # r => /\ status'[s] = status[s] /\ owner'[s] = owner[s]
                                    /\ lease'[s] = lease[s] /\ wait'[s] = wait[s]
    BY DEF IInv, Base, CoreTypes, claimPendingRun, ClearWait
  <1>4. mine[r][p] = <<>>
    BY <1>1 DEF IInv, Base, Own
  <1>5. Own(p, r)'
    BY <1>1, <1>2, <1>3, <1>4 DEF Own
  <1>6. \A q \in Procs : q # p => ~HeldBy(q, r)'
    BY <1>3 DEF HeldBy
  <1>7. faults' \in 0..MaxFaults /\ op' \in [Runs -> [Procs -> 0..MaxOps]]
    BY <1>1 DEF IInv, Base, CoreTypes
  <1> QED BY <1>1, <1>2, <1>3, <1>5, <1>6, <1>7, ConstantFacts, RowStep

\* An execution of this process at work on r has lost its lease already.
LEMMA ClaimRecoveryStep ==
    ASSUME IInv, NEW p \in Procs, NEW r \in Runs, claimRunRecovery(p, r)
    PROVE  Base'
  <1>1. /\ alive[p] /\ status[r] = "running" /\ ~Leased(r)
        /\ UNCHANGED <<status, slots, wait, exec, mine, op, alive, lost, lapses, faults>>
    BY DEF claimRunRecovery, boundVars
  <1>2. /\ owner' \in [Runs -> Procs \cup {NoProc}] /\ owner'[r] = p
        /\ lease' \in [Runs -> {"none", "live", "expired"}] /\ lease'[r] = "live"
        /\ \A s \in Runs : s # r => owner'[s] = owner[s] /\ lease'[s] = lease[s]
    BY DEF IInv, Base, CoreTypes, claimRunRecovery
  <1>3. exec[r][p] = "idle" \/ p \in lost[r]
    <2>1. ~HeldBy(p, r)
      BY <1>1, ConstantFacts DEF HeldBy, Leased
    <2> QED BY <1>1, <2>1 DEF IInv, Keeps
  <1>4. Own(p, r)'
    <2>1. Own(p, r) /\ Depth(r, p)' = Depth(r, p)
      BY <1>1 DEF IInv, Base, Depth
    <2>2. CASE exec[r][p] = "idle"
      BY <1>1, <2>1, <2>2 DEF Own
    <2>3. CASE p \in lost[r]
      <3>1. ~Holds(p, r)'
        BY <1>1, <2>3 DEF Holds
      <3> QED BY <1>1, <2>1, <3>1 DEF Own
    <2> QED BY <1>3, <2>2, <2>3
  <1>5. \A q \in Procs : q # p => ~HeldBy(q, r)'
    BY <1>2 DEF HeldBy
  <1>6. /\ faults' \in 0..MaxFaults /\ op' \in [Runs -> [Procs -> 0..MaxOps]]
        /\ status' \in [Runs -> {"pending", "running", "ended"}]
        /\ wait' \in [Runs -> Resources \cup {Admission, "none"}]
        /\ exec' \in [Runs -> [Procs -> ExecStates]]
    BY <1>1 DEF IInv, Base, CoreTypes
  <1> QED BY <1>1, <1>2, <1>4, <1>5, <1>6, ConstantFacts, RowStep

\* The execution of r in p is over, and with it the lease it may have held.
LEMMA EndExecutionStep ==
    ASSUME IInv, NEW p \in Procs, NEW r \in Runs, endExecution(p, r)
    PROVE  Base'
  <1>1. /\ exec' \in [Runs -> [Procs -> ExecStates]] /\ exec'[r][p] = "idle"
        /\ \A s \in Runs, q \in Procs : (s # r \/ q # p) => exec'[s][q] = exec[s][q]
        /\ op' \in [Runs -> [Procs -> 0..MaxOps]]
        /\ \A s \in Runs, q \in Procs : (s # r \/ q # p) => op'[s][q] = op[s][q]
    BY ConstantFacts DEF IInv, Base, CoreTypes, ExecStates, endExecution
  <1>2. /\ mine[r][p] = <<>>
        /\ UNCHANGED <<slots, wait, mine, alive, lapses, faults>>
    BY DEF IInv, Base, Own, endExecution, boundVars
  <1>3. \A s \in Runs, q \in Procs : (s # r \/ q # p) /\ q \in lost[s] => q \in lost'[s]
    BY DEF IInv, TypeOK, endExecution
  <1>4. /\ wait' \in [Runs -> Resources \cup {Admission, "none"}] /\ faults' \in 0..MaxFaults
    BY <1>2 DEF IInv, Base, CoreTypes
  <1>5. /\ status' \in [Runs -> {"pending", "running", "ended"}]
        /\ owner' \in [Runs -> Procs \cup {NoProc}]
        /\ lease' \in [Runs -> {"none", "live", "expired"}]
        /\ \A s \in Runs : s # r => /\ status'[s] = status[s] /\ owner'[s] = owner[s]
                                    /\ lease'[s] = lease[s]
        /\ owner'[r] = NoProc <=> lease'[r] = "none"
        /\ status'[r] = "ended" => owner'[r] = NoProc
        /\ \A q \in Procs : HeldBy(q, r)' => HeldBy(q, r)
    <2>1. CASE HeldBy(p, r)
      <3>1. /\ status' = [status EXCEPT ![r] = "ended"]
            /\ owner' = [owner EXCEPT ![r] = NoProc]
            /\ lease' = [lease EXCEPT ![r] = "none"]
        BY <2>1 DEF endExecution
      <3> QED BY <3>1, ConstantFacts DEF IInv, Base, CoreTypes, HeldBy
    <2>2. CASE ~HeldBy(p, r)
      <3>1. UNCHANGED <<status, owner, lease>>
        BY <2>2 DEF endExecution, rowVars
      <3> QED BY <3>1, RowFacts DEF IInv, Base, CoreTypes, HeldBy
    <2> QED BY <2>1, <2>2
  <1>6. Own(p, r)'
    BY <1>1, <1>2 DEF Own
  <1> QED BY <1>1, <1>2, <1>3, <1>4, <1>5, <1>6, RowStep

\* The lease of r is gone, for whoever held it.
LEMMA LeaseGoneStep ==
    ASSUME IInv, NEW r \in Runs,
           status' \in [Runs -> {"pending", "running", "ended"}],
           owner' \in [Runs -> Procs \cup {NoProc}],
           lease' \in [Runs -> {"none", "live", "expired"}],
           \A s \in Runs : s # r => /\ status'[s] = status[s] /\ owner'[s] = owner[s]
                                    /\ lease'[s] = lease[s],
           \A q \in Procs : HeldBy(q, r)' => HeldBy(q, r),
           \A s \in Runs, q \in Procs : q \in lost[s] => q \in lost'[s],
           owner'[r] = NoProc <=> lease'[r] = "none",
           status'[r] = "ended" => owner'[r] = NoProc,
           faults' \in 0..MaxFaults,
           UNCHANGED <<slots, wait, exec, mine, op, alive, lapses>>
    PROVE  Base'
  <1>1. CoreTypes'
    <2>1. \A s \in Runs : owner'[s] = NoProc <=> lease'[s] = "none"
      BY RowFacts
    <2>2. SlotsOK(slots') /\ MineOK'
      BY SlotsType, MineType DEF IInv, Base, MineOK
    <2>3. /\ alive' \in [Procs -> BOOLEAN] /\ lapses' \in 0..MaxLapses
          /\ wait' \in [Runs -> Resources \cup {Admission, "none"}]
          /\ exec' \in [Runs -> [Procs -> ExecStates]]
          /\ op' \in [Runs -> [Procs -> 0..MaxOps]]
      BY DEF IInv, Base, CoreTypes
    <2> QED BY <2>1, <2>2, <2>3, TypeIntro
  <1>2. EndedFree'
    BY DEF IInv, Base, EndedFree
  <1>3. ASSUME NEW s \in Runs, NEW q \in Procs
        PROVE  Own(q, s)'
    <2>1. HeldBy(q, s)' => HeldBy(q, s)
      BY DEF HeldBy
    <2>2. Holds(q, s)' => Holds(q, s)
      BY <2>1 DEF Holds
    <2>3. \A x \in Resources : \A n \in 1..Limit[x] : Backs(q, s, x, n)' <=> Backs(q, s, x, n)
      BY DEF Backs, Owns
    <2> QED BY <2>2, <2>3, OwnKept
  <1> QED BY <1>1, <1>2, <1>3 DEF IInv, Base

LEMMA ExpireLeaseStep ==
    ASSUME IInv, NEW r \in Runs, expireLease(r)
    PROVE  Base'
  <1>1. /\ lease[r] = "live"
        /\ UNCHANGED <<status, owner, slots, wait, exec, mine, op, alive, lapses>>
        /\ faults' \in 0..MaxFaults
        /\ \A s \in Runs, q \in Procs : q \in lost[s] => q \in lost'[s]
    BY FaultCounted DEF IInv, Base, TypeOK, expireLease
  <1>2. /\ lease' \in [Runs -> {"none", "live", "expired"}] /\ lease'[r] = "expired"
        /\ \A s \in Runs : s # r => lease'[s] = lease[s]
        /\ status' \in [Runs -> {"pending", "running", "ended"}]
        /\ owner' \in [Runs -> Procs \cup {NoProc}]
    BY <1>1 DEF IInv, Base, CoreTypes, expireLease
  <1>3. \A q \in Procs : ~HeldBy(q, r)'
    BY <1>2 DEF HeldBy
  <1> QED BY <1>1, <1>2, <1>3, RowFacts, LeaseGoneStep

LEMMA StopStep ==
    ASSUME IInv, NEW r \in Runs, stopAgentRun(r)
    PROVE  Base'
  <1>1. /\ UNCHANGED <<slots, wait, exec, mine, op, alive, lost, lapses>>
        /\ faults' \in 0..MaxFaults
    BY FaultCounted DEF IInv, Base, stopAgentRun
  <1>2. /\ lease' \in [Runs -> {"none", "live", "expired"}] /\ lease'[r] = "none"
        /\ status' \in [Runs -> {"pending", "running", "ended"}]
        /\ owner' \in [Runs -> Procs \cup {NoProc}] /\ owner'[r] = NoProc
        /\ \A s \in Runs : s # r => /\ status'[s] = status[s] /\ owner'[s] = owner[s]
                                    /\ lease'[s] = lease[s]
    BY DEF IInv, Base, CoreTypes, stopAgentRun
  <1>3. \A q \in Procs : ~HeldBy(q, r)'
    BY <1>2 DEF HeldBy
  <1> QED BY <1>1, <1>2, <1>3, LeaseGoneStep

LEMMA FinishRecoveryStep ==
    ASSUME IInv, NEW p \in Procs, NEW r \in Runs, NEW st \in {"pending", "ended"},
           FinishRecovery(p, r, st)
    PROVE  Base'
  <1>1. UNCHANGED <<slots, wait, exec, mine, op, alive, lost, lapses, faults>>
    BY DEF FinishRecovery, boundVars
  <1>2. faults' \in 0..MaxFaults
    BY <1>1 DEF IInv, Base, CoreTypes
  <1>3. CASE HeldBy(p, r) /\ status[r] = "running"
    <2>1. /\ lease' \in [Runs -> {"none", "live", "expired"}] /\ lease'[r] = "none"
          /\ status' \in [Runs -> {"pending", "running", "ended"}]
          /\ owner' \in [Runs -> Procs \cup {NoProc}] /\ owner'[r] = NoProc
          /\ \A s \in Runs : s # r => /\ status'[s] = status[s] /\ owner'[s] = owner[s]
                                      /\ lease'[s] = lease[s]
      <3>1. /\ status' = [status EXCEPT ![r] = st]
            /\ owner' = [owner EXCEPT ![r] = NoProc]
            /\ lease' = [lease EXCEPT ![r] = "none"]
        BY <1>3 DEF FinishRecovery
      <3>2. st \in {"pending", "running", "ended"}
        OBVIOUS
      <3> QED BY <3>1, <3>2 DEF IInv, Base, CoreTypes
    <2>2. \A q \in Procs : ~HeldBy(q, r)'
      BY <2>1 DEF HeldBy
    <2> QED BY <1>1, <1>2, <2>1, <2>2, LeaseGoneStep
  <1>4. CASE ~(HeldBy(p, r) /\ status[r] = "running")
    <2>1. UNCHANGED <<status, owner, lease>>
      BY <1>4 DEF FinishRecovery, rowVars
    <2>2. \A q \in Procs : HeldBy(q, r)' => HeldBy(q, r)
      BY <2>1 DEF HeldBy
    <2> QED BY <1>1, <1>2, <2>1, <2>2, RowFacts, LeaseGoneStep DEF IInv, Base, CoreTypes
  <1> QED BY <1>3, <1>4

-----------------------------------------------------------------------------
(* withCapacity *)

\* A step of the execution of r in p: the slots it takes or returns are nobody
\* else's.
LEMMA ExecutionStep ==
    ASSUME IInv, NEW p \in Procs, NEW r \in Runs,
           exec' \in [Runs -> [Procs -> ExecStates]], MineOK',
           op' \in [Runs -> [Procs -> 0..MaxOps]],
           \A s \in Runs, q \in Procs : (s # r \/ q # p) =>
               /\ exec'[s][q] = exec[s][q] /\ mine'[s][q] = mine[s][q] /\ op'[s][q] = op[s][q],
           wait' \in [Runs -> Resources \cup {Admission, "none"}],
           \A s \in Runs : s # r => wait'[s] = wait[s],
           wait'[r] = wait[r] \/ HeldBy(p, r),
           SlotsOK(slots'),
           \A s \in Runs, q \in Procs : (s # r \/ q # p) =>
               \A x \in Resources : \A n \in 1..Limit[x] :
                   /\ HeldBy(q, s) /\ Backs(q, s, x, n) => Backs(q, s, x, n)'
                   /\ Backs(q, s, x, n)' => Backs(q, s, x, n),
           Own(p, r)',
           UNCHANGED <<status, owner, lease, alive, lost, lapses>>, faults' \in 0..MaxFaults
    PROVE  Base'
  <1>1. CoreTypes'
    <2>1. /\ status' \in [Runs -> {"pending", "running", "ended"}]
          /\ owner' \in [Runs -> Procs \cup {NoProc}]
          /\ lease' \in [Runs -> {"none", "live", "expired"}]
          /\ alive' \in [Procs -> BOOLEAN] /\ lapses' \in 0..MaxLapses
      BY DEF IInv, Base, CoreTypes
    <2>2. \A s \in Runs : owner'[s] = NoProc <=> lease'[s] = "none"
      BY RowFacts
    <2> QED BY <2>1, <2>2, TypeIntro
  <1>2. EndedFree'
    BY DEF IInv, Base, EndedFree
  <1>3. ASSUME NEW s \in Runs, NEW q \in Procs, s # r \/ q # p
        PROVE  Own(q, s)'
    <2>1. Holds(q, s)' => Holds(q, s) /\ wait'[s] = wait[s]
      BY <1>3 DEF Holds, HeldBy
    <2> QED BY <1>3, <2>1, OwnKept DEF Holds
  <1> QED BY <1>1, <1>2, <1>3 DEF IInv, Base

\* The same when slots and wait stay as they are.
LEMMA ControlStep ==
    ASSUME IInv, NEW p \in Procs, NEW r \in Runs,
           exec' \in [Runs -> [Procs -> ExecStates]], MineOK',
           op' \in [Runs -> [Procs -> 0..MaxOps]],
           \A s \in Runs, q \in Procs : (s # r \/ q # p) =>
               /\ exec'[s][q] = exec[s][q] /\ mine'[s][q] = mine[s][q] /\ op'[s][q] = op[s][q],
           Own(p, r)',
           UNCHANGED <<status, owner, lease, slots, wait, alive, lost, lapses>>, faults' \in 0..MaxFaults
    PROVE  Base'
  <1>1. \A s \in Runs, q \in Procs : (s # r \/ q # p) =>
            \A x \in Resources : \A n \in 1..Limit[x] : Backs(q, s, x, n)' <=> Backs(q, s, x, n)
    BY DEF Backs, Owns
  <1>2. SlotsOK(slots') /\ wait' \in [Runs -> Resources \cup {Admission, "none"}]
    BY SlotsType DEF IInv, Base, CoreTypes
  <1> QED BY <1>1, <1>2, ExecutionStep

LEMMA BeginStep ==
    ASSUME IInv, NEW p \in Procs, NEW r \in Runs, beginOperation(p, r)
    PROVE  Base'
  <1>1. /\ exec[r][p] = "loop" /\ alive[p]
        /\ UNCHANGED <<status, owner, lease, slots, wait, mine, alive, lost, lapses, faults>>
    BY DEF beginOperation, rowVars, boundVars
  <1>2. /\ exec' \in [Runs -> [Procs -> ExecStates]] /\ exec'[r][p] = "asking"
        /\ \A s \in Runs, q \in Procs : (s # r \/ q # p) => exec'[s][q] = exec[s][q]
    BY DEF IInv, Base, CoreTypes, beginOperation, ExecStates
  <1>3. /\ op' \in [Runs -> [Procs -> 0..MaxOps]]
        /\ \A s \in Runs, q \in Procs : (s # r \/ q # p) => op'[s][q] = op[s][q]
    <2>1. op[r][p] + 1 \in 0..MaxOps
      BY ConstantFacts DEF IInv, Base, CoreTypes, beginOperation
    <2> QED BY <2>1 DEF IInv, Base, CoreTypes, beginOperation
  <1>4. mine[r][p] = <<>> /\ (Holds(p, r) => wait[r] = "none")
    BY <1>1 DEF IInv, Base, Own
  <1>5. Len(mine'[r][p]) = 0 /\ 0 < Len(Needs[r]) /\ MineOK'
    BY <1>1, <1>4, EmptySeq, ConstantFacts, MineType DEF IInv, Base, MineOK
  <1>6. Own(p, r)'
    BY <1>1, <1>2, <1>4, <1>5 DEF Own, Depth, Holds, HeldBy
  <1> QED BY ZenonT(40), <1>1, <1>2, <1>3, <1>5, <1>6, ControlStep DEF IInv, Base, CoreTypes

LEMMA GiveUpStep ==
    ASSUME IInv, NEW p \in Procs, NEW r \in Runs, giveUpCapacity(p, r)
    PROVE  Base'
  <1>1. /\ alive[p]
        /\ UNCHANGED <<status, owner, lease, slots, wait, mine, op, alive, lost, lapses>>
        /\ faults' \in 0..MaxFaults
    BY FaultCounted DEF IInv, Base, giveUpCapacity, rowVars
  <1>2. /\ exec' \in [Runs -> [Procs -> ExecStates]] /\ exec'[r][p] = "failing"
        /\ \A s \in Runs, q \in Procs : (s # r \/ q # p) => exec'[s][q] = exec[s][q]
    BY DEF IInv, Base, CoreTypes, giveUpCapacity, ExecStates
  <1>3. MineOK' /\ op' \in [Runs -> [Procs -> 0..MaxOps]]
    BY <1>1, MineType DEF IInv, Base, CoreTypes, MineOK
  <1>4. Own(p, r)'
    BY <1>1, <1>2 DEF Own
  <1> QED BY <1>1, <1>2, <1>3, <1>4, ControlStep

LEMMA OperationStep ==
    ASSUME IInv, NEW p \in Procs, NEW r \in Runs, operation(p, r)
    PROVE  Base'
  <1>1. /\ alive[p] /\ exec[r][p] = "using"
        /\ UNCHANGED <<status, owner, lease, slots, wait, mine, op, alive, lost, lapses, faults>>
    BY DEF operation, rowVars, boundVars
  <1>2. PICK e \in {"unwinding", "failing"} : exec' = [exec EXCEPT ![r][p] = e]
    BY DEF operation
  <1>3. /\ exec' \in [Runs -> [Procs -> ExecStates]] /\ exec'[r][p] = e
        /\ \A s \in Runs, q \in Procs : (s # r \/ q # p) => exec'[s][q] = exec[s][q]
    BY <1>2 DEF IInv, Base, CoreTypes, ExecStates
  <1>4. MineOK' /\ op' \in [Runs -> [Procs -> 0..MaxOps]] /\ faults' \in 0..MaxFaults
    BY <1>1, MineType DEF IInv, Base, CoreTypes, MineOK
  <1>5. Holds(p, r)' => wait'[r] = "none"
    BY <1>1 DEF IInv, Base, Own, Holds, HeldBy
  <1>6. Own(p, r)'
    BY <1>1, <1>3, <1>5 DEF Own
  <1> QED BY <1>1, <1>3, <1>4, <1>6, ControlStep

\* The innermost slot leaves the execution's list.
LEMMA ShorterMine ==
    ASSUME IInv, NEW p \in Procs, NEW r \in Runs, mine[r][p] # <<>>,
           mine' = [mine EXCEPT ![r][p] = SubSeq(@, 1, Depth(r, p) - 1)]
    PROVE  /\ MineOK'
           /\ \A s \in Runs, q \in Procs : (s # r \/ q # p) => mine'[s][q] = mine[s][q]
           /\ Depth(r, p) = 1 => mine'[r][p] = <<>>
           /\ Depth(r, p) \in Nat /\ Depth(r, p) > 0
  <1> DEFINE m == mine[r][p]
             short == SubSeq(m, 1, Len(m) - 1)
  <1>1. m \in Seq(Nat) /\ Len(m) <= Len(Needs[r]) /\ \A i \in 1..Len(m) : m[i] \in 1..Limit[Needs[r][i]]
    BY MineType DEF IInv, Base, MineOK
  <1>2. /\ Len(m) \in Nat /\ Len(m) > 0
        /\ short \in Seq(Nat) /\ Len(short) = Len(m) - 1
        /\ \A i \in 1..(Len(m) - 1) : short[i] = m[i]
        /\ Len(m) = 1 => short = <<>>
    BY <1>1, ButLastFacts
  <1>3. mine' = [mine EXCEPT ![r][p] = short]
    BY DEF Depth
  <1>4. Len(short) <= Len(Needs[r]) /\ \A i \in 1..Len(short) : short[i] \in 1..Limit[Needs[r][i]]
    <2>1. Len(Needs[r]) \in Nat
      BY ConstantFacts
    <2>2. Len(m) - 1 <= Len(Needs[r]) /\ \A i \in 1..(Len(m) - 1) : i \in 1..Len(m)
      BY <1>1, <1>2, <2>1
    <2> HIDE DEF short, m
    <2> QED BY <1>1, <1>2, <2>2
  <1> HIDE DEF short
  <1>5. /\ MineOK' /\ mine'[r][p] = short
        /\ \A s \in Runs, q \in Procs : (s # r \/ q # p) => mine'[s][q] = mine[s][q]
    <2>1. /\ mine' \in [Runs -> [Procs -> Seq(Nat)]] /\ mine'[r][p] = short
          /\ \A s \in Runs, q \in Procs : (s # r \/ q # p) => mine'[s][q] = mine[s][q]
      <3>1. mine \in [Runs -> [Procs -> Seq(Nat)]] /\ short \in Seq(Nat)
        BY <1>2 DEF IInv, Base, CoreTypes
      <3> QED BY ZenonT(40), <1>3, <3>1, MineSet DEF IInv, Base
    <2>2. PICK rest \in Seq(Nat) : rest = short
      BY <1>2
    <2>3. Len(rest) <= Len(Needs[r]) /\ \A i \in 1..Len(rest) : rest[i] \in 1..Limit[Needs[r][i]]
      BY <1>4, <2>2
    <2>4. /\ TypeOK /\ mine' \in [Runs -> [Procs -> Seq(Nat)]] /\ mine'[r][p] = rest
          /\ \A s \in Runs, q \in Procs : (s # r \/ q # p) => mine'[s][q] = mine[s][q]
      BY <2>1, <2>2 DEF IInv
    <2>5. MineOK'
      BY SMTT(30), <2>3, <2>4, MineUpdate
    <2> QED BY <2>1, <2>5
  <1> QED BY <1>2, <1>5 DEF Depth

LEMMA FailReleaseStep ==
    ASSUME IInv, NEW p \in Procs, NEW r \in Runs, failRelease(p, r)
    PROVE  Base'
  <1>1. /\ alive[p] /\ mine[r][p] # <<>>
        /\ UNCHANGED <<status, owner, lease, slots, wait, op, alive, lost, lapses, faults>>
    BY DEF failRelease, rowVars, boundVars
  <1>2. /\ exec' \in [Runs -> [Procs -> ExecStates]] /\ exec'[r][p] = "failing"
        /\ \A s \in Runs, q \in Procs : (s # r \/ q # p) => exec'[s][q] = exec[s][q]
    BY DEF IInv, Base, CoreTypes, failRelease, ExecStates
  <1>3. MineOK' /\ \A s \in Runs, q \in Procs : (s # r \/ q # p) => mine'[s][q] = mine[s][q]
    BY <1>1, ShorterMine DEF failRelease
  <1>4. op' \in [Runs -> [Procs -> 0..MaxOps]] /\ faults' \in 0..MaxFaults
    BY <1>1 DEF IInv, Base, CoreTypes
  <1>5. Own(p, r)'
    BY <1>1, <1>2 DEF Own
  <1> QED BY <1>1, <1>2, <1>3, <1>4, <1>5, ControlStep

\* The slots of x are replaced.
LEMMA SlotUpdate ==
    ASSUME TypeOK, NEW x \in Resources,
           NEW rows \in [1..Limit[x] -> SlotRows],
           \A m \in 1..Limit[x] : /\ rows[m].owner = NoProc <=> rows[m].run = NoRun
                                  /\ rows[m].owner = NoProc <=> rows[m].lease = "none",
           slots' = [slots EXCEPT ![x] = rows]
    PROVE  /\ SlotsOK(slots')
           /\ slots'[x] = rows
           /\ \A y \in Resources : y # x => slots'[y] = slots[y]
  <1>1. SlotsOK(slots)
    BY SlotsType
  <1>2. /\ slots' = [y \in Resources |-> slots'[y]]
        /\ slots'[x] = rows
        /\ \A y \in Resources : y # x => slots'[y] = slots[y]
    BY <1>1 DEF SlotsOK
  <1>3. SlotsOK(slots')
    BY <1>1, <1>2 DEF SlotsOK
  <1> QED BY <1>2, <1>3

LEMMA ReleaseCapacityStep ==
    ASSUME IInv, NEW p \in Procs, NEW r \in Runs, releaseRuntimeCapacity(p, r)
    PROVE  Base'
  <1> DEFINE x == LastNeed(r, p)
             n == mine[r][p][Depth(r, p)]
  <1>1. /\ alive[p] /\ exec[r][p] \in {"unwinding", "failing"} /\ mine[r][p] # <<>>
        /\ mine' = [mine EXCEPT ![r][p] = SubSeq(@, 1, Depth(r, p) - 1)]
        /\ slots' = IF Releases(p, r, slots[x][n]) THEN [slots EXCEPT ![x][n] = FreeSlot] ELSE slots
        /\ UNCHANGED <<status, owner, lease, wait, op, alive, lost, lapses, faults>>
    BY DEF releaseRuntimeCapacity, rowVars, boundVars
  <1>2. /\ MineOK' /\ \A s \in Runs, q \in Procs : (s # r \/ q # p) => mine'[s][q] = mine[s][q]
        /\ Depth(r, p) = 1 => mine'[r][p] = <<>>
        /\ Depth(r, p) \in Nat /\ Depth(r, p) > 0
    BY <1>1, ShorterMine
  <1>3. PICK e \in {"unwinding", "failing", "loop"} :
          /\ exec' = [exec EXCEPT ![r][p] = e]
          /\ e = "loop" => exec[r][p] = "unwinding" /\ Depth(r, p) = 1
          /\ e = "unwinding" => exec[r][p] = "unwinding"
    <2>1. PICK f \in {exec[r][p], "failing"} :
             exec' = [exec EXCEPT ![r][p] = IF f = "unwinding" /\ Depth(r, p) = 1 THEN "loop" ELSE f]
      BY DEF releaseRuntimeCapacity
    <2>2. CASE f = "unwinding" /\ Depth(r, p) = 1
      BY <1>1, <2>1, <2>2
    <2>3. CASE ~(f = "unwinding" /\ Depth(r, p) = 1)
      BY <1>1, <2>1, <2>3
    <2> QED BY <2>2, <2>3
  <1>4. /\ exec' \in [Runs -> [Procs -> ExecStates]] /\ exec'[r][p] = e
        /\ \A s \in Runs, q \in Procs : (s # r \/ q # p) => exec'[s][q] = exec[s][q]
    BY <1>3 DEF IInv, Base, CoreTypes, ExecStates
  <1>5. Own(p, r)'
    <2>1. Holds(p, r)' /\ exec[r][p] = "unwinding" => wait'[r] = "none"
      BY <1>1 DEF IInv, Base, Own, Holds, HeldBy
    <2> QED BY <1>1, <1>2, <1>3, <1>4, <2>1 DEF Own
  <1>6. x \in Resources /\ n \in 1..Limit[x]
    <2>1. Depth(r, p) \in 1..Len(mine[r][p]) /\ Len(mine[r][p]) <= Len(Needs[r])
      BY <1>2, MineType DEF IInv, Base, MineOK, Depth
    <2>2. Depth(r, p) \in 1..Len(Needs[r])
      BY <1>2, <2>1, ConstantFacts
    <2> QED BY <2>1, <2>2, ConstantFacts, MineType DEF IInv, Base, MineOK, LastNeed
  <1>7. op' \in [Runs -> [Procs -> 0..MaxOps]] /\ faults' \in 0..MaxFaults /\ \A s \in Runs : wait'[s] = wait[s]
    BY <1>1 DEF IInv, Base, CoreTypes
  <1> HIDE DEF x, n
  <1>8. CASE ~Releases(p, r, slots[x][n])
    BY <1>1, <1>2, <1>4, <1>5, <1>7, <1>8, ControlStep
  <1>9. CASE Releases(p, r, slots[x][n])
    <2>1. PICK rows : rows = [slots[x] EXCEPT ![n] = FreeSlot]
      OBVIOUS
    <2>2. slots' = [slots EXCEPT ![x] = rows]
      BY <1>1, <1>6, <1>9, <2>1 DEF IInv, Base, CoreTypes
    <2>3. /\ rows \in [1..Limit[x] -> SlotRows]
           /\ rows[n] = FreeSlot
           /\ \A m \in 1..Limit[x] : m # n => rows[m] = slots[x][m]
      BY <1>6, <2>1, SlotsType, FreeSlotType DEF IInv, Base, SlotsOK
    <2>4. \A m \in 1..Limit[x] : /\ rows[m].owner = NoProc <=> rows[m].run = NoRun
                                 /\ rows[m].owner = NoProc <=> rows[m].lease = "none"
      BY <1>6, <2>3, SlotsType, FreeSlotType DEF IInv, Base, SlotsOK
    <2>5. /\ SlotsOK(slots') /\ slots'[x][n] = FreeSlot
          /\ \A m \in 1..Limit[x] : m # n => slots'[x][m] = slots[x][m]
          /\ \A y \in Resources : y # x => slots'[y] = slots[y]
      BY ZenonT(40), <1>6, <2>2, <2>3, <2>4, SlotUpdate DEF IInv, Base
    <2>6. \A s \in Runs, q \in Procs : (s # r \/ q # p) =>
             \A y \in Resources : \A m \in 1..Limit[y] :
                 /\ Backs(q, s, y, m) => Backs(q, s, y, m)'
                 /\ Backs(q, s, y, m)' => Backs(q, s, y, m)
      <3> SUFFICES ASSUME NEW s \in Runs, NEW q \in Procs, s # r \/ q # p,
                          NEW y \in Resources, NEW m \in 1..Limit[y]
                   PROVE  Backs(q, s, y, m) <=> Backs(q, s, y, m)'
        OBVIOUS
      <3>1. CASE y = x /\ m = n
        <4>1. ~Backs(q, s, y, m)
          BY <1>9, <3>1 DEF Backs, Owns, Releases
        <4>2. ~Backs(q, s, y, m)'
          BY <2>5, <3>1, FreeSlotType, ConstantFacts DEF Backs, Owns
        <4> QED BY <4>1, <4>2
      <3>2. CASE y # x \/ m # n
        <4>1. slots'[y][m] = slots[y][m]
          BY <2>5, <3>2
        <4> QED BY <1>1, <4>1 DEF Backs, Owns
      <3> QED BY <3>1, <3>2
    <2>7. wait' \in [Runs -> Resources \cup {Admission, "none"}]
      BY <1>1 DEF IInv, Base, CoreTypes
    <2> QED BY ZenonT(40), <1>1, <1>2, <1>4, <1>5, <1>7, <2>5, <2>6, <2>7, ExecutionStep
  <1> QED BY <1>8, <1>9

\* Reclaiming frees no slot that backs an execution under its run's live lease.
LEMMA ReclaimedRows ==
    ASSUME IInv, NEW x \in Resources
    PROVE  /\ Reclaimed(x) \in [1..Limit[x] -> SlotRows]
           /\ \A m \in 1..Limit[x] : Reclaimed(x)[m] \in {slots[x][m], FreeSlot}
           /\ \A s \in Runs, q \in Procs, m \in 1..Limit[x] :
                 HeldBy(q, s) /\ Backs(q, s, x, m) => Reclaimed(x)[m] = slots[x][m]
  <1>1. DOMAIN slots[x] = 1..Limit[x] /\ slots[x] \in [1..Limit[x] -> SlotRows]
    BY SlotsType DEF IInv, Base, SlotsOK
  <1>2. \A m \in 1..Limit[x] : Reclaimed(x)[m] = IF Stale(slots[x][m]) THEN FreeSlot ELSE slots[x][m]
    BY <1>1 DEF Reclaimed
  <1>3. Reclaimed(x) \in [1..Limit[x] -> SlotRows]
    BY <1>1, FreeSlotType DEF Reclaimed
  <1>4. ASSUME NEW s \in Runs, NEW q \in Procs, NEW m \in 1..Limit[x], HeldBy(q, s), Backs(q, s, x, m)
        PROVE  Reclaimed(x)[m] = slots[x][m]
    <2>1. Active(s)
      <3>1. status[s] \in {"pending", "running", "ended"} /\ (status[s] = "ended" => owner[s] = NoProc)
        BY DEF IInv, Base, CoreTypes, EndedFree
      <3> QED BY <1>4, <3>1, ConstantFacts DEF HeldBy, Active
    <2>2. ~Stale(slots[x][m])
      BY <1>4, <2>1 DEF Stale, Backs, Owns, HeldBy
    <2> QED BY <1>2, <2>2
  <1> QED BY <1>2, <1>3, <1>4

\* The resource an execution asks for.
LEMMA NextNeedType ==
    ASSUME IInv, NEW r \in Runs, NEW p \in Procs, exec[r][p] = "asking"
    PROVE  /\ NextNeed(r, p) \in Resources
           /\ Depth(r, p) \in Nat /\ Depth(r, p) < Len(Needs[r])
           /\ \A i \in 1..Depth(r, p) : /\ Needs[r][i] \in Resources /\ Needs[r][i] # NextNeed(r, p)
                                        /\ mine[r][p][i] \in 1..Limit[Needs[r][i]]
  <1>1. Depth(r, p) < Len(Needs[r])
    BY DEF IInv, Base, Own
  <1>2. mine[r][p] \in Seq(Nat) /\ \A i \in 1..Depth(r, p) : mine[r][p][i] \in 1..Limit[Needs[r][i]]
    BY MineType DEF IInv, Base, MineOK, Depth
  <1>3. Depth(r, p) \in Nat /\ Len(Needs[r]) \in Nat
    BY <1>2, ConstantFacts, LenProperties DEF Depth
  <1>4. /\ Depth(r, p) + 1 \in 1..Len(Needs[r])
        /\ \A i \in 1..Depth(r, p) : i \in 1..Len(Needs[r]) /\ i # Depth(r, p) + 1
    BY <1>1, <1>3
  <1> QED BY <1>1, <1>2, <1>3, <1>4, ConstantFacts DEF NextNeed

LEMMA WaitStep ==
    ASSUME IInv, NEW p \in Procs, NEW r \in Runs, waitForCapacity(p, r)
    PROVE  Base'
  <1>0. PICK x : x = NextNeed(r, p)
    OBVIOUS
  <1>1. /\ alive[p] /\ exec[r][p] = "asking" /\ HeldBy(p, r)
        /\ Grants(p, r, x) = {}
        /\ slots' = [slots EXCEPT ![x] = Reclaimed(x)]
        /\ wait' = [wait EXCEPT ![r] = x]
        /\ UNCHANGED <<status, owner, lease, exec, mine, op, alive, lost, lapses, faults>>
    BY <1>0 DEF waitForCapacity, rowVars, boundVars
  <1>2. /\ x \in Resources
        /\ Depth(r, p) \in Nat /\ Depth(r, p) < Len(Needs[r])
        /\ \A i \in 1..Depth(r, p) : /\ Needs[r][i] \in Resources /\ Needs[r][i] # x
                                     /\ mine[r][p][i] \in 1..Limit[Needs[r][i]]
    BY <1>0, <1>1, NextNeedType
  <1>3. NextNeed(r, p)' = x /\ Depth(r, p)' = Depth(r, p)
    BY <1>0, <1>1 DEF NextNeed, Depth
  <1>4. PICK rows : rows = Reclaimed(x)
    OBVIOUS
  <1>5. /\ rows \in [1..Limit[x] -> SlotRows]
        /\ \A m \in 1..Limit[x] : rows[m] \in {slots[x][m], FreeSlot}
        /\ \A s \in Runs, q \in Procs, m \in 1..Limit[x] :
              HeldBy(q, s) /\ Backs(q, s, x, m) => rows[m] = slots[x][m]
    BY <1>2, <1>4, ReclaimedRows
  <1>6. \A m \in 1..Limit[x] : /\ rows[m].owner = NoProc <=> rows[m].run = NoRun
                               /\ rows[m].owner = NoProc <=> rows[m].lease = "none"
    BY <1>2, <1>5, SlotsType, FreeSlotType DEF IInv, Base, SlotsOK
  <1>7. /\ SlotsOK(slots') /\ slots'[x] = rows
        /\ \A y \in Resources : y # x => slots'[y] = slots[y]
    BY ZenonT(40), <1>1, <1>2, <1>4, <1>5, <1>6, SlotUpdate DEF IInv, Base
  <1>8. ASSUME NEW s \in Runs, NEW q \in Procs, NEW y \in Resources, NEW m \in 1..Limit[y]
        PROVE  /\ HeldBy(q, s) /\ Backs(q, s, y, m) => Backs(q, s, y, m)'
               /\ Backs(q, s, y, m)' => Backs(q, s, y, m)
    <2>1. CASE y # x
      BY <1>1, <1>7, <2>1 DEF Backs, Owns
    <2>2. CASE y = x
      <3>1. HeldBy(q, s) /\ Backs(q, s, y, m) => slots'[y][m] = slots[y][m]
        BY <1>5, <1>7, <2>2
      <3>2. slots'[y][m] \in {slots[y][m], FreeSlot}
        BY <1>5, <1>7, <2>2
      <3>3. FreeSlot.owner # q
        BY FreeSlotType, ConstantFacts
      <3> QED BY <1>1, <3>1, <3>2, <3>3 DEF Backs, Owns
    <2> QED BY <2>1, <2>2
  <1>9. /\ wait' \in [Runs -> Resources \cup {Admission, "none"}] /\ wait'[r] = x
        /\ \A s \in Runs : s # r => wait'[s] = wait[s]
    BY <1>1, <1>2 DEF IInv, Base, CoreTypes
  <1>10. Own(p, r)'
    <2>1. Holds(p, r)' <=> Holds(p, r)
      BY <1>1 DEF Holds, HeldBy
    <2>2. lapses = 0 /\ Holds(p, r) => \A i \in 1..Depth(r, p) : Backs(p, r, Needs[r][i], mine[r][p][i])'
      BY <1>1, <1>2, <1>8 DEF IInv, Base, Own
    <2>3. ASSUME NEW m \in 1..Limit[x]
          PROVE  ~Backs(p, r, x, m)'
      <3>1. ~Regrants(p, r, x, m)
        BY <1>1 DEF Grants
      <3> QED BY <1>1, <1>4, <1>7, <3>1 DEF Regrants, Backs, Owns
    <2> QED BY <1>1, <1>2, <1>3, <1>9, <2>1, <2>2, <2>3 DEF Own
  <1>11. /\ exec' \in [Runs -> [Procs -> ExecStates]] /\ MineOK'
         /\ op' \in [Runs -> [Procs -> 0..MaxOps]] /\ faults' \in 0..MaxFaults
    BY <1>1, MineType DEF IInv, Base, CoreTypes, MineOK
  <1> QED BY <1>1, <1>7, <1>8, <1>9, <1>10, <1>11, ExecutionStep

\* The slot granted is free or already the operation's: never another execution's
\* under its run's live lease.
LEMMA GrantedSlot ==
    ASSUME IInv, NEW p \in Procs, NEW r \in Runs, NEW x \in Resources, NEW n \in Grants(p, r, x)
    PROVE  /\ n \in 1..Limit[x]
           /\ \/ Regrants(p, r, x, n) /\ Backs(p, r, x, n)
              \/ Reclaimed(x)[n] = FreeSlot
           /\ \A s \in Runs, q \in Procs :
                 HeldBy(q, s) /\ Backs(q, s, x, n) => s = r /\ q = p
  <1>1. n \in 1..Limit[x] /\ (Regrants(p, r, x, n) \/ MayTake(r, x, n))
    BY DEF Grants
  <1>2. Reclaimed(x)[n] \in {slots[x][n], FreeSlot} /\ FreeSlot.owner # p
    BY <1>1, ReclaimedRows, FreeSlotType, ConstantFacts
  <1>3. Regrants(p, r, x, n) => Backs(p, r, x, n)
    BY <1>2 DEF Regrants, Backs, Owns
  <1>4. ASSUME NEW s \in Runs, NEW q \in Procs, HeldBy(q, s), Backs(q, s, x, n)
        PROVE  s = r /\ q = p
    <2>1. Reclaimed(x)[n] = slots[x][n] /\ slots[x][n].owner = q /\ slots[x][n].run = s
      BY <1>1, <1>4, ReclaimedRows DEF Backs, Owns
    <2>2. CASE Regrants(p, r, x, n)
      BY <2>1, <2>2 DEF Regrants, Owns
    <2>3. CASE MayTake(r, x, n)
      BY <2>1, <2>3, FreeSlotType, ConstantFacts DEF MayTake
    <2> QED BY <1>1, <2>2, <2>3
  <1> QED BY <1>1, <1>3, <1>4 DEF MayTake

LEMMA AcquireStep ==
    ASSUME IInv, NEW p \in Procs, NEW r \in Runs, acquireRuntimeCapacity(p, r)
    PROVE  Base'
  <1>1. PICK x : x = NextNeed(r, p)
    OBVIOUS
  <1>2. PICK n \in Grants(p, r, x) :
          /\ slots' = [slots EXCEPT ![x] = [Reclaimed(x) EXCEPT
                          ![n] = [owner |-> p, run |-> r, op |-> op[r][p], lease |-> "live"]]]
          /\ mine' = [mine EXCEPT ![r][p] = Append(@, n)]
          /\ wait' = IF Regrants(p, r, x, n) THEN wait ELSE ClearWait(r)
    BY <1>1 DEF acquireRuntimeCapacity
  <1>3. /\ alive[p] /\ exec[r][p] = "asking" /\ HeldBy(p, r)
        /\ exec' = [exec EXCEPT ![r][p] =
                       IF Depth(r, p) + 1 = Len(Needs[r]) THEN "using" ELSE "asking"]
        /\ UNCHANGED <<status, owner, lease, op, alive, lost, lapses, faults>>
    BY DEF acquireRuntimeCapacity, rowVars, boundVars
  <1>4. /\ x \in Resources /\ x = Needs[r][Depth(r, p) + 1]
        /\ Depth(r, p) \in Nat /\ Depth(r, p) < Len(Needs[r])
        /\ \A i \in 1..Depth(r, p) : /\ Needs[r][i] \in Resources /\ Needs[r][i] # x
                                     /\ mine[r][p][i] \in 1..Limit[Needs[r][i]]
    BY <1>1, <1>3, NextNeedType DEF NextNeed
  <1>5. /\ n \in 1..Limit[x]
        /\ \/ Regrants(p, r, x, n) /\ Backs(p, r, x, n)
           \/ Reclaimed(x)[n] = FreeSlot
        /\ \A s \in Runs, q \in Procs :
              HeldBy(q, s) /\ Backs(q, s, x, n) => s = r /\ q = p
    BY <1>4, GrantedSlot
  <1>6. PICK new : new = [owner |-> p, run |-> r, op |-> op[r][p], lease |-> "live"]
    OBVIOUS
  <1>7. new \in SlotRows /\ new.owner = p /\ new.run = r /\ new.op = op[r][p] /\ new.lease = "live"
    BY <1>6 DEF IInv, Base, CoreTypes, SlotRows
  <1>8. PICK rows : rows = [Reclaimed(x) EXCEPT ![n] = new]
    OBVIOUS
  <1>9. /\ rows \in [1..Limit[x] -> SlotRows] /\ rows[n] = new
        /\ \A m \in 1..Limit[x] : m # n => rows[m] \in {slots[x][m], FreeSlot}
        /\ \A s \in Runs, q \in Procs, m \in 1..Limit[x] :
              m # n /\ HeldBy(q, s) /\ Backs(q, s, x, m) => rows[m] = slots[x][m]
    <2>1. /\ Reclaimed(x) \in [1..Limit[x] -> SlotRows]
          /\ \A m \in 1..Limit[x] : Reclaimed(x)[m] \in {slots[x][m], FreeSlot}
          /\ \A s \in Runs, q \in Procs, m \in 1..Limit[x] :
                HeldBy(q, s) /\ Backs(q, s, x, m) => Reclaimed(x)[m] = slots[x][m]
      BY <1>4, ReclaimedRows
    <2>2. /\ rows \in [1..Limit[x] -> SlotRows] /\ rows[n] = new
          /\ \A m \in 1..Limit[x] : m # n => rows[m] = Reclaimed(x)[m]
      BY <1>5, <1>7, <1>8, <2>1
    <2> QED BY <2>1, <2>2
  <1>10. \A m \in 1..Limit[x] : /\ rows[m].owner = NoProc <=> rows[m].run = NoRun
                                /\ rows[m].owner = NoProc <=> rows[m].lease = "none"
    <2>1. /\ new.owner # NoProc /\ new.run # NoRun /\ new.lease # "none"
      BY <1>7, ConstantFacts
    <2> QED BY <1>4, <1>9, <2>1, SlotsType, FreeSlotType DEF IInv, Base, SlotsOK
  <1>11. /\ SlotsOK(slots') /\ slots'[x] = rows
         /\ \A y \in Resources : y # x => slots'[y] = slots[y]
    <2>1. slots' = [slots EXCEPT ![x] = rows]
      BY <1>2, <1>6, <1>8
    <2>2. TypeOK /\ x \in Resources /\ rows \in [1..Limit[x] -> SlotRows]
      BY <1>4, <1>9 DEF IInv, Base
    <2> QED BY <1>10, <2>1, <2>2, SlotUpdate
  <1>12. ASSUME NEW s \in Runs, NEW q \in Procs, s # r \/ q # p,
                NEW y \in Resources, NEW m \in 1..Limit[y]
         PROVE  /\ HeldBy(q, s) /\ Backs(q, s, y, m) => Backs(q, s, y, m)'
                /\ Backs(q, s, y, m)' => Backs(q, s, y, m)
    <2>1. CASE y # x
      BY <1>3, <1>11, <2>1 DEF Backs, Owns
    <2>2. CASE y = x /\ m = n
      <3>1. ~(HeldBy(q, s) /\ Backs(q, s, y, m))
        BY <1>5, <1>12, <2>2
      <3>2. ~Backs(q, s, y, m)'
        BY <1>7, <1>9, <1>11, <1>12, <2>2 DEF Backs, Owns
      <3> QED BY <3>1, <3>2
    <2>3. CASE y = x /\ m # n
      <3>1. HeldBy(q, s) /\ Backs(q, s, y, m) => slots'[y][m] = slots[y][m]
        BY <1>9, <1>11, <2>3
      <3>2. slots'[y][m] \in {slots[y][m], FreeSlot}
        BY <1>9, <1>11, <2>3
      <3>3. FreeSlot.owner # q
        BY FreeSlotType, ConstantFacts
      <3> QED BY <1>3, <3>1, <3>2, <3>3 DEF Backs, Owns
    <2> QED BY <2>1, <2>2, <2>3
  <1>13. /\ MineOK' /\ mine'[r][p] = Append(mine[r][p], n)
         /\ \A s \in Runs, q \in Procs : (s # r \/ q # p) => mine'[s][q] = mine[s][q]
         /\ Depth(r, p)' = Depth(r, p) + 1
         /\ \A i \in 1..Depth(r, p) : mine'[r][p][i] = mine[r][p][i]
         /\ mine'[r][p][Depth(r, p) + 1] = n
    <2>1. PICK longer : longer = Append(mine[r][p], n)
      OBVIOUS
    <2>2. mine[r][p] \in Seq(Nat) /\ n \in Nat
      BY <1>4, <1>5, MineType, ConstantFacts DEF IInv, Base, MineOK
    <2>3. /\ longer \in Seq(Nat) /\ Len(longer) = Depth(r, p) + 1
          /\ \A i \in 1..Depth(r, p) : longer[i] = mine[r][p][i]
          /\ longer[Depth(r, p) + 1] = n
      BY <2>1, <2>2, AppendFacts DEF Depth
    <2>4. Depth(r, p) + 1 <= Len(Needs[r])
      BY <1>4, ConstantFacts
    <2>5. ASSUME NEW i \in 1..(Depth(r, p) + 1)
          PROVE  longer[i] \in 1..Limit[Needs[r][i]]
      <3>1. CASE i = Depth(r, p) + 1
        BY <1>4, <1>5, <2>3, <3>1
      <3>2. CASE i # Depth(r, p) + 1
        <4>1. i \in 1..Depth(r, p)
          BY <1>4, <3>2
        <4> QED BY <1>4, <2>3, <4>1
      <3> QED BY <3>1, <3>2
    <2>6. mine' = [mine EXCEPT ![r][p] = longer]
      BY <1>2, <2>1
    <2>7. /\ MineOK' /\ mine'[r][p] = longer
          /\ \A s \in Runs, q \in Procs : (s # r \/ q # p) => mine'[s][q] = mine[s][q]
      <3>1. TypeOK /\ longer \in Seq(Nat) /\ Len(longer) <= Len(Needs[r])
        BY <2>3, <2>4 DEF IInv, Base
      <3>2. \A i \in 1..Len(longer) : longer[i] \in 1..Limit[Needs[r][i]]
        BY <2>3, <2>5
      <3>3. /\ mine' \in [Runs -> [Procs -> Seq(Nat)]] /\ mine'[r][p] = longer
            /\ \A s \in Runs, q \in Procs : (s # r \/ q # p) => mine'[s][q] = mine[s][q]
        BY <2>6, <3>1 DEF TypeOK, CoreTypes
      <3> QED BY <3>1, <3>2, <3>3, MineUpdate
    <2> QED BY <2>1, <2>3, <2>7 DEF Depth
  <1>14. /\ wait' \in [Runs -> Resources \cup {Admission, "none"}] /\ (Holds(p, r) => wait'[r] = "none")
         /\ \A s \in Runs : s # r => wait'[s] = wait[s]
    <2>1. CASE Regrants(p, r, x, n)
      <3>1. Backs(p, r, x, n)
        BY <1>5, <2>1, GrantedSlot, <1>4 DEF Regrants, Owns, FreeSlot
      <3>2. Holds(p, r) => wait[r] = "none"
        BY <1>1, <1>3, <1>5, <3>1 DEF IInv, Base, Own
      <3> QED BY <1>2, <2>1, <3>2 DEF IInv, Base, CoreTypes
    <2>2. CASE ~Regrants(p, r, x, n)
      BY <1>2, <2>2 DEF IInv, Base, CoreTypes, ClearWait
    <2> QED BY <2>1, <2>2
  <1>15. /\ exec' \in [Runs -> [Procs -> ExecStates]] /\ exec'[r][p] \in {"using", "asking"}
         /\ exec'[r][p] = "asking" => Depth(r, p) + 1 # Len(Needs[r])
         /\ \A s \in Runs, q \in Procs : (s # r \/ q # p) => exec'[s][q] = exec[s][q]
    <2>1. CASE Depth(r, p) + 1 = Len(Needs[r])
      BY <1>3, <2>1 DEF IInv, Base, CoreTypes, ExecStates
    <2>2. CASE Depth(r, p) + 1 # Len(Needs[r])
      BY <1>3, <2>2 DEF IInv, Base, CoreTypes, ExecStates
    <2> QED BY <2>1, <2>2
  <1>16. Own(p, r)'
    <2>0. Holds(p, r)' <=> Holds(p, r)
      BY <1>3 DEF Holds, HeldBy
    <2>1. ASSUME lapses' = 0, Holds(p, r), NEW i \in 1..(Depth(r, p) + 1)
          PROVE  Backs(p, r, Needs[r][i], mine[r][p][i])'
      <3>1. CASE i = Depth(r, p) + 1
        <4>1. Needs[r][i] = x /\ mine'[r][p][i] = n /\ slots'[x][n] = new /\ op'[r][p] = op[r][p]
          BY <1>3, <1>4, <1>9, <1>11, <1>13, <3>1
        <4> QED BY <1>7, <4>1 DEF Backs, Owns
      <3>2. CASE i # Depth(r, p) + 1
        <4>1. i \in 1..Depth(r, p)
          BY <1>4, <3>2
        <4>2. Backs(p, r, Needs[r][i], mine[r][p][i])
          BY <1>3, <2>1, <4>1 DEF IInv, Base, Own
        <4> QED BY <1>3, <1>4, <1>11, <1>13, <4>1, <4>2 DEF Backs, Owns
      <3> QED BY <3>1, <3>2
    <2>2. exec'[r][p] = "asking" => Depth(r, p)' < Len(Needs[r])
      BY <1>4, <1>13, <1>15, ConstantFacts
    <2> QED BY <1>3, <1>13, <1>14, <1>15, <2>0, <2>1, <2>2 DEF Own
  <1>17. op' \in [Runs -> [Procs -> 0..MaxOps]] /\ faults' \in 0..MaxFaults
    BY <1>3 DEF IInv, Base, CoreTypes
  <1>18. \A s \in Runs, q \in Procs : (s # r \/ q # p) =>
            /\ exec'[s][q] = exec[s][q] /\ mine'[s][q] = mine[s][q] /\ op'[s][q] = op[s][q]
    BY <1>3, <1>13, <1>15
  <1>19. \A s \in Runs, q \in Procs : (s # r \/ q # p) =>
            \A y \in Resources : \A m \in 1..Limit[y] :
                /\ HeldBy(q, s) /\ Backs(q, s, y, m) => Backs(q, s, y, m)'
                /\ Backs(q, s, y, m)' => Backs(q, s, y, m)
    BY <1>12
  <1>20. /\ exec' \in [Runs -> [Procs -> ExecStates]] /\ MineOK' /\ SlotsOK(slots')
         /\ wait' \in [Runs -> Resources \cup {Admission, "none"}]
         /\ \A s \in Runs : s # r => wait'[s] = wait[s]
         /\ HeldBy(p, r) /\ UNCHANGED <<status, owner, lease, alive, lost, lapses>>
    BY <1>3, <1>11, <1>13, <1>14, <1>15
  <1> QED BY <1>16, <1>17, <1>18, <1>19, <1>20, ExecutionStep

\* A slot lease that runs out under its user is counted in lapses; any other one
\* backs no execution that works under its run's live lease.
LEMMA ExpireSlotStep ==
    ASSUME IInv, NEW x \in Resources, NEW n \in 1..Limit[x], expireSlot(x, n)
    PROVE  Base'
  <1>1. /\ slots[x][n].lease = "live"
        /\ slots' = [slots EXCEPT ![x][n].lease = "expired"]
        /\ UNCHANGED <<status, owner, lease, wait, exec, mine, op, alive, lost, faults>>
    BY DEF expireSlot, rowVars
  <1>2. /\ lapses' \in 0..MaxLapses /\ (lapses' = 0 => lapses = 0)
        /\ lapses' = 0 => ~(Renewed(x, n) /\ HeldBy(slots[x][n].owner, slots[x][n].run))
    <2>1. lapses \in Nat /\ lapses <= MaxLapses /\ MaxLapses \in Nat
      BY ConstantFacts DEF IInv, Base, CoreTypes
    <2>2. CASE Renewed(x, n) /\ HeldBy(slots[x][n].owner, slots[x][n].run)
      <3>1. lapses < MaxLapses /\ lapses' = lapses + 1
        BY <2>2 DEF expireSlot
      <3> QED BY <2>1, <3>1
    <2>3. CASE ~(Renewed(x, n) /\ HeldBy(slots[x][n].owner, slots[x][n].run))
      <3>1. lapses' = lapses
        BY <2>3 DEF expireSlot
      <3> QED BY <2>1, <2>3, <3>1
    <2> QED BY <2>2, <2>3
  <1>3. PICK new : new = [slots[x][n] EXCEPT !.lease = "expired"]
    OBVIOUS
  <1>4. /\ new \in SlotRows /\ new.owner = slots[x][n].owner /\ new.run = slots[x][n].run
        /\ new.op = slots[x][n].op /\ new.lease = "expired"
    BY <1>3, SlotRowTypes DEF IInv, Base, SlotRows
  <1>5. PICK rows : rows = [slots[x] EXCEPT ![n] = new]
    OBVIOUS
  <1>6. /\ rows \in [1..Limit[x] -> SlotRows] /\ rows[n] = new
        /\ \A m \in 1..Limit[x] : m # n => rows[m] = slots[x][m]
    <2>1. slots[x] \in [1..Limit[x] -> SlotRows]
      BY SlotsType DEF IInv, Base, SlotsOK
    <2> QED BY <1>4, <1>5, <2>1
  <1>7. \A m \in 1..Limit[x] : /\ rows[m].owner = NoProc <=> rows[m].run = NoRun
                               /\ rows[m].owner = NoProc <=> rows[m].lease = "none"
    <2>1. \A m \in 1..Limit[x] : /\ slots[x][m].owner = NoProc <=> slots[x][m].run = NoRun
                                 /\ slots[x][m].owner = NoProc <=> slots[x][m].lease = "none"
      BY SlotsType DEF IInv, Base, SlotsOK
    <2> QED BY <1>1, <1>4, <1>6, <2>1
  <1>8. /\ SlotsOK(slots') /\ slots'[x] = rows
        /\ \A y \in Resources : y # x => slots'[y] = slots[y]
    <2>1. slots' = [slots EXCEPT ![x] = rows]
      BY <1>1, <1>3, <1>5
    <2>2. TypeOK
      BY DEF IInv, Base
    <2> QED BY <1>6, <1>7, <2>1, <2>2, SlotUpdate
  <1>9. CoreTypes'
    <2>1. /\ status' \in [Runs -> {"pending", "running", "ended"}]
          /\ owner' \in [Runs -> Procs \cup {NoProc}]
          /\ lease' \in [Runs -> {"none", "live", "expired"}]
          /\ wait' \in [Runs -> Resources \cup {Admission, "none"}]
          /\ exec' \in [Runs -> [Procs -> ExecStates]]
          /\ op' \in [Runs -> [Procs -> 0..MaxOps]]
          /\ faults' \in 0..MaxFaults
      BY <1>1 DEF IInv, Base, CoreTypes
    <2>2. \A s \in Runs : owner'[s] = NoProc <=> lease'[s] = "none"
      BY <1>1, RowFacts
    <2>3. alive' \in [Procs -> BOOLEAN] /\ MineOK'
      BY <1>1, MineType DEF IInv, Base, CoreTypes, MineOK
    <2> QED BY <1>2, <1>8, <2>1, <2>2, <2>3, TypeIntro
  <1>10. EndedFree'
    BY <1>1 DEF IInv, Base, EndedFree
  <1>11. ASSUME NEW r \in Runs, NEW p \in Procs
         PROVE  Own(p, r)'
    <2>1. Own(p, r) /\ (Holds(p, r)' <=> Holds(p, r)) /\ Depth(r, p)' = Depth(r, p)
                    /\ NextNeed(r, p)' = NextNeed(r, p)
      BY <1>1 DEF IInv, Base, Holds, HeldBy, Depth, NextNeed
    <2>2. ASSUME NEW y \in Resources, NEW m \in 1..Limit[y], Backs(p, r, y, m)'
          PROVE  Backs(p, r, y, m)
      <3>1. y # x \/ m # n
        BY <1>4, <1>6, <1>8, <2>2 DEF Backs
      <3>2. slots'[y][m] = slots[y][m]
        BY <1>6, <1>8, <3>1
      <3> QED BY <1>1, <2>2, <3>2 DEF Backs, Owns
    <2>3. ASSUME lapses' = 0, Holds(p, r), exec[r][p] \in {"asking", "using"},
                 NEW i \in 1..Depth(r, p)
          PROVE  Backs(p, r, Needs[r][i], mine[r][p][i])'
      <3>1. alive[p] /\ Backs(p, r, Needs[r][i], mine[r][p][i])
        BY <1>2, <2>1, <2>3 DEF Own
      <3>2. Needs[r][i] \in Resources /\ mine[r][p][i] \in 1..Limit[Needs[r][i]]
        <4>1. mine[r][p][i] \in 1..Limit[Needs[r][i]] /\ Depth(r, p) <= Len(Needs[r]) /\ Depth(r, p) \in Nat
          BY <2>3, LenProperties DEF IInv, Base, CoreTypes, Depth
        <4>2. i \in 1..Len(Needs[r])
          BY <4>1, ConstantFacts
        <4> QED BY <4>1, <4>2, ConstantFacts
      <3>3. ~(Needs[r][i] = x /\ mine[r][p][i] = n)
        <4> SUFFICES ASSUME Needs[r][i] = x, mine[r][p][i] = n PROVE FALSE
          OBVIOUS
        <4>1. Owns(p, r, slots[x][n])
          BY <3>1 DEF Backs
        <4>2. Renewed(x, n)
          BY <2>3, <3>1, <4>1 DEF Renewed
        <4>3. HeldBy(slots[x][n].owner, slots[x][n].run)
          BY <2>3, <4>1 DEF Owns, Holds
        <4> QED BY <1>2, <2>3, <4>2, <4>3
      <3>4. slots'[Needs[r][i]][mine[r][p][i]] = slots[Needs[r][i]][mine[r][p][i]]
        BY <1>6, <1>8, <3>2, <3>3
      <3> QED BY <1>1, <3>1, <3>4 DEF Backs, Owns
    <2>4. Holds(p, r) /\ exec[r][p] = "asking" => NextNeed(r, p) \in Resources
      BY NextNeedType
    <2>5. ASSUME Holds(p, r)', exec'[r][p] = "asking", wait'[r] # "none"
          PROVE  /\ wait'[r] = NextNeed(r, p)'
                 /\ \A m \in 1..Limit[NextNeed(r, p)'] : ~Backs(p, r, NextNeed(r, p), m)'
      <3>1. /\ wait[r] = NextNeed(r, p) /\ NextNeed(r, p) \in Resources
            /\ \A m \in 1..Limit[NextNeed(r, p)] : ~Backs(p, r, NextNeed(r, p), m)
        BY <1>1, <2>1, <2>4, <2>5 DEF Own
      <3>2. \A m \in 1..Limit[NextNeed(r, p)] :
               Backs(p, r, NextNeed(r, p), m)' => Backs(p, r, NextNeed(r, p), m)
        <4>1. PICK y \in Resources : y = NextNeed(r, p) /\ y = NextNeed(r, p)'
          BY <2>1, <3>1
        <4>2. \A m \in 1..Limit[y] : Backs(p, r, y, m)' => Backs(p, r, y, m)
          BY <2>2
        <4> QED BY <4>1, <4>2 DEF Backs
      <3> QED BY <1>1, <2>1, <3>1, <3>2
    <2> QED BY <1>1, <2>1, <2>3, <2>5 DEF Own
  <1> QED BY <1>9, <1>10, <1>11 DEF IInv, Base

\* The process leaves nothing behind but the rows: its slots stay taken until
\* somebody reclaims them.
LEMMA CrashStep ==
    ASSUME IInv, NEW p \in Procs, crash(p)
    PROVE  Base'
  <1>1. /\ alive' = [alive EXCEPT ![p] = FALSE]
        /\ exec' = [r \in Runs |-> [exec[r] EXCEPT ![p] = "idle"]]
        /\ mine' = [r \in Runs |-> [mine[r] EXCEPT ![p] = <<>>]]
        /\ op' = [r \in Runs |-> [op[r] EXCEPT ![p] = 0]]
        /\ \A r \in Runs, q \in Procs : q # p /\ q \in lost[r] => q \in lost'[r]
        /\ UNCHANGED <<status, owner, lease, slots, wait, lapses>>
        /\ Fault
    BY DEF crash, rowVars
  <1>2. faults' \in 0..MaxFaults
    BY <1>1, FaultCounted DEF IInv, Base
  <1>3. alive' \in [Procs -> BOOLEAN] /\ \A q \in Procs : q # p => alive'[q] = alive[q]
    BY <1>1, Zenon DEF IInv, Base, CoreTypes
  <1>4. /\ exec' \in [Runs -> [Procs -> ExecStates]] /\ op' \in [Runs -> [Procs -> 0..MaxOps]]
        /\ mine' \in [Runs -> [Procs -> Seq(Nat)]]
        /\ \A r \in Runs : exec'[r][p] = "idle" /\ mine'[r][p] = <<>>
        /\ \A r \in Runs, q \in Procs : q # p =>
              /\ exec'[r][q] = exec[r][q] /\ mine'[r][q] = mine[r][q] /\ op'[r][q] = op[r][q]
    <2>1. /\ exec \in [Runs -> [Procs -> ExecStates]] /\ op \in [Runs -> [Procs -> 0..MaxOps]]
          /\ mine \in [Runs -> [Procs -> Seq(Nat)]] /\ "idle" \in ExecStates
          /\ 0 \in 0..MaxOps /\ <<>> \in Seq(Nat)
      BY ConstantFacts, EmptySeq DEF IInv, Base, CoreTypes, ExecStates
    <2>2. /\ exec' \in [Runs -> [Procs -> ExecStates]]
          /\ \A r \in Runs : exec'[r][p] = "idle"
          /\ \A r \in Runs, q \in Procs : q # p => exec'[r][q] = exec[r][q]
      BY <1>1, <2>1
    <2>3. /\ op' \in [Runs -> [Procs -> 0..MaxOps]]
          /\ \A r \in Runs, q \in Procs : q # p => op'[r][q] = op[r][q]
      BY <1>1, <2>1
    <2>4. /\ mine' \in [Runs -> [Procs -> Seq(Nat)]]
          /\ \A r \in Runs : mine'[r][p] = <<>>
          /\ \A r \in Runs, q \in Procs : q # p => mine'[r][q] = mine[r][q]
      BY <1>1, <2>1
    <2> QED BY <2>2, <2>3, <2>4
  <1>5. MineOK'
    <2>1. ASSUME NEW r \in Runs, NEW q \in Procs
          PROVE  /\ Len(mine'[r][q]) <= Len(Needs[r])
                 /\ \A i \in 1..Len(mine'[r][q]) : mine'[r][q][i] \in 1..Limit[Needs[r][i]]
      <3>1. CASE q = p
        <4>1. Len(mine'[r][q]) = 0 /\ Len(Needs[r]) \in Nat
          BY <1>4, <3>1, ConstantFacts, EmptySeq
        <4> QED BY <4>1
      <3>2. CASE q # p
        BY <1>4, <3>2, MineType DEF IInv, Base, MineOK
      <3> QED BY <3>1, <3>2
    <2> QED BY <1>4, <2>1 DEF MineOK
  <1>6. CoreTypes'
    <2>1. /\ status' \in [Runs -> {"pending", "running", "ended"}]
          /\ owner' \in [Runs -> Procs \cup {NoProc}]
          /\ lease' \in [Runs -> {"none", "live", "expired"}]
          /\ wait' \in [Runs -> Resources \cup {Admission, "none"}]
          /\ lapses' \in 0..MaxLapses
      BY <1>1 DEF IInv, Base, CoreTypes
    <2>2. \A s \in Runs : owner'[s] = NoProc <=> lease'[s] = "none"
      BY <1>1, RowFacts
    <2>3. SlotsOK(slots')
      BY <1>1, SlotsType DEF IInv, Base
    <2> QED BY <1>2, <1>3, <1>4, <1>5, <2>1, <2>2, <2>3, TypeIntro
  <1>7. EndedFree'
    BY <1>1 DEF IInv, Base, EndedFree
  <1>8. ASSUME NEW r \in Runs, NEW q \in Procs
        PROVE  Own(q, r)'
    <2>1. CASE q = p
      BY <1>4, <2>1 DEF Own
    <2>2. CASE q # p
      <3>1. Holds(q, r)' => Holds(q, r) /\ wait'[r] = wait[r]
        BY <1>1, <2>2 DEF Holds, HeldBy
      <3>2. \A x \in Resources : \A n \in 1..Limit[x] : Backs(q, r, x, n)' <=> Backs(q, r, x, n)
        BY <1>1, <1>4, <2>2 DEF Backs, Owns
      <3>3. /\ exec'[r][q] = exec[r][q] /\ mine'[r][q] = mine[r][q] /\ op'[r][q] = op[r][q]
            /\ alive'[q] = alive[q] /\ lapses' = lapses
        BY <1>1, <1>3, <1>4, <2>2
      <3> QED BY <3>1, <3>2, <3>3, OwnKept
    <2> QED BY <2>1, <2>2
  <1> QED BY <1>6, <1>7, <1>8 DEF IInv, Base

-----------------------------------------------------------------------------
(* Executions and the lease of their run *)

\* The step leaves who executes, recovers and has lost what as it is.
LEMMA KeepsKept ==
    ASSUME IInv, NEW p \in Procs, NEW r \in Runs,
           exec'[r][p] = "idle" <=> exec[r][p] = "idle",
           rec'[p] = r => rec[p] = r,
           p \in lost'[r] <=> p \in lost[r],
           HeldBy(p, r) => HeldBy(p, r)' \/ status'[r] = "ended",
           status[r] = "ended" => status'[r] = "ended"
    PROVE  Keeps(p, r)'
  BY DEF IInv, Keeps

\* Every step keeps rec and lost in their types and Keeps true.
Kept ==
    /\ rec \in [Procs -> Runs \cup {NoRun}] /\ lost \in [Runs -> SUBSET Procs]
    /\ \A r \in Runs, p \in Procs : Keeps(p, r)

\* A step of the execution of r in p that goes on after it.
LEMMA KeptByExecution ==
    ASSUME IInv, NEW p \in Procs, NEW r \in Runs, NEW e \in ExecStates \ {"idle"},
           exec[r][p] # "idle", exec' = [exec EXCEPT ![r][p] = e],
           UNCHANGED <<rowVars, rec, lost>>
    PROVE  Kept'
  <1>1. \A s \in Runs, q \in Procs : exec'[s][q] = "idle" <=> exec[s][q] = "idle"
    BY DEF IInv, Base, CoreTypes
  <1>2. \A s \in Runs, q \in Procs : HeldBy(q, s)' <=> HeldBy(q, s)
    BY DEF rowVars, HeldBy
  <1>3. \A s \in Runs, q \in Procs : Keeps(q, s)'
    BY <1>1, <1>2, KeepsKept DEF rowVars
  <1> QED BY <1>3 DEF IInv, TypeOK, Kept

\* A step in which nobody begins or ends an execution or a recovery.
LEMMA KeptByOthers ==
    ASSUME IInv, UNCHANGED <<rowVars, exec, rec, lost>>
    PROVE  Kept'
  <1>1. \A s \in Runs, q \in Procs : HeldBy(q, s)' <=> HeldBy(q, s)
    BY DEF rowVars, HeldBy
  <1>2. \A s \in Runs, q \in Procs : Keeps(q, s)'
    BY <1>1, KeepsKept DEF rowVars
  <1> QED BY <1>2 DEF IInv, TypeOK, Kept

LEMMA KeptByClaim ==
    ASSUME IInv, NEW p \in Procs, NEW r \in Runs, claimPendingRun(p, r)
    PROVE  Kept'
  <1>1. /\ rec[p] = NoRun /\ exec[r][p] = "idle" /\ status[r] = "pending" /\ ~Leased(r)
        /\ status' = [status EXCEPT ![r] = "running"] /\ owner' = [owner EXCEPT ![r] = p]
        /\ lease' = [lease EXCEPT ![r] = "live"] /\ exec' = [exec EXCEPT ![r][p] = "loop"]
        /\ UNCHANGED <<rec, lost>>
    BY DEF claimPendingRun
  <1>2. /\ status'[r] = "running" /\ owner'[r] = p /\ lease'[r] = "live" /\ exec'[r][p] = "loop"
        /\ \A s \in Runs : s # r => status'[s] = status[s] /\ owner'[s] = owner[s] /\ lease'[s] = lease[s]
        /\ \A s \in Runs, q \in Procs : (s # r \/ q # p) => exec'[s][q] = exec[s][q]
    BY <1>1 DEF IInv, Base, CoreTypes
  <1>3. Keeps(p, r)'
    BY <1>1, <1>2, ConstantFacts DEF Keeps, HeldBy
  <1>4. ASSUME NEW s \in Runs, NEW q \in Procs, s # r \/ q # p PROVE Keeps(q, s)'
    <2>1. HeldBy(q, s) => HeldBy(q, s)'
      BY <1>1, <1>2, <1>4, ConstantFacts DEF HeldBy, Leased
    <2>2. status[s] = "ended" => status'[s] = "ended"
      BY <1>1, <1>2
    <2> QED BY <1>1, <1>2, <1>4, <2>1, <2>2, KeepsKept
  <1> QED BY <1>1, <1>3, <1>4 DEF IInv, TypeOK, Kept

LEMMA KeptByRecovery ==
    ASSUME IInv, NEW p \in Procs, NEW r \in Runs, claimRunRecovery(p, r)
    PROVE  Kept'
  <1>1. /\ status[r] = "running" /\ ~Leased(r) /\ rec' = [rec EXCEPT ![p] = r]
        /\ owner' = [owner EXCEPT ![r] = p] /\ lease' = [lease EXCEPT ![r] = "live"]
        /\ UNCHANGED <<status, exec, lost>>
    BY DEF claimRunRecovery
  <1>2. \A s \in Runs : s # r => owner'[s] = owner[s] /\ lease'[s] = lease[s]
    BY <1>1 DEF IInv, Base, CoreTypes
  <1>3. rec' \in [Procs -> Runs \cup {NoRun}] /\ rec'[p] = r /\ \A q \in Procs : q # p => rec'[q] = rec[q]
    BY <1>1 DEF IInv, TypeOK
  <1>4. ASSUME NEW s \in Runs, NEW q \in Procs PROVE Keeps(q, s)'
    <2>1. CASE s # r
      <3>1. HeldBy(q, s)' <=> HeldBy(q, s)
        BY <1>2, <2>1 DEF HeldBy
      <3> QED BY <1>1, <1>3, <2>1, <3>1, KeepsKept
    <2>2. CASE s = r
      <3>1. ~HeldBy(q, r)
        BY <1>1, ConstantFacts DEF HeldBy, Leased
      <3>2. Keeps(q, r)
        BY DEF IInv
      <3> QED BY <1>1, <2>2, <3>1, <3>2 DEF Keeps
    <2> QED BY <2>1, <2>2
  <1> QED BY <1>1, <1>3, <1>4 DEF IInv, TypeOK, Kept

\* The recovery gives back a run that no execution of any process has kept.
LEMMA KeptByFinish ==
    ASSUME IInv, NEW p \in Procs, NEW r \in Runs, NEW st \in {"pending", "ended"},
           FinishRecovery(p, r, st)
    PROVE  Kept'
  <1>1. /\ rec[p] = r /\ rec' = [rec EXCEPT ![p] = NoRun] /\ UNCHANGED <<exec, lost>>
    BY DEF FinishRecovery
  <1>2. /\ rec' \in [Procs -> Runs \cup {NoRun}] /\ rec'[p] = NoRun
        /\ \A q \in Procs : q # p => rec'[q] = rec[q]
    BY <1>1 DEF IInv, TypeOK
  <1>3. ASSUME NEW s \in Runs, NEW q \in Procs PROVE Keeps(q, s)'
    <2>0. rec'[q] = s => rec[q] = s
      BY <1>2, ConstantFacts
    <2>1. CASE HeldBy(p, r) /\ status[r] = "running"
      <3>1. \A t \in Runs : t # r => status'[t] = status[t] /\ owner'[t] = owner[t] /\ lease'[t] = lease[t]
        BY <2>1 DEF IInv, Base, CoreTypes, FinishRecovery
      <3>2. CASE s # r
        <4>1. HeldBy(q, s)' <=> HeldBy(q, s)
          BY <3>1, <3>2 DEF HeldBy
        <4> QED BY <1>1, <2>0, <3>1, <3>2, <4>1, KeepsKept
      <3>3. CASE s = r
        <4>1. Keeps(q, r) /\ Keeps(p, r)
          BY DEF IInv
        <4>2. exec[r][q] # "idle" => q \in lost[r]
          BY <1>1, <2>1, <4>1 DEF Keeps, HeldBy
        <4> QED BY <1>1, <3>3, <4>1, <4>2 DEF Keeps
      <3> QED BY <3>2, <3>3
    <2>2. CASE ~(HeldBy(p, r) /\ status[r] = "running")
      <3>1. UNCHANGED <<status, owner, lease>>
        BY <2>2 DEF FinishRecovery, rowVars
      <3>2. HeldBy(q, s)' <=> HeldBy(q, s)
        BY <3>1 DEF HeldBy
      <3> QED BY <1>1, <2>0, <3>1, <3>2, KeepsKept
    <2> QED BY <2>1, <2>2
  <1> QED BY <1>1, <1>2, <1>3 DEF IInv, TypeOK, Kept

LEMMA KeptByExpiry ==
    ASSUME IInv, NEW r \in Runs, expireLease(r)
    PROVE  Kept'
  <1>1. /\ lost' = [lost EXCEPT ![r] = @ \cup {p \in Procs : owner[r] = p /\ exec[r][p] # "idle"}]
        /\ lease' = [lease EXCEPT ![r] = "expired"]
        /\ UNCHANGED <<status, owner, exec, rec>>
    BY DEF expireLease
  <1>2. /\ lost' \in [Runs -> SUBSET Procs]
        /\ \A s \in Runs : s # r => lost'[s] = lost[s] /\ lease'[s] = lease[s]
        /\ \A q \in Procs : q \in lost'[r] <=> q \in lost[r] \/ (owner[r] = q /\ exec[r][q] # "idle")
    BY <1>1 DEF IInv, Base, CoreTypes, TypeOK
  <1>3. ASSUME NEW s \in Runs, NEW q \in Procs PROVE Keeps(q, s)'
    <2>1. CASE s # r
      <3>1. HeldBy(q, s)' <=> HeldBy(q, s)
        BY <1>1, <1>2, <2>1 DEF HeldBy
      <3> QED BY <1>1, <1>2, <2>1, <3>1, KeepsKept
    <2>2. CASE s = r
      <3>1. Keeps(q, r)
        BY DEF IInv
      <3> QED BY <1>1, <1>2, <2>2, <3>1 DEF Keeps, HeldBy
    <2> QED BY <2>1, <2>2
  <1> QED BY <1>1, <1>2, <1>3 DEF IInv, TypeOK, Kept

LEMMA KeptByEnd ==
    ASSUME IInv, NEW p \in Procs, NEW r \in Runs, endExecution(p, r)
    PROVE  Kept'
  <1>1. /\ exec' = [exec EXCEPT ![r][p] = "idle"] /\ lost' = [lost EXCEPT ![r] = @ \ {p}]
        /\ UNCHANGED rec
    BY DEF endExecution
  <1>2. /\ lost' \in [Runs -> SUBSET Procs] /\ p \notin lost'[r] /\ exec'[r][p] = "idle"
        /\ \A s \in Runs, q \in Procs : (s # r \/ q # p) =>
              exec'[s][q] = exec[s][q] /\ (q \in lost'[s] <=> q \in lost[s])
    BY <1>1 DEF IInv, Base, CoreTypes, TypeOK
  <1>3. \A s \in Runs, q \in Procs : (s # r \/ q # p) =>
           /\ HeldBy(q, s) => HeldBy(q, s)'
           /\ status[s] = "ended" => status'[s] = "ended"
    <2>1. CASE HeldBy(p, r)
      <3>1. /\ status' = [status EXCEPT ![r] = "ended"]
            /\ owner' = [owner EXCEPT ![r] = NoProc] /\ lease' = [lease EXCEPT ![r] = "none"]
        BY <2>1 DEF endExecution
      <3> QED BY <2>1, <3>1 DEF IInv, Base, CoreTypes, HeldBy
    <2>2. CASE ~HeldBy(p, r)
      <3>1. UNCHANGED <<status, owner, lease>>
        BY <2>2 DEF endExecution, rowVars
      <3> QED BY <3>1 DEF HeldBy
    <2> QED BY <2>1, <2>2
  <1>4. ASSUME NEW s \in Runs, NEW q \in Procs, s # r \/ q # p PROVE Keeps(q, s)'
    BY <1>1, <1>2, <1>3, <1>4, KeepsKept
  <1>5. Keeps(p, r)'
    BY <1>2 DEF Keeps
  <1> QED BY <1>1, <1>2, <1>4, <1>5 DEF IInv, TypeOK, Kept

LEMMA KeptByStop ==
    ASSUME IInv, NEW r \in Runs, stopAgentRun(r)
    PROVE  Kept'
  <1>1. /\ status' = [status EXCEPT ![r] = "ended"] /\ owner' = [owner EXCEPT ![r] = NoProc]
        /\ lease' = [lease EXCEPT ![r] = "none"] /\ UNCHANGED <<exec, rec, lost>>
    BY DEF stopAgentRun
  <1>2. ASSUME NEW s \in Runs, NEW q \in Procs PROVE Keeps(q, s)'
    <2>1. HeldBy(q, s) => HeldBy(q, s)' \/ status'[s] = "ended"
      BY <1>1 DEF IInv, Base, CoreTypes, HeldBy
    <2>2. status[s] = "ended" => status'[s] = "ended"
      BY <1>1 DEF IInv, Base, CoreTypes
    <2> QED BY <1>1, <2>1, <2>2, KeepsKept
  <1> QED BY <1>1, <1>2 DEF IInv, TypeOK, Kept

LEMMA KeptByCrash ==
    ASSUME IInv, NEW p \in Procs, crash(p)
    PROVE  Kept'
  <1>1. /\ exec' = [r \in Runs |-> [exec[r] EXCEPT ![p] = "idle"]]
        /\ lost' = [r \in Runs |-> lost[r] \ {p}]
        /\ rec' = [rec EXCEPT ![p] = NoRun] /\ UNCHANGED <<status, owner, lease>>
    BY DEF crash, rowVars
  <1>2. /\ \A r \in Runs : exec'[r][p] = "idle" /\ p \notin lost'[r]
        /\ \A r \in Runs, q \in Procs : q # p =>
              exec'[r][q] = exec[r][q] /\ (q \in lost'[r] <=> q \in lost[r])
        /\ lost' \in [Runs -> SUBSET Procs]
    BY <1>1 DEF IInv, Base, CoreTypes, TypeOK
  <1>3. /\ rec' \in [Procs -> Runs \cup {NoRun}]
        /\ \A q \in Procs : q # p => rec'[q] = rec[q]
    BY <1>1 DEF IInv, TypeOK
  <1>4. ASSUME NEW s \in Runs, NEW q \in Procs PROVE Keeps(q, s)'
    <2>1. CASE q = p
      BY <1>2, <2>1 DEF Keeps
    <2>2. CASE q # p
      <3>1. HeldBy(q, s)' <=> HeldBy(q, s)
        BY <1>1 DEF HeldBy
      <3> QED BY <1>1, <1>2, <1>3, <2>2, <3>1, KeepsKept
    <2> QED BY <2>1, <2>2
  <1> QED BY <1>2, <1>3, <1>4 DEF Kept

LEMMA KeptByCapacity ==
    ASSUME IInv, NEW p \in Procs, NEW r \in Runs,
           \/ beginOperation(p, r) \/ acquireRuntimeCapacity(p, r) \/ giveUpCapacity(p, r)
           \/ operation(p, r) \/ releaseRuntimeCapacity(p, r) \/ failRelease(p, r)
    PROVE  Kept'
  <1> DEFINE Goes == \E e \in ExecStates \ {"idle"} : exec' = [exec EXCEPT ![r][p] = e]
  <1>1. exec[r][p] # "idle" /\ UNCHANGED <<rowVars, rec, lost>>
    BY DEF beginOperation, acquireRuntimeCapacity, giveUpCapacity, operation, releaseRuntimeCapacity, failRelease
  <1>2. CASE beginOperation(p, r) \/ giveUpCapacity(p, r) \/ operation(p, r) \/ failRelease(p, r)
    <2>1. Goes
      BY <1>2 DEF beginOperation, giveUpCapacity, operation, failRelease, ExecStates
    <2> QED BY <1>1, <2>1, KeptByExecution
  <1>3. CASE acquireRuntimeCapacity(p, r)
    <2>1. Goes
      BY <1>3 DEF acquireRuntimeCapacity, ExecStates
    <2> QED BY <1>1, <2>1, KeptByExecution
  <1>4. CASE releaseRuntimeCapacity(p, r)
    <2>1. Goes
      BY <1>4 DEF releaseRuntimeCapacity, ExecStates
    <2> QED BY <1>1, <2>1, KeptByExecution
  <1> QED BY <1>2, <1>3, <1>4

-----------------------------------------------------------------------------
(* Invariance *)

LEMMA InitInvariant == Init => IInv
  <1> SUFFICES ASSUME Init PROVE IInv
    OBVIOUS
  <1>1. /\ status \in [Runs -> {"pending", "running", "ended"}]
        /\ owner \in [Runs -> Procs \cup {NoProc}]
        /\ lease \in [Runs -> {"none", "live", "expired"}]
        /\ wait \in [Runs -> Resources \cup {Admission, "none"}]
        /\ exec \in [Runs -> [Procs -> ExecStates]]
        /\ op \in [Runs -> [Procs -> 0..MaxOps]]
        /\ lapses \in 0..MaxLapses /\ faults \in 0..MaxFaults
    BY ConstantFacts DEF Init, ExecStates
  <1>2. alive \in [Procs -> BOOLEAN]
    BY DEF Init
  <1>3. \A r \in Runs : (owner[r] = NoProc) = (lease[r] = "none")
    BY DEF Init
  <1>4. SlotsOK(slots)
    BY FreeSlotType DEF Init, SlotsOK
  <1>5. /\ mine \in [Runs -> [Procs -> Seq(Nat)]]
        /\ \A r \in Runs, p \in Procs : mine[r][p] = <<>> /\ Depth(r, p) = 0
    BY EmptySeq DEF Init, Depth
  <1>6. \A r \in Runs, p \in Procs :
           /\ Depth(r, p) <= Len(Needs[r])
           /\ \A i \in 1..Depth(r, p) : mine[r][p][i] \in 1..Limit[Needs[r][i]]
    BY <1>5, ConstantFacts
  <1>7. CoreTypes
    BY <1>1, <1>2, <1>3, <1>4, <1>5, <1>6, SlotsTypeIntro DEF CoreTypes
  <1>8. EndedFree
    BY DEF Init, EndedFree
  <1>9. ASSUME NEW r \in Runs, NEW p \in Procs
        PROVE  Own(p, r)
    BY <1>5 DEF Init, Own
  <1>10. TypeOK /\ \A r \in Runs, p \in Procs : Keeps(p, r)
    BY <1>7, ConstantFacts DEF Init, TypeOK, Keeps
  <1> QED BY <1>7, <1>8, <1>9, <1>10 DEF IInv, Base

LEMMA NextInvariant == IInv /\ [Next]_vars => IInv'
  <1> SUFFICES ASSUME IInv, [Next]_vars PROVE Base' /\ Kept'
    BY DEF IInv, Base, Kept, TypeOK
  <1>1. ASSUME NEW p \in Procs, NEW r \in Runs, claimPendingRun(p, r) PROVE Base' /\ Kept'
    BY <1>1, ClaimPendingStep, KeptByClaim
  <1>2. ASSUME NEW p \in Procs, NEW r \in Runs, claimRunRecovery(p, r) PROVE Base' /\ Kept'
    BY <1>2, ClaimRecoveryStep, KeptByRecovery
  <1>3. ASSUME NEW p \in Procs, NEW r \in Runs, resumeRecoveredRun(p, r) \/ endRecoveredRun(p, r) PROVE Base' /\ Kept'
    BY <1>3, FinishRecoveryStep, KeptByFinish DEF resumeRecoveredRun, endRecoveredRun
  <1>4. ASSUME NEW p \in Procs, NEW r \in Runs, endExecution(p, r) PROVE Base' /\ Kept'
    BY <1>4, EndExecutionStep, KeptByEnd
  <1>5. ASSUME NEW p \in Procs, NEW r \in Runs, beginOperation(p, r) PROVE Base' /\ Kept'
    BY <1>5, BeginStep, KeptByCapacity
  <1>6. ASSUME NEW p \in Procs, NEW r \in Runs, acquireRuntimeCapacity(p, r) PROVE Base' /\ Kept'
    BY <1>6, AcquireStep, KeptByCapacity
  <1>7. ASSUME NEW p \in Procs, NEW r \in Runs, waitForCapacity(p, r) PROVE Base' /\ Kept'
    BY <1>7, WaitStep, KeptByOthers DEF waitForCapacity
  <1>8. ASSUME NEW p \in Procs, NEW r \in Runs, giveUpCapacity(p, r) PROVE Base' /\ Kept'
    BY <1>8, GiveUpStep, KeptByCapacity
  <1>9. ASSUME NEW p \in Procs, NEW r \in Runs, operation(p, r) PROVE Base' /\ Kept'
    BY <1>9, OperationStep, KeptByCapacity
  <1>10. ASSUME NEW p \in Procs, NEW r \in Runs, releaseRuntimeCapacity(p, r) PROVE Base' /\ Kept'
    BY <1>10, ReleaseCapacityStep, KeptByCapacity
  <1>11. ASSUME NEW p \in Procs, NEW r \in Runs, failRelease(p, r) PROVE Base' /\ Kept'
    BY <1>11, FailReleaseStep, KeptByCapacity
  <1>12. ASSUME NEW r \in Runs, recordPendingRunCapacityWait(r) PROVE Base' /\ Kept'
    BY <1>12, RecordWaitStep, KeptByOthers DEF recordPendingRunCapacityWait
  <1>13. ASSUME NEW r \in Runs, expireLease(r) PROVE Base' /\ Kept'
    BY <1>13, ExpireLeaseStep, KeptByExpiry
  <1>14. ASSUME NEW r \in Runs, stopAgentRun(r) PROVE Base' /\ Kept'
    BY <1>14, StopStep, KeptByStop
  <1>15. ASSUME NEW x \in Resources, NEW n \in 1..Limit[x], expireSlot(x, n) PROVE Base' /\ Kept'
    BY <1>15, ExpireSlotStep, KeptByOthers DEF expireSlot
  <1>16. ASSUME NEW p \in Procs, crash(p) PROVE Base' /\ Kept'
    BY <1>16, CrashStep, KeptByCrash
  <1>17. CASE UNCHANGED vars
    <2> USE <1>17 DEF vars
    <2>1. CoreTypes'
      BY DEF IInv, Base, CoreTypes, Depth
    <2>2. EndedFree'
      BY DEF IInv, Base, EndedFree
    <2>3. ASSUME NEW r \in Runs, NEW p \in Procs PROVE Own(p, r)'
      <3>1. Holds(p, r)' => Holds(p, r) /\ wait'[r] = wait[r]
        BY DEF Holds, HeldBy
      <3>2. \A x \in Resources : \A n \in 1..Limit[x] : Backs(p, r, x, n)' <=> Backs(p, r, x, n)
        BY DEF Backs, Owns
      <3> QED BY <3>1, <3>2, OwnKept
    <2>4. Kept'
      BY KeptByOthers DEF rowVars
    <2> QED BY <2>1, <2>2, <2>3, <2>4 DEF Base
  <1> QED
    BY <1>1, <1>2, <1>3, <1>4, <1>5, <1>6, <1>7, <1>8, <1>9, <1>10, <1>11, <1>12,
       <1>13, <1>14, <1>15, <1>16, <1>17 DEF Next, allSettled

\* What the executions rely on holds in every reachable state.
THEOREM Invariance == Spec => []IInv
  <1>1. Init => IInv
    BY InitInvariant
  <1>2. IInv /\ [Next]_vars => IInv'
    BY NextInvariant
  <1> QED BY <1>1, <1>2, PTL DEF Spec

\* The rows of the slots keep the shape the table's CHECK demands, and an
\* execution never has more slots than its operation needs.
THEOREM TypeCorrect == Spec => []TypeOK
  <1>1. IInv => TypeOK
    BY DEF IInv
  <1> QED BY <1>1, Invariance, PTL

\* As long as no slot lease runs out under its user, the slots of an execution
\* whose run's lease never lapsed are its own rows of runtime_capacity_slots: no
\* reclaim of acquireRuntimeCapacity, late release of releaseRuntimeCapacity,
\* crash, stop or recovery, also of other runs by its own process, takes one away.
THEOREM SlotsAreBacked == Spec => []UsersOwnTheirSlots
  <1>1. IInv => UsersOwnTheirSlots
    <2> SUFFICES ASSUME IInv, lapses = 0, NEW r \in Runs, NEW p \in Procs, NEW x \in Resources,
                        NEW n \in 1..Limit[x], Uses(p, r, x, n)
                 PROVE  Owns(p, r, slots[x][n]) /\ slots[x][n].lease = "live"
      BY DEF UsersOwnTheirSlots
    <2>1. PICK i \in 1..Depth(r, p) : Needs[r][i] = x /\ mine[r][p][i] = n
      BY DEF Uses
    <2>2. Backs(p, r, Needs[r][i], mine[r][p][i])
      BY DEF IInv, Base, Own, Uses
    <2> QED BY <2>1, <2>2 DEF Backs
  <1> QED BY <1>1, Invariance, PTL

\* An execution whose run's lease never lapsed, and that is not asking for a slot, has no
\* active row in run_capacity_waits to hold the other runs back with, although
\* claimRunRecovery and the end of a run leave the rows of dead executions behind.
THEOREM NoWaitIsStale == Spec => []NoStaleWait
  <1>1. IInv => NoStaleWait
    BY DEF IInv, Base, Own, NoStaleWait
  <1> QED BY <1>1, Invariance, PTL

\* Two executions whose runs' leases never lapsed do not work in the same slot: a
\* target serves at most Limit such operations at once.
THEOREM SlotsAreExclusive ==
    Spec => [](lapses = 0 => \A r, s \in Runs, p, q \in Procs, x \in Resources :
                  \A n \in 1..Limit[x] :
                     Uses(p, r, x, n) /\ Uses(q, s, x, n) => r = s /\ p = q)
  <1>1. UsersOwnTheirSlots => (lapses = 0 => \A r, s \in Runs, p, q \in Procs, x \in Resources :
                  \A n \in 1..Limit[x] :
                     Uses(p, r, x, n) /\ Uses(q, s, x, n) => r = s /\ p = q)
    BY DEF UsersOwnTheirSlots, Owns
  <1> QED BY <1>1, SlotsAreBacked, PTL

-----------------------------------------------------------------------------
(* The run's row *)

\* The row this module keeps of a run claims and starts it in one step, and ends it
\* in one; seen as a standing it is the run of RunStanding.
StandingOf(r) ==
    IF status[r] = "ended" THEN "ended"
    ELSE IF Leased(r) THEN "held"
    ELSE IF status[r] = "pending" THEN "free" ELSE "lapsed"

Stand == [r \in Runs |-> StandingOf(r)]
Standing == INSTANCE RunStanding WITH standing <- Stand

\* The row of r alone changes, and r goes where a run may go.
Moves(r) ==
    /\ \A s \in Runs \ {r} : status'[s] = status[s] /\ owner'[s] = owner[s] /\ lease'[s] = lease[s]
    /\ \/ StandingOf(r)' = StandingOf(r)
       \/ StandingOf(r)' \in Standing!After[StandingOf(r)]

LEMMA MovesNext ==
    ASSUME NEW r \in Runs, Moves(r)
    PROVE  [Standing!Next]_Stand
  <1>1. \A s \in Runs \ {r} : StandingOf(s)' = StandingOf(s)
    BY DEF Moves, StandingOf, Leased
  <1>2. CASE StandingOf(r)' = StandingOf(r)
    <2>1. \A s \in Runs : StandingOf(s)' = StandingOf(s)
      BY <1>1, <1>2
    <2> QED BY <2>1 DEF Stand
  <1>3. CASE StandingOf(r)' \in Standing!After[StandingOf(r)]
    <2>1. StandingOf(r) \in Standing!Standings
      BY DEF StandingOf, Standing!Standings
    <2>2. StandingOf(r)' \in Standing!Standings
      BY <1>3, <2>1 DEF Standing!After, Standing!Standings
    <2>3. Stand' = [Stand EXCEPT ![r] = StandingOf(r)']
      BY <1>1 DEF Stand
    <2>4. Standing!Move(r, StandingOf(r)')
      BY <1>3, <2>3 DEF Stand, Standing!Move
    <2> QED BY <2>2, <2>4 DEF Standing!Next
  <1> QED BY <1>2, <1>3 DEF Moves

LEMMA RowsMove ==
    ASSUME TypeOK, [Next]_vars
    PROVE  UNCHANGED rowVars \/ \E r \in Runs : Moves(r)
  <1> DEFINE Goal == UNCHANGED rowVars \/ \E r \in Runs : Moves(r)
  <1> USE DEF rowVars
  <1>0. /\ status \in [Runs -> {"pending", "running", "ended"}]
        /\ owner \in [Runs -> Procs \cup {NoProc}]
        /\ lease \in [Runs -> {"none", "live", "expired"}]
        /\ NoProc \notin Procs
    BY ConstantsAssumption DEF TypeOK, CoreTypes
  <1>a. /\ Standing!After["free"] = {"held", "ended"}
        /\ Standing!After["held"] = {"free", "lapsed", "ended"}
        /\ Standing!After["lapsed"] = {"held", "ended"}
    BY DEF Standing!After, Standing!Standings
  <1>1. ASSUME NEW p \in Procs, NEW r \in Runs, claimPendingRun(p, r) \/ claimRunRecovery(p, r)
        PROVE  Goal
    <2>1. /\ status[r] \in {"pending", "running"} /\ ~Leased(r)
          /\ status' = [status EXCEPT ![r] = "running"]
          /\ owner' = [owner EXCEPT ![r] = p] /\ lease' = [lease EXCEPT ![r] = "live"]
      BY <1>0, <1>1 DEF claimPendingRun, claimRunRecovery
    <2>2. /\ status'[r] = "running" /\ owner'[r] = p /\ lease'[r] = "live"
          /\ \A s \in Runs \ {r} : status'[s] = status[s] /\ owner'[s] = owner[s] /\ lease'[s] = lease[s]
      BY <1>0, <2>1
    <2>3. StandingOf(r) \in {"free", "lapsed"} /\ StandingOf(r)' = "held"
      BY <1>0, <2>1, <2>2 DEF StandingOf, Leased
    <2> QED BY <1>a, <2>2, <2>3 DEF Moves
  <1>2. ASSUME NEW p \in Procs, NEW r \in Runs, resumeRecoveredRun(p, r) \/ endRecoveredRun(p, r) \/ endExecution(p, r)
        PROVE  Goal
    <2>1. CASE UNCHANGED rowVars
      BY <2>1
    <2>2. CASE /\ HeldBy(p, r)
               /\ \E s \in {"pending", "ended"} : status' = [status EXCEPT ![r] = s]
               /\ owner' = [owner EXCEPT ![r] = NoProc] /\ lease' = [lease EXCEPT ![r] = "none"]
      <3>1. /\ Leased(r) /\ status'[r] \in {"pending", "ended"} /\ owner'[r] = NoProc
            /\ \A s \in Runs \ {r} : status'[s] = status[s] /\ owner'[s] = owner[s] /\ lease'[s] = lease[s]
        BY <1>0, <2>2 DEF HeldBy, Leased
      <3>2. \/ StandingOf(r) = "held" /\ StandingOf(r)' \in {"free", "ended"}
            \/ StandingOf(r) = "ended" /\ StandingOf(r)' = "ended"
            \/ status[r] = "ended" /\ status'[r] = "pending"
        BY <3>1 DEF StandingOf, Leased
      <3>3. ~(status[r] = "ended" /\ status'[r] = "pending")
        BY <1>0, <1>2, <2>2 DEF resumeRecoveredRun, endRecoveredRun, FinishRecovery, endExecution, HeldBy
      <3> QED BY <1>a, <3>1, <3>2, <3>3 DEF Moves
    <2> QED BY <1>2, <2>1, <2>2 DEF resumeRecoveredRun, endRecoveredRun, FinishRecovery, endExecution
  <1>3. ASSUME NEW r \in Runs, expireLease(r) PROVE Goal
    <2>1. /\ lease'[r] = "expired" /\ UNCHANGED <<status, owner>> /\ lease[r] = "live"
          /\ \A s \in Runs \ {r} : lease'[s] = lease[s]
      BY <1>0, <1>3 DEF expireLease
    <2>2. \/ StandingOf(r)' = StandingOf(r)
          \/ StandingOf(r) = "held" /\ StandingOf(r)' \in {"free", "lapsed"}
      BY <1>0, <2>1 DEF StandingOf, Leased
    <2> QED BY <1>a, <2>1, <2>2 DEF Moves
  <1>4. ASSUME NEW r \in Runs, stopAgentRun(r) PROVE Goal
    <2>1. /\ status[r] \in {"pending", "running"} /\ status'[r] = "ended"
          /\ \A s \in Runs \ {r} : status'[s] = status[s] /\ owner'[s] = owner[s] /\ lease'[s] = lease[s]
      BY <1>0, <1>4 DEF stopAgentRun, Active
    <2>2. StandingOf(r) \in {"free", "held", "lapsed"} /\ StandingOf(r)' = "ended"
      BY <2>1 DEF StandingOf
    <2>3. StandingOf(r)' \in Standing!After[StandingOf(r)]
      BY <1>a, <2>2
    <2>4. Moves(r)
      BY <2>1, <2>3 DEF Moves
    <2> QED BY <2>4
  <1>5. ASSUME NEW p \in Procs, NEW r \in Runs,
               \/ beginOperation(p, r) \/ acquireRuntimeCapacity(p, r) \/ waitForCapacity(p, r)
               \/ giveUpCapacity(p, r) \/ operation(p, r) \/ releaseRuntimeCapacity(p, r)
               \/ failRelease(p, r)
        PROVE  UNCHANGED rowVars
    BY <1>5 DEF beginOperation, acquireRuntimeCapacity, waitForCapacity, giveUpCapacity, operation,
                releaseRuntimeCapacity, failRelease
  <1>6. ASSUME NEW r \in Runs, recordPendingRunCapacityWait(r) PROVE UNCHANGED rowVars
    BY <1>6 DEF recordPendingRunCapacityWait
  <1>7. ASSUME NEW x \in Resources, NEW n \in 1..Limit[x], expireSlot(x, n) PROVE UNCHANGED rowVars
    BY <1>7 DEF expireSlot
  <1>8. ASSUME NEW p \in Procs, crash(p) PROVE UNCHANGED rowVars
    BY <1>8 DEF crash
  <1>9. ASSUME UNCHANGED vars PROVE UNCHANGED rowVars
    BY <1>9 DEF vars
  <1> HIDE DEF rowVars
  <1> QED BY <1>1, <1>2, <1>3, <1>4, <1>5, <1>6, <1>7, <1>8, <1>9 DEF Next, allSettled

\* The rows of claimPendingRun, claimRunRecovery, resumeRecoveredRun, terminalizeRun
\* and stop, as this module keeps them, make only the moves RunLease makes too
\* (LeasesGiveStanding): no theorem above rests on a row that comes back after its
\* end, or is recovered while it is held or has not begun.
THEOREM RowsStand == Spec => Standing!Spec
  <1>1. Init => Standing!Init
    BY ConstantsAssumption DEF Init, Standing!Init, Stand, StandingOf, Leased
  <1>2. TypeOK /\ [Next]_vars => [Standing!Next]_Stand
    <2> SUFFICES ASSUME TypeOK, [Next]_vars PROVE [Standing!Next]_Stand
      OBVIOUS
    <2>1. CASE UNCHANGED rowVars
      BY <2>1 DEF Stand, StandingOf, Leased, rowVars
    <2>2. ASSUME NEW r \in Runs, Moves(r) PROVE [Standing!Next]_Stand
      BY <2>2, MovesNext
    <2> QED BY <2>1, <2>2, RowsMove
  <1> QED BY <1>1, <1>2, TypeCorrect, PTL DEF Spec, Standing!Spec
=============================================================================
