----------------------- MODULE VerifiedMemory_proofs -----------------------
(***************************************************************************)
(* What holds of verified memory for any items, profiles, thresholds and   *)
(* number of workers, without the bounds of the TLC instances.             *)
(***************************************************************************)
EXTENDS VerifiedMemory, TLAPS

-----------------------------------------------------------------------------
(* The operators the actions are built from *)

\* trust.py and store.reaffirm: a weak ceiling lies between the floor and 1.0.
LEMMA CeilingRange ==
    ASSUME NEW n \in Nat PROVE CeilingFor(n) \in WeakFloor..100
BY MemoryAssumption DEF CeilingFor

\* store.reaffirm: each further weak reaffirmation has a ceiling no higher.
LEMMA CeilingFalls ==
    ASSUME NEW n \in Nat PROVE CeilingFor(n + 1) <= CeilingFor(n)
BY MemoryAssumption DEF CeilingFor

LEMMA FirstCeiling == CeilingFor(0) = 100
BY MemoryAssumption DEF CeilingFor

\* Every id has a known source kind, tier and content.
LEMMA Profiles ==
    ASSUME NEW i \in Item
    PROVE  /\ Profile[i].kind \in Kind
           /\ Profile[i].content \in Content
           /\ TierOf[i] = SOURCE_DEFAULT_TIER[Profile[i].kind]
           /\ TierOf[i] \in Tier
           /\ Profile[i].kind # "operator" <=> TierOf[i] # "T0"
BY MemoryAssumption DEF Claim, TierOf, SOURCE_DEFAULT_TIER, Kind, Tier

\* The row of an item that has none has the columns' defaults.
LEMMA NewRowType == NewRow \in Row
BY MemoryAssumption DEF NewRow, Row, MemoryState, Never

\* What one transaction may write keeps the tables well formed.
Tables == row \in [Item -> Row] /\ lastEntry \in [Item -> LedgerAction]

LEMMA SetStateTables ==
    ASSUME Tables, NEW S, NEW state \in MemoryState, NEW action \in LedgerAction,
           SetState(S, state, action)
    PROVE  Tables'
<1>1. row' \in [Item -> Row]
  BY DEF SetState, Tables, Row
<1>2. lastEntry' \in [Item -> LedgerAction]
  BY DEF SetState, Tables
<1> QED  BY <1>1, <1>2 DEF Tables

LEMMA MarkActiveTables ==
    ASSUME Tables, NEW i \in Item, NEW conf \in Nat, now \in Nat, MarkActive(i, conf)
    PROVE  Tables'
<1>1. row' \in [Item -> Row]
  <2> DEFINE r == [row[i] EXCEPT !.state = "active", !.conf = conf,
                                 !.ceiling = 100, !.reaffirmed = now]
  <2>1. r \in Row
    <3>1. row[i] \in Row
      BY DEF Tables
    <3>2. 100 \in WeakFloor..100
      BY MemoryAssumption
    <3> QED  BY <3>1, <3>2 DEF Row, MemoryState
  <2>2. row' = [row EXCEPT ![i] = r]
    BY DEF MarkActive
  <2> QED  BY <2>1, <2>2 DEF Tables
<1>2. lastEntry' \in [Item -> LedgerAction]
  BY DEF MarkActive, Tables, LedgerAction
<1> QED  BY <1>1, <1>2 DEF Tables

LEMMA InsertTables ==
    ASSUME Tables, NEW i \in Item, now \in Nat,
           NEW state \in MemoryState, NEW action \in LedgerAction,
           Insert(i, state, action)
    PROVE  Tables'
<1>1. row' \in [Item -> Row]
  BY NewRowType DEF Insert, Tables, Row
<1>2. lastEntry' \in [Item -> LedgerAction]
  BY DEF Insert, Tables
<1> QED  BY <1>1, <1>2 DEF Tables

-----------------------------------------------------------------------------
(* Types *)

Jobs == /\ job \in [Agent -> Job]
        /\ \A a \in Agent : job[a].step # "idle" => job[a].item \in Item
Sweeps == sweep \in [phase : Phase, todo : SUBSET Item]
Rest == /\ negatives \subseteq Content
        /\ now \in Nat
        /\ evidence \in [Item -> Nat]
        /\ consent \subseteq Item
        /\ signatures \in [Item -> Nat]
        /\ resubmitted \subseteq Item

LEMMA TypeParts == TypeOK <=> Tables /\ Jobs /\ Sweeps /\ Rest
BY DEF TypeOK, Tables, Jobs, Sweeps, Rest

\* An agent's job may end, or move on to another step on the same item.
LEMMA JobEnds ==
    ASSUME Jobs, NEW a \in Agent, job' = [job EXCEPT ![a] = Idle] PROVE Jobs'
BY DEF Jobs, Job, Idle, Step

LEMMA JobStarts ==
    ASSUME Jobs, Tables, NEW a \in Agent, NEW i \in Item, StartJob(a, i) PROVE Jobs'
<1> DEFINE j == [step |-> IF Rephrases(i) THEN "refuse" ELSE "verify",
                 item |-> i, conf |-> row[i].conf]
<1>1. job' = [job EXCEPT ![a] = j]
  BY DEF StartJob
<1>2. j \in Job /\ j.item \in Item
  <2>1. row[i].conf \in Nat
    BY DEF Tables, Row
  <2> QED  BY <2>1 DEF Job, Step
<1> HIDE DEF j
<1> QED  BY <1>1, <1>2 DEF Jobs

LEMMA JobOfAgent ==
    ASSUME Jobs, NEW a \in Agent, job[a].step # "idle"
    PROVE  job[a].item \in Item /\ job[a].conf \in Nat
BY DEF Jobs, Job

LEMMA ApprovedTypes ==
    ASSUME TypeOK, NEW a \in Agent, Approved(a)
    PROVE  /\ Jobs' /\ Sweeps' /\ Rest'
           /\ job[a].item \in Item /\ job[a].conf \in Nat
<1>0. Jobs /\ Sweeps /\ Rest
  BY TypeParts
<1>1. job[a].item \in Item /\ job[a].conf \in Nat
  BY <1>0, JobOfAgent DEF Approved
<1>2. Jobs'
  BY <1>0, JobEnds DEF Approved
<1>3. Sweeps'
  BY <1>0 DEF Approved, Sweeps
<1>4. Rest'
  BY <1>0, <1>1 DEF Approved, Rest
<1> QED  BY <1>1, <1>2, <1>3, <1>4

LEMMA EnterSweeps ==
    ASSUME NEW phase \in Phase, NEW todo \in SUBSET Item, Enter(phase, todo)
    PROVE  Sweeps'
BY DEF Enter, Sweeps

LEMMA DoneSweeps ==
    ASSUME Sweeps, NEW i, Done(i) PROVE Sweeps'
BY DEF Done, Enter, Sweeps

LEMMA InStateItems == ASSUME NEW s PROVE InState(s) \in SUBSET Item
BY DEF InState

\* Each action that only moves rows of a set, and may end a job.
LEMMA MoveTypes ==
    ASSUME TypeOK, NEW S, NEW state \in MemoryState, NEW action \in LedgerAction,
           SetState(S, state, action), Jobs', Sweeps', Rest'
    PROVE  TypeOK'
<1>1. Tables
  BY TypeParts
<1>2. Tables'
  BY <1>1, SetStateTables
<1> QED  BY <1>2 DEF TypeOK, Tables, Jobs, Sweeps, Rest

LEMMA Composed ==
    ASSUME Tables', Jobs', Sweeps', Rest' PROVE TypeOK'
BY DEF TypeOK, Tables, Jobs, Sweeps, Rest

\* Nothing a job or the pass needs changes.
LEMMA KeepTypes ==
    ASSUME TypeOK
    PROVE  /\ UNCHANGED <<row, lastEntry>> => Tables'
           /\ UNCHANGED job => Jobs'
           /\ UNCHANGED sweep => Sweeps'
           /\ UNCHANGED <<negatives, now, history>> => Rest'
BY TypeParts DEF Tables, Jobs, Sweeps, Rest, history

LEMMA PipelineTypes ==
    ASSUME TypeOK, Pipeline PROVE TypeOK'
<1> USE DEF MemoryState, LedgerAction
<1>0. Tables /\ Jobs /\ Sweeps /\ Rest
  BY TypeParts
<1>1. ASSUME NEW i \in Item, Propose(i) PROVE TypeOK'
  <2>1. Tables'
    BY <1>0, <1>1, InsertTables DEF Propose, Rest
  <2>2. Jobs' /\ Sweeps'
    BY <1>1, KeepTypes DEF Propose
  <2>3. Rest'
    BY <1>0, <1>1 DEF Propose, Rest
  <2> QED  BY <2>1, <2>2, <2>3, Composed
<1>2. ASSUME NEW i \in Item, Approve(i) PROVE TypeOK'
  <2>0. row[i].conf \in Nat /\ now \in Nat
    BY <1>0 DEF Tables, Row, Rest
  <2>1. Tables'
    BY <1>0, <1>2, <2>0, MarkActiveTables DEF Approve
  <2>2. Jobs' /\ Sweeps'
    BY <1>2, KeepTypes DEF Approve
  <2>3. Rest'
    BY <1>0, <1>2 DEF Approve, Rest
  <2> QED  BY <2>1, <2>2, <2>3, Composed
<1>3. ASSUME NEW w \in Worker, NEW i \in Item, ProcessOne(w, i) PROVE TypeOK'
  <2>1. Jobs'
    BY <1>0, <1>3, JobStarts DEF ProcessOne, Agent
  <2>2. Tables' /\ Sweeps' /\ Rest'
    BY <1>3, KeepTypes DEF ProcessOne
  <2> QED  BY <2>1, <2>2, Composed
<1>4. ASSUME NEW a \in Agent, Refuse(a) PROVE TypeOK'
  <2>1. Jobs'
    BY <1>0, <1>4, JobEnds DEF Refuse
  <2>2. Sweeps' /\ Rest'
    BY <1>4, KeepTypes DEF Refuse
  <2> QED  BY <1>4, <2>1, <2>2, MoveTypes DEF Refuse
<1>5. ASSUME NEW a \in Agent, Reject(a) PROVE TypeOK'
  <2>1. Jobs'
    <3>1. job[a].item \in Item
      BY <1>0, <1>5, JobOfAgent DEF Reject
    <3> QED  BY <1>0, <1>5, <3>1 DEF Reject, Jobs, Job, Step
  <2>2. Sweeps' /\ Rest'
    BY <1>5, KeepTypes DEF Reject
  <2> QED  BY <1>5, <2>1, <2>2, MoveTypes DEF Reject
<1>6. ASSUME NEW a \in Agent, Remember(a) PROVE TypeOK'
  <2>1. Jobs'
    BY <1>0, <1>6, JobEnds DEF Remember
  <2>2. Tables' /\ Sweeps'
    BY <1>6, KeepTypes DEF Remember
  <2>3. Rest'
    <3>1. job[a].item \in Item
      BY <1>0, <1>6, JobOfAgent DEF Remember
    <3>2. Profile[job[a].item].content \in Content
      BY <3>1, Profiles
    <3> QED  BY <1>0, <1>6, <3>2 DEF Remember, Rest, history
  <2> QED  BY <2>1, <2>2, <2>3, Composed
<1>7. ASSUME NEW a \in Agent, Promote(a) PROVE TypeOK'
  <2>1. Approved(a)
    BY <1>7 DEF Promote
  <2>2. Jobs' /\ Sweeps' /\ Rest' /\ job[a].item \in Item /\ job[a].conf \in Nat
    BY <2>1, ApprovedTypes
  <2>3. Tables'
    <3>1. now \in Nat
      BY <1>0 DEF Rest
    <3>2. CASE MarkActive(job[a].item, 1)
      BY <1>0, <2>2, <3>1, <3>2, MarkActiveTables
    <3>3. CASE MarkActive(job[a].item, job[a].conf + 1)
      <4>1. job[a].conf + 1 \in Nat
        BY <2>2
      <4> QED  BY <1>0, <2>2, <3>1, <3>3, <4>1, MarkActiveTables
    <3> QED  BY <1>7, <3>2, <3>3 DEF Promote
  <2> QED  BY <2>2, <2>3, Composed
<1>8. ASSUME NEW a \in Agent, Confirm(a) PROVE TypeOK'
  <2>1. Approved(a)
    BY <1>8 DEF Confirm
  <2>2. Jobs' /\ Sweeps' /\ Rest' /\ job[a].item \in Item
    BY <2>1, ApprovedTypes
  <2>3. Tables'
    <3>1. now + TTL \in Nat
      BY <1>0, MemoryAssumption DEF Rest
    <3>2. row' = [row EXCEPT ![job[a].item].conf = @ + 1,
                             ![job[a].item].expires = now + TTL]
      BY <1>8 DEF Confirm
    <3>3. UNCHANGED lastEntry
      BY <1>8 DEF Confirm
    <3>4. row \in [Item -> Row] /\ lastEntry \in [Item -> LedgerAction]
      BY <1>0 DEF Tables
    <3>5. row[job[a].item] \in Row
      BY <2>2, <3>4
    <3>6. row[job[a].item].conf + 1 \in Nat
      BY <3>5 DEF Row
    <3> DEFINE r == [row[job[a].item] EXCEPT !.conf = row[job[a].item].conf + 1,
                                             !.expires = now + TTL]
    <3>7. r \in Row
      BY <3>1, <3>5, <3>6 DEF Row
    <3>8. row' = [row EXCEPT ![job[a].item] = r]
      BY <2>2, <3>2, <3>4
    <3> QED  BY <3>3, <3>4, <3>7, <3>8 DEF Tables
  <2> QED  BY <2>2, <2>3, Composed
<1>9. ASSUME NEW a \in Agent, Hold(a) PROVE TypeOK'
  <2>1. Jobs' /\ Sweeps' /\ Rest'
    BY <1>9, ApprovedTypes DEF Hold
  <2>2. Tables'
    BY <1>9, KeepTypes DEF Hold
  <2> QED  BY <2>1, <2>2, Composed
<1>10. ASSUME NEW a \in Agent, Crash(a) PROVE TypeOK'
  <2>1. Jobs'
    BY <1>0, <1>10, JobEnds DEF Crash
  <2>2. Sweeps'
    BY <1>0, <1>10 DEF Crash, Sweeps, Off, Phase
  <2>3. Tables' /\ Rest'
    BY <1>10, KeepTypes DEF Crash
  <2> QED  BY <2>1, <2>2, <2>3, Composed
<1> QED  BY <1>1, <1>2, <1>3, <1>4, <1>5, <1>6, <1>7, <1>8, <1>9, <1>10 DEF Pipeline

LEMMA PeopleTypes ==
    ASSUME TypeOK, People PROVE TypeOK'
<1> USE DEF MemoryState, LedgerAction
<1>0. Tables /\ Jobs /\ Sweeps /\ Rest
  BY TypeParts
<1>1. ASSUME NEW s \in Source, Revoke(s) PROVE TypeOK'
  <2>1. Jobs' /\ Sweeps' /\ Rest'
    BY <1>1, KeepTypes DEF Revoke
  <2> QED  BY <1>1, <2>1, MoveTypes DEF Revoke
<1>2. ASSUME NEW i \in Item, NEW signal \in {"weak", "strong"}, Reaffirm(i, signal)
      PROVE  TypeOK'
  <2> DEFINE applied == IF signal = "strong" THEN 100 ELSE CeilingFor(row[i].count + 1)
  <2>1. row[i] \in Row /\ now \in Nat
    BY <1>0 DEF Tables, Rest
  <2>2. row[i].count + 1 \in Nat
    BY <2>1 DEF Row
  <2>3. applied \in WeakFloor..100
    BY <2>2, CeilingRange, MemoryAssumption
  <2>4. row' = [row EXCEPT ![i].ceiling = applied, ![i].reaffirmed = now,
                           ![i].count = @ + 1]
    BY <1>2 DEF Reaffirm
  <2> HIDE DEF applied
  <2>5. row' \in [Item -> Row]
    BY <1>0, <2>1, <2>2, <2>3, <2>4 DEF Tables, Row
  <2>6. Tables'
    BY <1>0, <1>2, <2>5 DEF Reaffirm, Tables
  <2>7. Jobs' /\ Sweeps' /\ Rest'
    BY <1>2, KeepTypes DEF Reaffirm
  <2> QED  BY <2>6, <2>7, Composed
<1>3. ASSUME NEW i \in Item, StageT0(i) PROVE TypeOK'
  <2>1. Tables'
    BY <1>0, <1>3, InsertTables DEF StageT0, Rest
  <2>2. Jobs' /\ Sweeps'
    BY <1>3, KeepTypes DEF StageT0
  <2>3. Rest'
    BY <1>0, <1>3 DEF StageT0, Rest
  <2> QED  BY <2>1, <2>2, <2>3, Composed
<1>4. ASSUME NEW i \in Item, ActivateT0(i) PROVE TypeOK'
  <2>1. Tables'
    <3>1. now \in Nat /\ row[i] \in Row
      BY <1>0 DEF Tables, Rest
    <3>2. [row[i] EXCEPT !.state = "active", !.reaffirmed = now] \in Row
      BY <3>1 DEF Row
    <3>3. row' \in [Item -> Row]
      BY <1>0, <1>4, <3>2 DEF ActivateT0, Tables
    <3> QED  BY <1>0, <1>4, <3>3 DEF ActivateT0, Tables
  <2>2. Jobs' /\ Sweeps'
    BY <1>4, KeepTypes DEF ActivateT0
  <2>3. Rest'
    BY <1>0, <1>4 DEF ActivateT0, Rest
  <2> QED  BY <2>1, <2>2, <2>3, Composed
<1> QED  BY <1>1, <1>2, <1>3, <1>4 DEF People

LEMMA ConsolidateTypes ==
    ASSUME TypeOK, Consolidate PROVE TypeOK'
<1> USE DEF MemoryState, LedgerAction
<1>0. Tables /\ Jobs /\ Sweeps /\ Rest
  BY TypeParts
<1>1. ASSUME NEW phase \in Phase, NEW todo \in SUBSET Item, Enter(phase, todo),
             UNCHANGED <<row, lastEntry, negatives, job, now, history>>
      PROVE  TypeOK'
  <2>1. Sweeps'
    BY <1>1, EnterSweeps
  <2>2. Tables' /\ Jobs' /\ Rest'
    BY <1>1, KeepTypes
  <2> QED  BY <2>1, <2>2, Composed
<1>2. SweepStart => TypeOK'
  BY <1>1, InStateItems DEF SweepStart, Phase
<1>3. SweepProcessed => TypeOK'
  BY <1>1 DEF SweepProcessed, Phase
<1>4. SweepDemoted => TypeOK'
  BY <1>1 DEF SweepDemoted, Phase
<1>5. SweepMerged => TypeOK'
  BY <1>1 DEF SweepMerged, Phase
<1>6. SweepScore => TypeOK'
  <2>1. {i \in InState("active") : Decayed(i)} \in SUBSET Item
    BY InStateItems
  <2> QED  BY <1>1, <2>1 DEF SweepScore, Phase
<1>7. SweepCompare => TypeOK'
  <2>1. ASSUME NEW K PROVE InState("active") \ K \in SUBSET Item
    BY InStateItems
  <2> QED  BY <1>1, <2>1 DEF SweepCompare, Phase
<1>8. ASSUME SweepExpire PROVE TypeOK'
  <2>1. Jobs' /\ Rest'
    BY <1>8, KeepTypes DEF SweepExpire
  <2>2. Sweeps'
    BY <1>8, EnterSweeps DEF SweepExpire, Phase
  <2> QED  BY <1>8, <2>1, <2>2, MoveTypes DEF SweepExpire
<1>9. ASSUME NEW i \in Item, SweepProcess(i) PROVE TypeOK'
  <2>1. Jobs'
    BY <1>0, <1>9, JobStarts, KeepTypes DEF SweepProcess, Agent
  <2>2. Sweeps'
    BY <1>0, <1>9, DoneSweeps DEF SweepProcess
  <2>3. Tables' /\ Rest'
    BY <1>9, KeepTypes DEF SweepProcess
  <2> QED  BY <2>1, <2>2, <2>3, Composed
<1>10. ASSUME NEW i \in Item, SweepDemote(i) PROVE TypeOK'
  <2>1. Jobs' /\ Rest'
    BY <1>10, KeepTypes DEF SweepDemote
  <2>2. Sweeps'
    BY <1>0, <1>10, DoneSweeps DEF SweepDemote
  <2> QED  BY <1>10, <2>1, <2>2, MoveTypes DEF SweepDemote
<1>11. ASSUME NEW i \in Item, SweepMerge(i) PROVE TypeOK'
  <2>1. Jobs' /\ Rest'
    BY <1>11, KeepTypes DEF SweepMerge
  <2>2. Sweeps'
    BY <1>0, <1>11, DoneSweeps DEF SweepMerge
  <2> QED  BY <1>11, <2>1, <2>2, MoveTypes DEF SweepMerge
<1> QED  BY <1>2, <1>3, <1>4, <1>5, <1>6, <1>7, <1>8, <1>9, <1>10, <1>11 DEF Consolidate

LEMMA InitTypes == Init => TypeOK
<1> SUFFICES ASSUME Init PROVE TypeOK
  OBVIOUS
<1>1. Tables
  BY NewRowType DEF Init, Tables, LedgerAction
<1>2. Jobs
  BY DEF Init, Jobs, Job, Idle, Step
<1>3. Sweeps /\ Rest
  BY DEF Init, Sweeps, Rest, Off, Phase
<1> QED  BY <1>1, <1>2, <1>3, TypeParts

LEMMA NextTypes ==
    ASSUME TypeOK, [Next]_vars PROVE TypeOK'
<1>1. CASE Tick
  <2>1. Tables' /\ Jobs' /\ Sweeps'
    BY <1>1, KeepTypes DEF Tick
  <2>2. Rest'
    BY <1>1, TypeParts DEF Tick, Rest, history
  <2> QED  BY <2>1, <2>2, Composed
<1>2. CASE UNCHANGED vars
  BY <1>2, KeepTypes, Composed DEF vars
<1> QED  BY <1>1, <1>2, PipelineTypes, PeopleTypes, ConsolidateTypes DEF Next

\* Whatever the interleaving, every row, job and worklist is well formed: in
\* particular a weak ceiling never leaves the range from its floor to 1.0.
THEOREM TypeCorrect == Spec => []TypeOK
BY InitTypes, NextTypes, PTL DEF Spec

-----------------------------------------------------------------------------
(* The inductive invariant.  That an active item has sufficient grounds is   *)
(* not inductive: a promotion counts on confirmations read before an await,  *)
(* and a demoted or staged item comes back through "pending" or "t0_staged". *)
(* Hence what a row, a job and the demotion list guarantee on the way.       *)

Refused(i) == <<Profile[i].content, Profile[i].kind>> \in RuleRejects

Sound(i) ==
    /\ row[i].state = StateAfter(lastEntry[i])
    /\ row[i].conf <= evidence[i]
    /\ row[i].state = "pending" => TierOf[i] # "T0"
    /\ row[i].state = "t0_staged" => TierOf[i] = "T0" /\ signatures[i] >= 1
    /\ row[i].state = "active" => Gate!Sufficient(i)
    /\ row[i].state = "active" /\ Refused(i) => i \in consent \/ TierOf[i] = "T0"
    /\ CeilingFor(row[i].count) <= row[i].ceiling

JobBacked(a) == job[a].step # "idle" => job[a].conf <= evidence[job[a].item]

DemotesNoT0 == sweep.phase = "demote" => \A i \in sweep.todo : TierOf[i] # "T0"

Inv == /\ TypeOK
       /\ \A i \in Item : Sound(i)
       /\ \A a \in Agent : JobBacked(a)
       /\ DemotesNoT0

\* Grounds only grow: an item nobody writes stays sound.
GroundsGrow == /\ \A i \in Item : evidence[i] <= evidence'[i]
               /\ \A i \in Item : signatures[i] <= signatures'[i]
               /\ consent \subseteq consent'

LEMMA Untouched ==
    ASSUME TypeOK, TypeOK', GroundsGrow, NEW i \in Item, Sound(i),
           row'[i] = row[i], lastEntry'[i] = lastEntry[i]
    PROVE  Sound(i)'
<1>1. /\ evidence[i] \in Nat /\ evidence'[i] \in Nat
      /\ signatures[i] \in Nat /\ signatures'[i] \in Nat
      /\ row[i].conf \in Nat
  BY TypeParts DEF TypeOK, Row
<1>2. Gate!Sufficient(i) => Gate!Sufficient(i)'
  BY <1>1, MemoryAssumption DEF Gate!Sufficient, GroundsGrow
<1>3. CeilingFor(row[i].count)' = CeilingFor(row[i].count)
  BY DEF CeilingFor
<1> QED  BY <1>1, <1>2, <1>3 DEF Sound, GroundsGrow, StateAfter

\* An item taken out of memory is sound; so is one sent back to quarantine.
LEMMA Moved ==
    ASSUME TypeOK, TypeOK', UNCHANGED <<evidence, consent, signatures>>,
           NEW S, NEW state, NEW action, SetState(S, state, action),
           StateAfter(action) = state, state \notin {"active", "t0_staged"},
           \A i \in S \cap Item : state = "pending" => TierOf[i] # "T0",
           \A i \in Item : Sound(i)
    PROVE  \A i \in Item : Sound(i)'
<1> SUFFICES ASSUME NEW i \in Item PROVE Sound(i)'
  OBVIOUS
<1>0. GroundsGrow
  BY DEF GroundsGrow, TypeOK
<1>1. CASE i \notin S
  BY <1>0, <1>1, Untouched DEF SetState
<1>2. CASE i \in S
  <2>1. row[i] \in Row
    BY DEF TypeOK
  <2>2. row'[i] = [row[i] EXCEPT !.state = state] /\ lastEntry'[i] = action
    BY <1>2 DEF SetState
  <2>3. /\ row'[i].state = state /\ row'[i].conf = row[i].conf
        /\ row'[i].count = row[i].count /\ row'[i].ceiling = row[i].ceiling
    BY <2>1, <2>2 DEF Row
  <2>4. CeilingFor(row[i].count)' = CeilingFor(row[i].count)
    BY <2>3 DEF CeilingFor
  <2> QED  BY <1>2, <2>2, <2>3, <2>4 DEF Sound, StateAfter
<1> QED  BY <1>1, <1>2

\* An item made active on sufficient grounds is sound, its conf being backed.
LEMMA Activated ==
    ASSUME TypeOK, TypeOK', GroundsGrow, NEW i \in Item, NEW conf \in Nat,
           MarkActive(i, conf), conf <= evidence'[i], Gate!Sufficient(i)',
           Refused(i) => i \in consent' \/ TierOf[i] = "T0",
           \A k \in Item : Sound(k)
    PROVE  \A k \in Item : Sound(k)'
<1> SUFFICES ASSUME NEW k \in Item PROVE Sound(k)'
  OBVIOUS
<1>1. CASE k # i
  <2>1. row'[k] = row[k] /\ lastEntry'[k] = lastEntry[k]
    BY <1>1 DEF MarkActive, TypeOK
  <2> QED  BY <2>1, Untouched
<1>2. CASE k = i
  <2>1. row[i] \in Row
    BY DEF TypeOK
  <2>2. row'[i] = [row[i] EXCEPT !.state = "active", !.conf = conf,
                                 !.ceiling = 100, !.reaffirmed = now]
    BY DEF MarkActive, TypeOK
  <2>3. lastEntry'[i] = "promote"
    BY DEF MarkActive, TypeOK
  <2>4. /\ row'[i].state = "active" /\ row'[i].conf = conf
        /\ row'[i].count = row[i].count /\ row'[i].ceiling = 100
        /\ row[i].count \in Nat
    BY <2>1, <2>2 DEF Row
  <2>5. CeilingFor(row[i].count)' <= 100
    BY <2>4, MemoryAssumption DEF CeilingFor
  <2> QED  BY <1>2, <2>3, <2>4, <2>5 DEF Sound, StateAfter, Refused
<1> QED  BY <1>1, <1>2

\* A new row is sound in quarantine, or staged with a signature.
LEMMA Inserted ==
    ASSUME TypeOK, TypeOK', GroundsGrow, NEW i \in Item,
           NEW state, NEW action, Insert(i, state, action), StateAfter(action) = state,
           \/ state = "pending" /\ TierOf[i] # "T0"
           \/ state = "t0_staged" /\ TierOf[i] = "T0" /\ signatures'[i] >= 1,
           \A k \in Item : Sound(k)
    PROVE  \A k \in Item : Sound(k)'
<1> SUFFICES ASSUME NEW k \in Item PROVE Sound(k)'
  OBVIOUS
<1>1. CASE k # i
  BY <1>1, Untouched DEF Insert, TypeOK
<1>2. CASE k = i
  <2>1. /\ row'[i] = [NewRow EXCEPT !.state = state, !.born = now]
        /\ lastEntry'[i] = action
    BY DEF Insert, TypeOK
  <2>2. /\ row'[i].state = state /\ row'[i].conf = 0
        /\ row'[i].count = 0 /\ row'[i].ceiling = 100
    BY <2>1 DEF NewRow
  <2>3. CeilingFor(row'[i].count) <= 100
    BY <2>2, FirstCeiling
  <2>4. (CeilingFor(row[i].count) <= row[i].ceiling)'
    BY <2>2, <2>3 DEF CeilingFor
  <2>5. 0 <= evidence'[i]
    BY DEF TypeOK
  <2> QED  BY <1>2, <2>1, <2>2, <2>4, <2>5 DEF Sound, StateAfter
<1> QED  BY <1>1, <1>2

\* Rows and ledger left alone.
LEMMA Unmoved ==
    ASSUME TypeOK, TypeOK', GroundsGrow, UNCHANGED <<row, lastEntry>>,
           \A k \in Item : Sound(k)
    PROVE  \A k \in Item : Sound(k)'
BY Untouched

LEMMA SameGrounds ==
    ASSUME TypeOK, UNCHANGED <<evidence, consent, signatures>> PROVE GroundsGrow
BY DEF TypeOK, GroundsGrow

\* What jobs have read stays backed, whoever's job ends or moves on.
LEMMA JobsKept ==
    ASSUME TypeOK, TypeOK', GroundsGrow, \A a \in Agent : JobBacked(a),
           \A a \in Agent : \/ job'[a] = job[a]
                            \/ job'[a].step = "idle"
                            \/ /\ job[a].step # "idle"
                               /\ job'[a].item = job[a].item /\ job'[a].conf = job[a].conf
    PROVE  \A a \in Agent : JobBacked(a)'
<1> SUFFICES ASSUME NEW a \in Agent, job'[a].step # "idle"
             PROVE  job'[a].conf <= evidence'[job'[a].item]
  BY DEF JobBacked
<1>1. /\ job[a].step # "idle" /\ job'[a].item = job[a].item
      /\ job'[a].conf = job[a].conf
  OBVIOUS
<1>2. job[a].item \in Item /\ job[a].conf \in Nat
  BY <1>1 DEF TypeOK, Job
<1>3. /\ job[a].conf <= evidence[job[a].item]
      /\ evidence[job[a].item] <= evidence'[job[a].item]
  BY <1>1, <1>2 DEF JobBacked, GroundsGrow
<1> QED  BY <1>1, <1>2, <1>3 DEF TypeOK

LEMMA JobBegun ==
    ASSUME TypeOK, TypeOK', GroundsGrow, NEW b \in Agent, NEW i \in Item,
           StartJob(b, i), \A a \in Agent : JobBacked(a), Sound(i)
    PROVE  \A a \in Agent : JobBacked(a)'
<1> SUFFICES ASSUME NEW a \in Agent, job'[a].step # "idle"
             PROVE  job'[a].conf <= evidence'[job'[a].item]
  BY DEF JobBacked
<1>1. CASE a # b
  <2>1. job'[a] = job[a]
    BY <1>1 DEF StartJob, TypeOK
  <2>2. job[a].item \in Item /\ job[a].conf \in Nat
    BY <2>1 DEF TypeOK, Job
  <2>3. /\ job[a].conf <= evidence[job[a].item]
        /\ evidence[job[a].item] <= evidence'[job[a].item]
    BY <2>1, <2>2 DEF JobBacked, GroundsGrow
  <2> QED  BY <2>1, <2>2, <2>3 DEF TypeOK
<1>2. CASE a = b
  <2>1. job'[a].item = i /\ job'[a].conf = row[i].conf
    BY <1>2 DEF StartJob, TypeOK
  <2>2. row[i].conf <= evidence[i] /\ evidence[i] <= evidence'[i]
    BY DEF Sound, GroundsGrow
  <2>3. row[i].conf \in Nat /\ evidence[i] \in Nat /\ evidence'[i] \in Nat
    BY DEF TypeOK, Row
  <2> QED  BY <2>1, <2>2, <2>3
<1> QED  BY <1>1, <1>2

\* One approving verdict more, on the item of a's job.
LEMMA Verdict ==
    ASSUME Inv, TypeOK', NEW a \in Agent, Approved(a)
    PROVE  /\ GroundsGrow
           /\ \A b \in Agent : JobBacked(b)'
           /\ DemotesNoT0'
           /\ job[a].item \in Item /\ job[a].conf \in Nat
           /\ evidence'[job[a].item] = evidence[job[a].item] + 1
           /\ job[a].conf + 1 <= evidence'[job[a].item]
           /\ ~Refused(job[a].item)
<1> DEFINE i == job[a].item
<1>1. TypeOK
  BY DEF Inv
<1>2. i \in Item /\ job[a].conf \in Nat
  BY <1>1 DEF Approved, TypeOK, Job
<1>3. evidence' = [evidence EXCEPT ![i] = @ + 1] /\ UNCHANGED <<consent, signatures, sweep>>
  BY DEF Approved
<1>4. GroundsGrow
  BY <1>1, <1>2, <1>3 DEF GroundsGrow, TypeOK
<1>5. evidence'[i] = evidence[i] + 1
  BY <1>1, <1>2, <1>3 DEF TypeOK
<1>6. job[a].conf <= evidence[i]
  BY <1>1 DEF Inv, JobBacked, Approved
<1>7. job[a].conf + 1 <= evidence'[i]
  BY <1>1, <1>2, <1>5, <1>6 DEF TypeOK
<1>8. \A b \in Agent : JobBacked(b)'
  <2>1. \A b \in Agent : job'[b] = job[b] \/ job'[b].step = "idle"
    BY <1>1 DEF Approved, TypeOK, Idle
  <2> QED  BY <1>1, <1>4, <2>1, JobsKept DEF Inv
<1>9. DemotesNoT0'
  BY <1>3 DEF Inv, DemotesNoT0
<1>10. ~Refused(i)
  BY DEF Approved, Approvable, Refused
<1> QED  BY <1>2, <1>4, <1>5, <1>7, <1>8, <1>9, <1>10

-----------------------------------------------------------------------------
(* Each action keeps the invariant *)

LEMMA PipelineKeepsInv ==
    ASSUME Inv, TypeOK', Pipeline PROVE Inv'
<1>0. TypeOK /\ (\A k \in Item : Sound(k)) /\ (\A b \in Agent : JobBacked(b)) /\ DemotesNoT0
  BY DEF Inv
<1>1. ASSUME NEW i \in Item, Propose(i) PROVE Inv'
  <2>1. GroundsGrow
    BY <1>0, <1>1, SameGrounds DEF Propose
  <2>2. TierOf[i] # "T0"
    BY <1>1, Profiles DEF Propose
  <2>3. \A k \in Item : Sound(k)'
    BY <1>0, <1>1, <2>1, <2>2, Inserted DEF Propose, StateAfter
  <2>4. (\A b \in Agent : JobBacked(b)') /\ DemotesNoT0'
    BY <1>0, <1>1, <2>1, JobsKept DEF Propose, DemotesNoT0
  <2> QED  BY <2>3, <2>4 DEF Inv
<1>2. ASSUME NEW i \in Item, Approve(i) PROVE Inv'
  <2>1. GroundsGrow
    BY <1>0, <1>2 DEF Approve, GroundsGrow, TypeOK
  <2>2. TierOf[i] # "T0" /\ i \in consent' /\ row[i].conf <= evidence'[i] /\ row[i].conf \in Nat
    BY <1>0, <1>2 DEF Approve, Sound, TypeOK, Row
  <2>3. Gate!Sufficient(i)'
    BY <2>2 DEF Gate!Sufficient
  <2>4. \A k \in Item : Sound(k)'
    BY <1>0, <1>2, <2>1, <2>2, <2>3, Activated DEF Approve
  <2>5. (\A b \in Agent : JobBacked(b)') /\ DemotesNoT0'
    BY <1>0, <1>2, <2>1, JobsKept DEF Approve, DemotesNoT0
  <2> QED  BY <2>4, <2>5 DEF Inv
<1>3. ASSUME NEW w \in Worker, NEW i \in Item, ProcessOne(w, i) PROVE Inv'
  <2>1. GroundsGrow
    BY <1>0, <1>3, SameGrounds DEF ProcessOne, history
  <2>2. \A k \in Item : Sound(k)'
    BY <1>0, <1>3, <2>1, Unmoved DEF ProcessOne
  <2>3. \A b \in Agent : JobBacked(b)'
    BY <1>0, <1>3, <2>1, JobBegun DEF ProcessOne, Agent
  <2>4. DemotesNoT0'
    BY <1>0, <1>3 DEF ProcessOne, DemotesNoT0
  <2> QED  BY <2>2, <2>3, <2>4 DEF Inv
<1>4. ASSUME NEW a \in Agent, Refuse(a) \/ Reject(a) PROVE Inv'
  <2>1. UNCHANGED <<evidence, consent, signatures, sweep>>
    BY <1>4 DEF Refuse, Reject, history
  <2>2. GroundsGrow
    BY <1>0, <2>1, SameGrounds
  <2>3. SetState({job[a].item}, "rejected", "reject")
    BY <1>4 DEF Refuse, Reject
  <2>4. \A k \in Item : Sound(k)'
    BY <1>0, <2>1, <2>3, Moved DEF StateAfter
  <2>5. \A b \in Agent :
           \/ job'[b] = job[b] \/ job'[b].step = "idle"
           \/ /\ job[b].step # "idle"
              /\ job'[b].item = job[b].item /\ job'[b].conf = job[b].conf
    BY <1>0, <1>4 DEF Refuse, Reject, TypeOK, Job, Idle
  <2>6. (\A b \in Agent : JobBacked(b)') /\ DemotesNoT0'
    BY <1>0, <2>1, <2>2, <2>5, JobsKept DEF DemotesNoT0
  <2> QED  BY <2>4, <2>6 DEF Inv
<1>5. ASSUME NEW a \in Agent, Remember(a) PROVE Inv'
  <2>1. GroundsGrow
    BY <1>0, <1>5, SameGrounds DEF Remember, history
  <2>2. \A k \in Item : Sound(k)'
    BY <1>0, <1>5, <2>1, Unmoved DEF Remember
  <2>3. \A b \in Agent : job'[b] = job[b] \/ job'[b].step = "idle"
    BY <1>0, <1>5 DEF Remember, TypeOK, Idle
  <2>4. (\A b \in Agent : JobBacked(b)') /\ DemotesNoT0'
    BY <1>0, <1>5, <2>1, <2>3, JobsKept DEF Remember, DemotesNoT0
  <2> QED  BY <2>2, <2>4 DEF Inv
<1>6. ASSUME NEW a \in Agent, Promote(a) PROVE Inv'
  <2>1. Approved(a)
    BY <1>6 DEF Promote
  <2>0. PICK i \in Item : i = job[a].item
    BY <1>0, <2>1, Verdict
  <2>2. /\ GroundsGrow /\ (\A b \in Agent : JobBacked(b)') /\ DemotesNoT0'
        /\ job[a].conf \in Nat
        /\ evidence'[i] = evidence[i] + 1 /\ job[a].conf + 1 <= evidence'[i]
        /\ ~Refused(i) /\ evidence[i] \in Nat
    BY <1>0, <2>0, <2>1, Verdict DEF TypeOK
  <2>3. CASE TierOf[i] \in {"T1", "T2"} /\ MarkActive(i, 1)
    <3>1. 1 <= evidence'[i]
      BY <2>2
    <3>2. Gate!Sufficient(i)'
      BY <2>3, <3>1 DEF Gate!Sufficient
    <3>3. \A k \in Item : Sound(k)'
      BY <1>0, <2>2, <2>3, <3>1, <3>2, Activated
    <3> QED  BY <2>2, <3>3 DEF Inv
  <2>4. CASE TierOf[i] = "T3" /\ job[a].conf + 1 >= Needed /\ MarkActive(i, job[a].conf + 1)
    <3>1. Needed <= evidence'[i] /\ job[a].conf + 1 \in Nat
      BY <2>2, <2>4, MemoryAssumption
    <3>2. Gate!Sufficient(i)'
      BY <2>4, <3>1, <2>2, MemoryAssumption DEF Gate!Sufficient
    <3>3. \A k \in Item : Sound(k)'
      BY <1>0, <2>2, <2>4, <3>1, <3>2, Activated
    <3> QED  BY <2>2, <3>3 DEF Inv
  <2> QED  BY <1>6, <2>0, <2>3, <2>4 DEF Promote
<1>7. ASSUME NEW a \in Agent, Confirm(a) PROVE Inv'
  <2>0. PICK i \in Item : i = job[a].item
    BY <1>7, Verdict DEF Confirm
  <2>1. /\ GroundsGrow /\ (\A b \in Agent : JobBacked(b)') /\ DemotesNoT0'
        /\ evidence'[i] = evidence[i] + 1 /\ evidence[i] \in Nat
    BY <1>0, <1>7, <2>0, Verdict DEF Confirm, TypeOK
  <2>2. /\ row' = [row EXCEPT ![i].conf = @ + 1, ![i].expires = now + TTL]
        /\ UNCHANGED <<lastEntry, consent, signatures>>
    BY <1>7, <2>0 DEF Confirm, Approved
  <2>3. ASSUME NEW k \in Item, k # i PROVE Sound(k)'
    <3>1. row'[k] = row[k]
      BY <1>0, <2>2, <2>3 DEF TypeOK
    <3> QED  BY <1>0, <2>1, <2>2, <3>1, Untouched
  <2>4. Sound(i)'
    <3>1. row[i] \in Row /\ row' \in [Item -> Row]
      BY <1>0, <2>1 DEF TypeOK
    <3>2. /\ row'[i].state = row[i].state /\ row'[i].conf = row[i].conf + 1
          /\ row'[i].count = row[i].count /\ row'[i].ceiling = row[i].ceiling
          /\ row[i].conf \in Nat
      BY <1>0, <2>1, <2>2, <3>1 DEF TypeOK, Row
    <3>3. CeilingFor(row[i].count)' = CeilingFor(row[i].count)
      BY <3>2 DEF CeilingFor
    <3>4. Gate!Sufficient(i) => Gate!Sufficient(i)'
      BY <2>1, <2>2, MemoryAssumption DEF Gate!Sufficient
    <3>5. Sound(i)
      BY <1>0, <2>1
    <3> QED  BY <2>1, <2>2, <3>2, <3>3, <3>4, <3>5 DEF Sound, StateAfter
  <2> QED  BY <2>1, <2>3, <2>4 DEF Inv
<1>8. ASSUME NEW a \in Agent, Hold(a) PROVE Inv'
  <2>1. GroundsGrow /\ (\A b \in Agent : JobBacked(b)') /\ DemotesNoT0'
    BY <1>8, Verdict DEF Hold
  <2>2. \A k \in Item : Sound(k)'
    BY <1>0, <1>8, <2>1, Unmoved DEF Hold
  <2> QED  BY <2>1, <2>2 DEF Inv
<1>9. ASSUME NEW a \in Agent, Crash(a) PROVE Inv'
  <2>1. GroundsGrow
    BY <1>0, <1>9, SameGrounds DEF Crash, history
  <2>2. \A k \in Item : Sound(k)'
    BY <1>0, <1>9, <2>1, Unmoved DEF Crash
  <2>3. \A b \in Agent : job'[b] = job[b] \/ job'[b].step = "idle"
    BY <1>0, <1>9 DEF Crash, TypeOK, Idle
  <2>4. \A b \in Agent : JobBacked(b)'
    BY <1>0, <2>1, <2>3, JobsKept
  <2>5. DemotesNoT0'
    BY <1>0, <1>9 DEF Crash, DemotesNoT0, Off
  <2> QED  BY <2>2, <2>4, <2>5 DEF Inv
<1> QED  BY <1>1, <1>2, <1>3, <1>4, <1>5, <1>6, <1>7, <1>8, <1>9 DEF Pipeline

LEMMA PeopleKeepInv ==
    ASSUME Inv, TypeOK', People PROVE Inv'
<1>0. TypeOK /\ (\A k \in Item : Sound(k)) /\ (\A b \in Agent : JobBacked(b)) /\ DemotesNoT0
  BY DEF Inv
<1>1. ASSUME NEW s \in Source, Revoke(s) PROVE Inv'
  <2>1. UNCHANGED <<evidence, consent, signatures, sweep, job>>
    BY <1>1 DEF Revoke, history
  <2>2. GroundsGrow
    BY <1>0, <2>1, SameGrounds
  <2>3. \A k \in Item : Sound(k)'
    <3>1. SetState(Cascade(s), "revoked", "revoke") /\ StateAfter("revoke") = "revoked"
      BY <1>1 DEF Revoke, StateAfter
    <3> QED  BY <1>0, <2>1, <3>1, Moved
  <2>4. (\A b \in Agent : JobBacked(b)') /\ DemotesNoT0'
    BY <1>0, <2>1, <2>2, JobsKept DEF DemotesNoT0
  <2> QED  BY <2>3, <2>4 DEF Inv
<1>2. ASSUME NEW i \in Item, NEW signal \in {"weak", "strong"}, Reaffirm(i, signal)
      PROVE  Inv'
  <2> DEFINE applied == IF signal = "strong" THEN 100 ELSE CeilingFor(row[i].count + 1)
  <2>1. UNCHANGED <<lastEntry, evidence, consent, signatures, sweep, job>>
    BY <1>2 DEF Reaffirm, history
  <2>2. GroundsGrow
    BY <1>0, <2>1, SameGrounds
  <2>3. row' = [row EXCEPT ![i].ceiling = applied, ![i].reaffirmed = now, ![i].count = @ + 1]
    BY <1>2 DEF Reaffirm
  <2>4. row[i] \in Row /\ row[i].count \in Nat
    BY <1>0 DEF TypeOK, Row
  <2>5. CeilingFor(row[i].count + 1) <= applied
    <3>1. CeilingFor(row[i].count + 1) \in WeakFloor..100
      BY <2>4, CeilingRange
    <3> QED  BY <3>1, MemoryAssumption
  <2>6. ASSUME NEW k \in Item, k # i PROVE Sound(k)'
    <3>1. row'[k] = row[k]
      BY <1>0, <2>3, <2>6 DEF TypeOK
    <3> QED  BY <1>0, <2>1, <2>2, <3>1, Untouched
  <2>7. Sound(i)'
    <3> HIDE DEF applied
    <3>1. /\ row'[i].state = row[i].state /\ row'[i].conf = row[i].conf
          /\ row'[i].count = row[i].count + 1 /\ row'[i].ceiling = applied
      BY <1>0, <2>3, <2>4 DEF TypeOK, Row
    <3>2. CeilingFor(row[i].count)' = CeilingFor(row[i].count + 1)
      BY <3>1 DEF CeilingFor
    <3>3. Gate!Sufficient(i) => Gate!Sufficient(i)'
      BY <2>1 DEF Gate!Sufficient
    <3>4. Sound(i)
      BY <1>0
    <3> QED  BY <2>1, <2>5, <3>1, <3>2, <3>3, <3>4 DEF Sound, StateAfter
  <2>8. (\A b \in Agent : JobBacked(b)') /\ DemotesNoT0'
    BY <1>0, <2>1, <2>2, JobsKept DEF DemotesNoT0
  <2> QED  BY <2>6, <2>7, <2>8 DEF Inv
<1>3. ASSUME NEW i \in Item, StageT0(i) PROVE Inv'
  <2>1. GroundsGrow /\ signatures'[i] >= 1
    BY <1>0, <1>3 DEF StageT0, GroundsGrow, TypeOK
  <2>2. TierOf[i] = "T0"
    BY <1>3, Profiles DEF StageT0
  <2>3. \A k \in Item : Sound(k)'
    BY <1>0, <1>3, <2>1, <2>2, Inserted DEF StageT0, StateAfter
  <2>4. (\A b \in Agent : JobBacked(b)') /\ DemotesNoT0'
    BY <1>0, <1>3, <2>1, JobsKept DEF StageT0, DemotesNoT0
  <2> QED  BY <2>3, <2>4 DEF Inv
<1>4. ASSUME NEW i \in Item, ActivateT0(i) PROVE Inv'
  <2>1. GroundsGrow
    BY <1>0, <1>4 DEF ActivateT0, GroundsGrow, TypeOK
  <2>2. TierOf[i] = "T0" /\ signatures[i] >= 1 /\ signatures'[i] = signatures[i] + 1
    BY <1>0, <1>4 DEF ActivateT0, Sound, TypeOK
  <2>3. Gate!Sufficient(i)'
    BY <1>0, <2>2 DEF Gate!Sufficient, TypeOK
  <2>4. ASSUME NEW k \in Item, k # i PROVE Sound(k)'
    <3>1. row'[k] = row[k] /\ lastEntry'[k] = lastEntry[k]
      BY <1>0, <1>4, <2>4 DEF ActivateT0, TypeOK
    <3> QED  BY <1>0, <2>1, <3>1, Untouched
  <2>5. Sound(i)'
    <3>1. row[i] \in Row
      BY <1>0 DEF TypeOK
    <3>2. /\ row'[i] = [row[i] EXCEPT !.state = "active", !.reaffirmed = now]
          /\ lastEntry'[i] = "t0_activate" /\ evidence' = evidence
      BY <1>0, <1>4 DEF ActivateT0, TypeOK
    <3>3. /\ row'[i].state = "active" /\ row'[i].conf = row[i].conf
          /\ row'[i].count = row[i].count /\ row'[i].ceiling = row[i].ceiling
      BY <3>1, <3>2 DEF Row
    <3>4. CeilingFor(row[i].count)' = CeilingFor(row[i].count)
      BY <3>3 DEF CeilingFor
    <3>5. Sound(i)
      BY <1>0
    <3> QED  BY <2>2, <2>3, <3>2, <3>3, <3>4, <3>5 DEF Sound, StateAfter
  <2>6. (\A b \in Agent : JobBacked(b)') /\ DemotesNoT0'
    BY <1>0, <1>4, <2>1, JobsKept DEF ActivateT0, DemotesNoT0
  <2> QED  BY <2>4, <2>5, <2>6 DEF Inv
<1> QED  BY <1>1, <1>2, <1>3, <1>4 DEF People

LEMMA ConsolidateKeepsInv ==
    ASSUME Inv, TypeOK', Consolidate PROVE Inv'
<1>0. TypeOK /\ (\A k \in Item : Sound(k)) /\ (\A b \in Agent : JobBacked(b)) /\ DemotesNoT0
  BY DEF Inv
<1>1. UNCHANGED <<evidence, consent, signatures>>
  BY DEF Consolidate, SweepStart, SweepProcessed, SweepExpire, SweepScore, SweepDemoted,
         SweepCompare, SweepMerged, SweepProcess, SweepDemote, SweepMerge, history
<1>2. GroundsGrow
  BY <1>0, <1>1, SameGrounds
<1>3. UNCHANGED <<row, lastEntry>> => \A k \in Item : Sound(k)'
  BY <1>0, <1>2, Unmoved
<1>4. UNCHANGED job => \A b \in Agent : JobBacked(b)'
  BY <1>0, <1>2, JobsKept
<1>5. SweepStart \/ SweepProcessed \/ SweepDemoted \/ SweepCompare \/ SweepMerged => Inv'
  <2>1. SweepStart \/ SweepProcessed \/ SweepDemoted \/ SweepCompare \/ SweepMerged
        => UNCHANGED <<row, lastEntry, job>> /\ DemotesNoT0'
    BY DEF SweepStart, SweepProcessed, SweepDemoted, SweepCompare, SweepMerged,
           Enter, DemotesNoT0
  <2> QED  BY <1>3, <1>4, <2>1 DEF Inv
<1>6. SweepScore => Inv'
  <2>1. SweepScore => UNCHANGED <<row, lastEntry, job>> /\ DemotesNoT0'
    BY DEF SweepScore, Enter, DemotesNoT0, Decayed
  <2> QED  BY <1>3, <1>4, <2>1 DEF Inv
<1>7. ASSUME SweepExpire PROVE Inv'
  <2>1. \A k \in Item : Sound(k)'
    <3> DEFINE due == {i \in InState("active") :
                          row[i].expires # Never /\ row[i].expires < now}
    <3>1. SetState(due, "expired", "expire") /\ StateAfter("expire") = "expired"
      BY <1>7 DEF SweepExpire, StateAfter
    <3> QED  BY <1>0, <1>1, <3>1, Moved
  <2>2. UNCHANGED job /\ DemotesNoT0'
    BY <1>7 DEF SweepExpire, Enter, DemotesNoT0
  <2> QED  BY <1>4, <2>1, <2>2 DEF Inv
<1>8. ASSUME NEW i \in Item, SweepProcess(i) PROVE Inv'
  <2>1. \A k \in Item : Sound(k)'
    BY <1>3, <1>8 DEF SweepProcess
  <2>2. \A b \in Agent : JobBacked(b)'
    BY <1>0, <1>2, <1>4, <1>8, JobBegun DEF SweepProcess, Agent
  <2>3. DemotesNoT0'
    BY <1>8 DEF SweepProcess, At, Done, Enter, DemotesNoT0
  <2> QED  BY <2>1, <2>2, <2>3 DEF Inv
<1>9. ASSUME NEW i \in Item, SweepDemote(i) PROVE Inv'
  <2>1. TierOf[i] # "T0"
    BY <1>0, <1>9 DEF SweepDemote, At, DemotesNoT0
  <2>2. \A k \in Item : Sound(k)'
    BY <1>0, <1>1, <1>9, <2>1, Moved DEF SweepDemote, StateAfter
  <2>3. UNCHANGED job /\ DemotesNoT0'
    BY <1>0, <1>9 DEF SweepDemote, Done, Enter, DemotesNoT0
  <2> QED  BY <1>4, <2>2, <2>3 DEF Inv
<1>10. ASSUME NEW i \in Item, SweepMerge(i) PROVE Inv'
  <2>1. \A k \in Item : Sound(k)'
    <3>1. SetState({i}, "rejected", "reject") /\ StateAfter("reject") = "rejected"
      BY <1>10 DEF SweepMerge, StateAfter
    <3> QED  BY <1>0, <1>1, <3>1, Moved
  <2>2. UNCHANGED job /\ DemotesNoT0'
    BY <1>0, <1>10 DEF SweepMerge, At, Done, Enter, DemotesNoT0
  <2> QED  BY <1>4, <2>1, <2>2 DEF Inv
<1> QED  BY <1>5, <1>6, <1>7, <1>8, <1>9, <1>10 DEF Consolidate

LEMMA InitInv == Init => Inv
<1> SUFFICES ASSUME Init PROVE Inv
  OBVIOUS
<1>1. TypeOK
  BY InitTypes
<1>2. ASSUME NEW i \in Item PROVE Sound(i)
  BY FirstCeiling DEF Init, NewRow, Sound, StateAfter
<1>3. (\A a \in Agent : JobBacked(a)) /\ DemotesNoT0
  BY DEF Init, JobBacked, DemotesNoT0, Idle, Off
<1> QED  BY <1>1, <1>2, <1>3 DEF Inv

LEMMA NextKeepsInv == ASSUME Inv, [Next]_vars PROVE Inv'
<1>1. TypeOK'
  BY NextTypes DEF Inv
<1>2. CASE Tick \/ UNCHANGED vars
  <2>1. TypeOK /\ (\A k \in Item : Sound(k)) /\ (\A b \in Agent : JobBacked(b)) /\ DemotesNoT0
    BY DEF Inv
  <2>2. UNCHANGED <<row, lastEntry, job, sweep, evidence, consent, signatures>>
    BY <1>2 DEF Tick, vars, history
  <2>3. GroundsGrow
    BY <2>1, <2>2, SameGrounds
  <2>4. \A k \in Item : Sound(k)'
    BY <1>1, <2>1, <2>2, <2>3, Unmoved
  <2>5. (\A b \in Agent : JobBacked(b)') /\ DemotesNoT0'
    BY <1>1, <2>1, <2>2, <2>3, JobsKept DEF DemotesNoT0
  <2> QED  BY <1>1, <2>4, <2>5 DEF Inv
<1> QED  BY <1>1, <1>2, PipelineKeepsInv, PeopleKeepInv, ConsolidateKeepsInv DEF Next

THEOREM Invariance == Spec => []Inv
BY InitInv, NextKeepsInv, PTL DEF Spec

-----------------------------------------------------------------------------
(* What follows *)

\* The last ledger entry that moved an item names the state it is in.
THEOREM LedgerIsFaithful == Spec => []LedgerTellsState
<1>1. Inv => LedgerTellsState
  BY DEF Inv, Sound, LedgerTellsState
<1> QED  BY <1>1, Invariance, PTL

\* What the rules refuse is believed only with a user's approval.
THEOREM RulesHold == Spec => []RulesAreAFloor
<1>1. Inv => RulesAreAFloor
  BY DEF Inv, Sound, Refused, RulesAreAFloor, InState
<1> QED  BY <1>1, Invariance, PTL

\* The invariant also bounds a ceiling from below by what its count of
\* reaffirmations grants, so that one more weak one cannot raise it.
THEOREM WeakReaffirmation == Spec => WeakNeverRaises
<1>1. ASSUME Inv, NEW i \in Item, Reaffirm(i, "weak")
      PROVE  row'[i].ceiling <= row[i].ceiling
  <2>1. row[i] \in Row /\ row[i].count \in Nat
    BY <1>1 DEF Inv, TypeOK, Row
  <2>2. row' = [row EXCEPT ![i].ceiling = CeilingFor(row[i].count + 1),
                           ![i].reaffirmed = now, ![i].count = @ + 1]
    BY <1>1 DEF Reaffirm
  <2>3. row'[i].ceiling = CeilingFor(row[i].count + 1)
    BY <1>1, <2>1, <2>2 DEF Inv, TypeOK, Row
  <2>4. CeilingFor(row[i].count + 1) <= CeilingFor(row[i].count)
    BY <2>1, CeilingFalls
  <2>5. CeilingFor(row[i].count) <= row[i].ceiling
    BY <1>1 DEF Inv, Sound
  <2>6. /\ CeilingFor(row[i].count) \in Int /\ CeilingFor(row[i].count + 1) \in Int
        /\ row[i].ceiling \in Int
    BY <2>1, CeilingRange, MemoryAssumption DEF Row
  <2> QED  BY <2>3, <2>4, <2>5, <2>6
<1>2. Inv /\ [Next]_vars =>
        [\A i \in Item : Reaffirm(i, "weak") => row'[i].ceiling <= row[i].ceiling]_vars
  BY <1>1
<1> QED  BY <1>2, Invariance, PTL DEF Spec, WeakNeverRaises

-----------------------------------------------------------------------------
(* VerifiedMemory implements TrustGate *)

LEMMA NewlyBelievedAreGrounded ==
    ASSUME Inv' PROVE \A i \in (InState("active"))' \ InState("active") : Gate!Sufficient(i)'
BY DEF Inv, Sound, InState

LEMMA WithdrawStep ==
    ASSUME UNCHANGED <<evidence, consent, signatures>>,
           (InState("active"))' \subseteq InState("active")
    PROVE  Gate!Withdraw
BY DEF Gate!Withdraw

LEMMA PipelineGate ==
    ASSUME TypeOK, Pipeline
    PROVE  Gate!Withdraw \/ \E i \in Item : Gate!Corroborate(i) \/ Gate!Consent(i)
<1>1. ASSUME NEW i \in Item, Propose(i) PROVE Gate!Withdraw
  BY <1>1, WithdrawStep DEF TypeOK, Propose, Insert, InState
<1>2. ASSUME NEW i \in Item, Approve(i) PROVE Gate!Consent(i)
  <2>1. (InState("active"))' = InState("active") \union {i}
    BY <1>2 DEF TypeOK, Row, Approve, MarkActive, InState
  <2> QED  BY <1>2, <2>1 DEF Approve, Gate!Consent
<1>3. ASSUME NEW w \in Worker, NEW i \in Item, ProcessOne(w, i) PROVE Gate!Withdraw
  BY <1>3, WithdrawStep DEF ProcessOne, InState, history
<1>4. ASSUME NEW a \in Agent, Refuse(a) \/ Reject(a) PROVE Gate!Withdraw
  <2>1. SetState({job[a].item}, "rejected", "reject")
    BY <1>4 DEF Refuse, Reject
  <2>2. (InState("active"))' \subseteq InState("active")
    BY <2>1 DEF TypeOK, Row, SetState, InState
  <2> QED  BY <1>4, <2>2, WithdrawStep DEF Refuse, Reject, history
<1>5. ASSUME NEW a \in Agent, Remember(a) \/ Crash(a) PROVE Gate!Withdraw
  BY <1>5, WithdrawStep DEF Remember, Crash, InState, history
<1>6. ASSUME NEW a \in Agent, Promote(a) \/ Confirm(a) \/ Hold(a)
      PROVE  \E i \in Item : Gate!Corroborate(i)
  <2>1. Approved(a)
    BY <1>6 DEF Promote, Confirm, Hold
  <2>2. PICK i \in Item : i = job[a].item
    BY <2>1, ApprovedTypes
  <2>3. evidence' = [evidence EXCEPT ![i] = @ + 1] /\ UNCHANGED <<consent, signatures>>
    BY <2>1, <2>2 DEF Approved
  <2>4. (InState("active"))' \in {InState("active"), InState("active") \union {i}}
    <3>1. CASE Promote(a)
      <4>1. \E conf : MarkActive(i, conf)
        BY <2>2, <3>1 DEF Promote
      <4>2. (InState("active"))' = InState("active") \union {i}
        BY <4>1 DEF TypeOK, Row, MarkActive, InState
      <4> QED  BY <4>2
    <3>2. CASE Confirm(a)
      <4>1. row' = [row EXCEPT ![i].conf = @ + 1, ![i].expires = now + TTL]
        BY <2>2, <3>2 DEF Confirm
      <4>2. \A k \in Item : row'[k].state = row[k].state
        BY <4>1 DEF TypeOK, Row
      <4> QED  BY <4>2 DEF InState
    <3>3. CASE Hold(a)
      BY <3>3 DEF Hold, InState
    <3> QED  BY <1>6, <3>1, <3>2, <3>3
  <2> QED  BY <2>3, <2>4 DEF Gate!Corroborate
<1> QED  BY <1>1, <1>2, <1>3, <1>4, <1>5, <1>6 DEF Pipeline

LEMMA PeopleGate ==
    ASSUME TypeOK, People PROVE Gate!Withdraw \/ \E i \in Item : Gate!Sign(i)
<1>1. ASSUME NEW s \in Source, Revoke(s) PROVE Gate!Withdraw
  <2>1. (InState("active"))' \subseteq InState("active")
    BY <1>1 DEF TypeOK, Row, Revoke, SetState, InState
  <2> QED  BY <1>1, <2>1, WithdrawStep DEF Revoke, history
<1>2. ASSUME NEW i \in Item, NEW signal \in {"weak", "strong"}, Reaffirm(i, signal)
      PROVE  Gate!Withdraw
  <2> DEFINE applied == IF signal = "strong" THEN 100 ELSE CeilingFor(row[i].count + 1)
  <2>1. row' = [row EXCEPT ![i].ceiling = applied, ![i].reaffirmed = now, ![i].count = @ + 1]
    BY <1>2 DEF Reaffirm
  <2> HIDE DEF applied
  <2>2. \A k \in Item : row'[k].state = row[k].state
    BY <2>1 DEF TypeOK, Row
  <2>3. (InState("active"))' \subseteq InState("active")
    BY <2>2 DEF InState
  <2> QED  BY <1>2, <2>3, WithdrawStep DEF Reaffirm, history
<1>3. ASSUME NEW i \in Item, StageT0(i) PROVE Gate!Sign(i)
  <2>1. (InState("active"))' = InState("active")
    BY <1>3 DEF TypeOK, Row, NewRow, StageT0, Insert, InState
  <2> QED  BY <1>3, <2>1 DEF StageT0, Gate!Sign
<1>4. ASSUME NEW i \in Item, ActivateT0(i) PROVE Gate!Sign(i)
  <2>1. (InState("active"))' = InState("active") \union {i}
    BY <1>4 DEF TypeOK, Row, ActivateT0, InState
  <2> QED  BY <1>4, <2>1 DEF ActivateT0, Gate!Sign
<1> QED  BY <1>1, <1>2, <1>3, <1>4 DEF People

LEMMA ConsolidateGate ==
    ASSUME TypeOK, Consolidate PROVE Gate!Withdraw
<1>1. UNCHANGED <<evidence, consent, signatures>>
  BY DEF Consolidate, SweepStart, SweepProcessed, SweepExpire, SweepScore, SweepDemoted,
         SweepCompare, SweepMerged, SweepProcess, SweepDemote, SweepMerge, history
<1>2. ASSUME NEW S, NEW state, NEW action, SetState(S, state, action), state # "active"
      PROVE  (InState("active"))' \subseteq InState("active")
  BY <1>2 DEF TypeOK, Row, SetState, InState
<1>3. CASE SweepStart \/ SweepProcessed \/ SweepScore \/ SweepDemoted \/ SweepCompare
           \/ SweepMerged \/ \E i \in Item : SweepProcess(i)
  <2>1. UNCHANGED row
    BY <1>3 DEF SweepStart, SweepProcessed, SweepScore, SweepDemoted, SweepCompare,
                SweepMerged, SweepProcess
  <2> QED  BY <1>1, <2>1, WithdrawStep DEF InState
<1>4. CASE SweepExpire
  <2> DEFINE due == {i \in InState("active") : row[i].expires # Never /\ row[i].expires < now}
  <2>1. SetState(due, "expired", "expire")
    BY <1>4 DEF SweepExpire
  <2> QED  BY <1>1, <1>2, <2>1, WithdrawStep
<1>5. CASE \E i \in Item : SweepDemote(i) \/ SweepMerge(i)
  <2>1. PICK i \in Item : SetState({i}, "pending", "demote") \/ SetState({i}, "rejected", "reject")
    BY <1>5 DEF SweepDemote, SweepMerge
  <2> QED  BY <1>1, <1>2, <2>1, WithdrawStep
<1> QED  BY <1>3, <1>4, <1>5 DEF Consolidate

LEMMA NextImplementsGate ==
    ASSUME Inv, Inv', [Next]_vars PROVE [Gate!Next]_(Gate!gateVars)
<1>0. TypeOK
  BY DEF Inv
<1>1. CASE Tick \/ UNCHANGED vars
  BY <1>1 DEF Tick, vars, history, InState, Gate!gateVars
<1>2. CASE Pipeline \/ People \/ Consolidate
  <2>1. \/ \E i \in Item : Gate!Corroborate(i) \/ Gate!Consent(i) \/ Gate!Sign(i)
        \/ Gate!Withdraw
    BY <1>0, <1>2, PipelineGate, PeopleGate, ConsolidateGate
  <2> QED  BY <2>1, NewlyBelievedAreGrounded DEF Gate!Next
<1> QED  BY <1>1, <1>2 DEF Next

LEMMA InitImplementsGate == Init => Gate!Init
BY DEF Init, Gate!Init, InState, NewRow

\* Memory keeps TrustGate's promise: nothing is ever admitted to belief short
\* of the grounds its tier demands, whatever reads are stale and whoever dies.
THEOREM ImplementsGate == Spec => GatePromise
BY InitImplementsGate, NextImplementsGate, Invariance, PTL DEF Spec, GatePromise, Gate!Spec

-----------------------------------------------------------------------------
(* What a step can do to an item, a job and the consolidation's worklist.  *)

OnIt(a, i, steps) == job[a].step \in steps /\ job[a].item = i

\* The ways the state of an item's row can change, and who changes it.
StateMoves(i) ==
    \/ row'[i].state = row[i].state
    \/ row[i].state = "none" /\ row'[i].state \in {"pending", "t0_staged"}
    \/ row[i].state = "pending" /\ row'[i].state = "active" /\ i \in consent'
    \/ row[i].state = "t0_staged" /\ row'[i].state = "active"
    \/ row'[i].state = "active" /\ \E a \in Agent : OnIt(a, i, {"verify"})
    \/ row'[i].state = "rejected" /\ \E a \in Agent : OnIt(a, i, {"refuse", "verify"})
    \/ /\ row'[i].state = "revoked" /\ Live(i) /\ \E s \in Source : Revoke(s)
       /\ Profile[i].source # None \/ Profile[i].parent # None
    \/ row'[i].state = "expired" /\ row[i].state = "active" /\ row[i].expires # Never
    \/ row'[i].state = "pending" /\ sweep.phase = "demote" /\ i \in sweep.todo
    \/ row'[i].state = "rejected" /\ sweep.phase = "merge" /\ i \in sweep.todo

\* A deadline is set by a T3 verdict or reset with a new row.
DeadlineMoves(i) ==
    \/ row'[i].expires \in {row[i].expires, Never}
    \/ TierOf[i] = "T3"

JobMoves(a) ==
    \/ job'[a] = job[a]
    \/ job'[a].step = "idle"
    \/ /\ job[a].step = "verify" /\ job'[a].step = "remember"
       /\ job'[a].item = job[a].item
    \/ /\ job'[a].item \in Item /\ row[job'[a].item].state = "pending"
       /\ row' = row /\ UNCHANGED <<negatives, resubmitted>>
       /\ Rephrases(job'[a].item) => job'[a].step # "verify"

MergeMoves ==
    sweep'.phase = "merge" =>
        \/ sweep.phase = "merge" /\ sweep'.todo \subseteq sweep.todo
        \/ /\ row' = row
           /\ \E K \in Survivors : sweep'.todo = InState("active") \ K

\* What was refused and who consented are never forgotten, and an item is
\* proposed once.
MemoryGrows ==
    /\ negatives \subseteq negatives' /\ consent \subseteq consent'
    /\ \A i \in resubmitted' \ resubmitted :
          /\ row[i].state = "none" /\ row'[i].state = "pending"
          /\ Rephrases(i) /\ TierOf[i] # "T0" /\ UNCHANGED <<job, negatives>>

Effects == /\ \A i \in Item : StateMoves(i) /\ DeadlineMoves(i)
           /\ \A a \in Agent : JobMoves(a)
           /\ MergeMoves /\ MemoryGrows

\* Nothing moves in the table.
LEMMA RowsStay ==
  ASSUME row' = row
  PROVE  \A i \in Item : StateMoves(i) /\ DeadlineMoves(i)
BY DEF StateMoves, DeadlineMoves

LEMMA JobsStay ==
  ASSUME job' = job
  PROVE  \A a \in Agent : JobMoves(a)
BY DEF JobMoves

LEMMA SweepStays ==
  ASSUME sweep' = sweep \/ sweep'.phase # "merge"
  PROVE  MergeMoves
BY DEF MergeMoves

LEMMA NothingNewRefused ==
  ASSUME UNCHANGED <<negatives, consent, resubmitted>>
  PROVE  MemoryGrows
BY DEF MemoryGrows

\* _set_state moves the items of its set, and no deadline.
LEMMA SetStateMoves ==
  ASSUME Tables, NEW S, NEW state, NEW action, SetState(S, state, action), NEW i \in Item
  PROVE  /\ row'[i].expires = row[i].expires
         /\ i \in S => row'[i].state = state
         /\ i \notin S => row'[i].state = row[i].state
<1>1. row[i] \in Row
  BY DEF Tables
<1>2. row'[i] = IF i \in S THEN [row[i] EXCEPT !.state = state] ELSE row[i]
  BY DEF SetState
<1> QED  BY <1>1, <1>2 DEF Row

\* mark_active moves one item.
LEMMA MarkActiveMoves ==
  ASSUME Tables, NEW i \in Item, NEW conf, MarkActive(i, conf), NEW k \in Item
  PROVE  /\ row'[k].expires = row[k].expires
         /\ k = i => row'[k].state = "active"
         /\ k # i => row'[k].state = row[k].state
<1>1. row[k] \in Row
  BY DEF Tables
<1>2. row'[k] = IF k = i THEN [row[i] EXCEPT !.state = "active", !.conf = conf,
                                             !.ceiling = 100, !.reaffirmed = now]
                ELSE row[k]
  BY DEF MarkActive, Tables
<1> QED  BY <1>1, <1>2 DEF Row

LEMMA InsertMoves ==
  ASSUME Tables, NEW i \in Item, NEW state, NEW action, Insert(i, state, action),
         NEW k \in Item
  PROVE  /\ row'[k].expires \in {row[k].expires, Never}
         /\ k = i => row'[k].state = state
         /\ k # i => row'[k].state = row[k].state
<1>1. row'[k] = IF k = i THEN [NewRow EXCEPT !.state = state, !.born = now] ELSE row[k]
  BY DEF Insert, Tables
<1> QED  BY <1>1 DEF NewRow

-----------------------------------------------------------------------------
(* The cascade of a revocation.  Its worklist is a recursive function over   *)
(* parents that may run in circles; such a function exists all the same: the *)
(* least set closed under "derived from" has the property.                   *)

\* j is taken when the items of X are: what revoke_by_source puts in the list.
Reached(s, X) ==
    {j \in Item : /\ Live(j)
                  /\ \/ Profile[j].source = s
                     \/ Profile[j].parent # None /\ Profile[j].parent \in X}

LeastReached(s) == {j \in Item : \A X \in SUBSET Item : Reached(s, X) \subseteq X => j \in X}

LEMMA LeastIsFixed ==
  ASSUME NEW s PROVE Reached(s, LeastReached(s)) = LeastReached(s)
<1> DEFINE L == LeastReached(s)
<1>1. \A X, Y : X \subseteq Y => Reached(s, X) \subseteq Reached(s, Y)
  BY DEF Reached
<1>2. Reached(s, L) \subseteq L
  <2>1. ASSUME NEW j \in Reached(s, L), NEW X \in SUBSET Item, Reached(s, X) \subseteq X
        PROVE  j \in X
    <3>1. L \subseteq X
      BY <2>1 DEF LeastReached
    <3> QED  BY <1>1, <2>1, <3>1
  <2>2. Reached(s, L) \subseteq Item
    BY DEF Reached
  <2> QED  BY <2>1, <2>2 DEF LeastReached
<1>3. Reached(s, Reached(s, L)) \subseteq Reached(s, L) /\ Reached(s, L) \in SUBSET Item
  <2>1. Reached(s, L) \in SUBSET Item
    BY DEF Reached
  <2> HIDE DEF L
  <2> QED  BY <1>1, <1>2, <2>1
<1>4. L \subseteq Reached(s, L)
  BY <1>3 DEF LeastReached
<1> QED  BY <1>2, <1>4

\* The cascade takes the live items of the source and those derived from one it
\* takes, and nothing else.
LEMMA CascadeIsFixed ==
  ASSUME NEW s PROVE Cascade(s) = Reached(s, Cascade(s))
<1> DEFINE F(H) == [i \in Item |->
              /\ Live(i)
              /\ \/ Profile[i].source = s
                 \/ Profile[i].parent # None /\ H[Profile[i].parent]]
           Hit == CHOOSE H : H = F(H)
           G == [i \in Item |-> i \in LeastReached(s)]
<1>1. G = F(G)
  <2> DEFINE R(i) == /\ Live(i)
                     /\ \/ Profile[i].source = s
                        \/ Profile[i].parent # None /\ G[Profile[i].parent]
             In(i) == i \in LeastReached(s)
  <2>1. ASSUME NEW i \in Item
        PROVE  In(i) <=> R(i)
    <3>1. Profile[i].parent # None => Profile[i].parent \in Item
      BY MemoryAssumption DEF Claim
    <3>2. (i \in LeastReached(s)) <=> (i \in Reached(s, LeastReached(s)))
      BY LeastIsFixed
    <3> QED  BY <3>1, <3>2 DEF Reached
  <2>2. (\A i \in Item : In(i) \in BOOLEAN) /\ (\A i \in Item : R(i) \in BOOLEAN)
    BY DEF Live
  <2>3. G = [i \in Item |-> In(i)] /\ F(G) = [i \in Item |-> R(i)]
    OBVIOUS
  <2> HIDE DEF R, In, G, F
  <2>4. \A i \in Item : In(i) = R(i)
    BY <2>1, <2>2
  <2>5. [i \in Item |-> In(i)] = [i \in Item |-> R(i)]
    BY <2>4
  <2> QED  BY <2>3, <2>5
<1>2. Hit = F(Hit)
  <2> HIDE DEF F, G
  <2> QED  BY <1>1
<1>3. Cascade(s) = {i \in Item : Hit[i]}
  BY DEF Cascade
<1>4. \A i \in Item : Hit[i] = (/\ Live(i)
              /\ \/ Profile[i].source = s
                 \/ Profile[i].parent # None /\ Hit[Profile[i].parent])
  <2> HIDE DEF Hit
  <2> QED  BY <1>2
<1>5. \A i \in Item : Profile[i].parent # None => Profile[i].parent \in Item
  BY MemoryAssumption DEF Claim
<1> HIDE DEF Hit
<1> QED  BY <1>3, <1>4, <1>5 DEF Reached

-----------------------------------------------------------------------------
(* The effects of each action *)

LEMMA JobEndsMoves ==
  ASSUME Jobs, NEW a \in Agent, job' = [job EXCEPT ![a] = Idle]
  PROVE  \A b \in Agent : JobMoves(b)
BY DEF Jobs, JobMoves, Idle

LEMMA JobStartsMoves ==
  ASSUME Jobs, NEW a \in Agent, NEW i \in Item, StartJob(a, i),
         UNCHANGED <<row, negatives, resubmitted>>
  PROVE  \A b \in Agent : JobMoves(b)
<1> DEFINE j == [step |-> IF Rephrases(i) THEN "refuse" ELSE "verify",
                 item |-> i, conf |-> row[i].conf]
<1>1. /\ row[i].state = "pending" /\ job'[a] = j
      /\ \A b \in Agent \ {a} : job'[b] = job[b]
  BY DEF StartJob, Jobs
<1>2. j.item = i /\ (Rephrases(i) => j.step # "verify")
  OBVIOUS
<1> HIDE DEF j
<1> QED  BY <1>1, <1>2 DEF JobMoves

LEMMA PipelineEffects ==
  ASSUME TypeOK, Pipeline PROVE Effects
<1>0. Tables /\ Jobs
  BY TypeParts
<1>1. ASSUME NEW i \in Item, Propose(i) PROVE Effects
  <2>1. /\ Insert(i, "pending", "ingest") /\ row[i].state = "none" /\ TierOf[i] # "T0"
        /\ resubmitted' = IF Rephrases(i) THEN resubmitted \union {i} ELSE resubmitted
        /\ UNCHANGED <<negatives, job, sweep, consent>>
    BY <1>1, Profiles DEF Propose
  <2>2. \A k \in Item : StateMoves(k) /\ DeadlineMoves(k)
    BY <1>0, <2>1, InsertMoves DEF StateMoves, DeadlineMoves
  <2>3. MemoryGrows
    BY <1>0, <2>1, InsertMoves DEF MemoryGrows
  <2> QED  BY <2>1, <2>2, <2>3, JobsStay, SweepStays DEF Effects
<1>2. ASSUME NEW i \in Item, Approve(i) PROVE Effects
  <2>1. /\ MarkActive(i, row[i].conf) /\ row[i].state = "pending"
        /\ consent' = consent \union {i} /\ UNCHANGED <<negatives, job, sweep, resubmitted>>
    BY <1>2 DEF Approve
  <2>2. \A k \in Item : StateMoves(k) /\ DeadlineMoves(k)
    BY <1>0, <2>1, MarkActiveMoves DEF StateMoves, DeadlineMoves
  <2>3. MemoryGrows
    BY <2>1 DEF MemoryGrows
  <2> QED  BY <2>1, <2>2, <2>3, JobsStay, SweepStays DEF Effects
<1>3. ASSUME NEW w \in Worker, NEW i \in Item, ProcessOne(w, i) PROVE Effects
  <2>1. StartJob(w, i) /\ w \in Agent
        /\ UNCHANGED <<row, negatives, sweep, consent, resubmitted>>
    BY <1>3 DEF ProcessOne, history, Agent
  <2> QED
    BY <1>0, <2>1, RowsStay, JobStartsMoves, SweepStays, NothingNewRefused DEF Effects
<1>4. ASSUME NEW a \in Agent, Refuse(a) \/ Reject(a) PROVE Effects
  <2>1. /\ SetState({job[a].item}, "rejected", "reject")
        /\ job[a].step \in {"refuse", "verify"}
        /\ UNCHANGED <<negatives, sweep, consent, resubmitted>>
    BY <1>4 DEF Refuse, Reject, history
  <2>2. \A k \in Item : StateMoves(k) /\ DeadlineMoves(k)
    <3> TAKE k \in Item
    <3>1. CASE k = job[a].item
      BY <1>0, <2>1, <3>1, SetStateMoves DEF StateMoves, DeadlineMoves, OnIt
    <3>2. CASE k # job[a].item
      BY <1>0, <2>1, <3>2, SetStateMoves DEF StateMoves, DeadlineMoves
    <3> QED  BY <3>1, <3>2
  <2>3. \A b \in Agent : JobMoves(b)
    <3>1. CASE Refuse(a)
      BY <1>0, <3>1, JobEndsMoves DEF Refuse
    <3>2. CASE Reject(a)
      <4>1. job[a].step = "verify" /\ job' = [job EXCEPT ![a].step = "remember"]
        BY <3>2 DEF Reject
      <4>2. job'[a].step = "remember" /\ job'[a].item = job[a].item
            /\ \A b \in Agent \ {a} : job'[b] = job[b]
        BY <1>0, <4>1 DEF Jobs, Job
      <4> QED  BY <4>1, <4>2 DEF JobMoves
    <3> QED  BY <1>4, <3>1, <3>2
  <2> QED  BY <2>1, <2>2, <2>3, SweepStays, NothingNewRefused DEF Effects
<1>5. ASSUME NEW a \in Agent, Remember(a) PROVE Effects
  <2>1. /\ negatives \subseteq negatives' /\ job' = [job EXCEPT ![a] = Idle]
        /\ UNCHANGED <<row, sweep, consent, resubmitted>>
    BY <1>5 DEF Remember, history
  <2>2. MemoryGrows
    BY <2>1 DEF MemoryGrows
  <2> QED  BY <1>0, <2>1, <2>2, RowsStay, JobEndsMoves, SweepStays DEF Effects
<1>6. ASSUME NEW a \in Agent, Promote(a) \/ Confirm(a) \/ Hold(a) PROVE Effects
  <2> DEFINE i == job[a].item
  <2>1. /\ job[a].step = "verify" /\ job' = [job EXCEPT ![a] = Idle]
        /\ UNCHANGED <<negatives, sweep, consent, resubmitted>> /\ i \in Item
    BY <1>0, <1>6, JobOfAgent DEF Promote, Confirm, Hold, Approved
  <2>2. \A k \in Item : StateMoves(k) /\ DeadlineMoves(k)
    <3> TAKE k \in Item
    <3>1. CASE Promote(a)
      <4>1. \E conf : MarkActive(i, conf)
        BY <3>1 DEF Promote
      <4>2. row'[k].expires = row[k].expires
            /\ (row'[k].state = row[k].state \/ (k = i /\ row'[k].state = "active"))
        BY <1>0, <2>1, <4>1, MarkActiveMoves
      <4> QED  BY <2>1, <4>2 DEF StateMoves, DeadlineMoves, OnIt
    <3>2. CASE Confirm(a)
      <4>1. row' = [row EXCEPT ![i].conf = @ + 1, ![i].expires = now + TTL]
            /\ TierOf[i] = "T3"
        BY <3>2 DEF Confirm
      <4>2. row'[k].state = row[k].state /\ (k # i => row'[k].expires = row[k].expires)
        BY <1>0, <4>1 DEF Tables, Row
      <4> QED  BY <4>1, <4>2 DEF StateMoves, DeadlineMoves
    <3>3. CASE Hold(a)
      BY <3>3, RowsStay DEF Hold
    <3> QED  BY <1>6, <3>1, <3>2, <3>3
  <2> QED
    BY <1>0, <2>1, <2>2, JobEndsMoves, SweepStays, NothingNewRefused DEF Effects
<1>7. ASSUME NEW a \in Agent, Crash(a) PROVE Effects
  <2>1. /\ job' = [job EXCEPT ![a] = Idle]
        /\ sweep' = sweep \/ sweep'.phase # "merge"
        /\ UNCHANGED <<row, negatives, consent, resubmitted>>
    BY <1>7 DEF Crash, history, Off
  <2>2. MergeMoves
    BY <2>1, SweepStays
  <2>3. \A b \in Agent : JobMoves(b)
    BY <1>0, <2>1, JobEndsMoves
  <2> QED  BY <2>1, <2>2, <2>3, RowsStay, NothingNewRefused DEF Effects
<1> QED  BY <1>1, <1>2, <1>3, <1>4, <1>5, <1>6, <1>7 DEF Pipeline

LEMMA PeopleEffects ==
  ASSUME TypeOK, People PROVE Effects
<1>0. Tables /\ Jobs
  BY TypeParts
<1>1. UNCHANGED <<negatives, job, sweep, consent, resubmitted>>
  BY DEF People, Revoke, Reaffirm, StageT0, ActivateT0, history
<1>2. \A k \in Item : StateMoves(k) /\ DeadlineMoves(k)
  <2>1. ASSUME NEW s \in Source, Revoke(s), NEW k \in Item
        PROVE  StateMoves(k) /\ DeadlineMoves(k)
    <3>1. SetState(Cascade(s), "revoked", "revoke")
      BY <2>1 DEF Revoke
    <3>2. k \in Cascade(s) =>
            Live(k) /\ (Profile[k].source # None \/ Profile[k].parent # None)
      BY CascadeIsFixed, MemoryAssumption DEF Reached
    <3> QED  BY <1>0, <2>1, <3>1, <3>2, SetStateMoves DEF StateMoves, DeadlineMoves
  <2>2. ASSUME NEW i \in Item, NEW signal \in {"weak", "strong"}, Reaffirm(i, signal),
               NEW k \in Item
        PROVE  StateMoves(k) /\ DeadlineMoves(k)
    <3> DEFINE applied == IF signal = "strong" THEN 100 ELSE CeilingFor(row[i].count + 1)
    <3>1. row' = [row EXCEPT ![i].ceiling = applied, ![i].reaffirmed = now, ![i].count = @ + 1]
      BY <2>2 DEF Reaffirm
    <3> HIDE DEF applied
    <3>2. row'[k].state = row[k].state /\ row'[k].expires = row[k].expires
      BY <1>0, <3>1 DEF Tables, Row
    <3> QED  BY <3>2 DEF StateMoves, DeadlineMoves
  <2>3. ASSUME NEW i \in Item, StageT0(i), NEW k \in Item
        PROVE  StateMoves(k) /\ DeadlineMoves(k)
    BY <1>0, <2>3, InsertMoves DEF StageT0, StateMoves, DeadlineMoves
  <2>4. ASSUME NEW i \in Item, ActivateT0(i), NEW k \in Item
        PROVE  StateMoves(k) /\ DeadlineMoves(k)
    <3>1. /\ row[i].state = "t0_staged"
          /\ row' = [row EXCEPT ![i] = [@ EXCEPT !.state = "active", !.reaffirmed = now]]
      BY <2>4 DEF ActivateT0
    <3>2. /\ row'[k].expires = row[k].expires
          /\ row'[k].state = IF k = i THEN "active" ELSE row[k].state
      BY <1>0, <3>1 DEF Tables, Row
    <3> QED  BY <3>1, <3>2 DEF StateMoves, DeadlineMoves
  <2> QED  BY <2>1, <2>2, <2>3, <2>4 DEF People
<1> QED  BY <1>1, <1>2, JobsStay, SweepStays, NothingNewRefused DEF Effects

LEMMA ConsolidateEffects ==
  ASSUME TypeOK, Consolidate PROVE Effects
<1>0. Tables /\ Jobs
  BY TypeParts
<1>1. UNCHANGED <<negatives, consent, resubmitted>>
  BY DEF Consolidate, SweepStart, SweepProcessed, SweepExpire, SweepScore, SweepDemoted,
         SweepCompare, SweepMerged, SweepProcess, SweepDemote, SweepMerge, history
<1>2. CASE SweepStart \/ SweepProcessed \/ SweepScore \/ SweepDemoted \/ SweepMerged
  <2>1. UNCHANGED <<row, job>> /\ sweep'.phase # "merge"
    BY <1>2 DEF SweepStart, SweepProcessed, SweepScore, SweepDemoted, SweepMerged, Enter
  <2> QED  BY <1>1, <2>1, RowsStay, JobsStay, SweepStays, NothingNewRefused DEF Effects
<1>3. CASE SweepCompare
  <2>1. UNCHANGED <<row, job>> /\ \E K \in Survivors : sweep'.todo = InState("active") \ K
    BY <1>3 DEF SweepCompare, Enter
  <2> QED  BY <1>1, <2>1, RowsStay, JobsStay, NothingNewRefused DEF Effects, MergeMoves
<1>4. CASE SweepExpire
  <2> DEFINE due == {i \in InState("active") : row[i].expires # Never /\ row[i].expires < now}
  <2>1. SetState(due, "expired", "expire") /\ UNCHANGED job /\ sweep'.phase # "merge"
    BY <1>4 DEF SweepExpire, Enter
  <2>2. \A k \in due : row[k].state = "active" /\ row[k].expires # Never
    BY DEF InState
  <2> HIDE DEF due
  <2>3. \A k \in Item : StateMoves(k) /\ DeadlineMoves(k)
    BY <1>0, <2>1, <2>2, SetStateMoves DEF StateMoves, DeadlineMoves
  <2> QED  BY <1>1, <2>1, <2>3, JobsStay, SweepStays, NothingNewRefused DEF Effects
<1>5. ASSUME NEW i \in Item, SweepProcess(i) PROVE Effects
  <2>1. UNCHANGED row /\ sweep'.phase # "merge"
    BY <1>5 DEF SweepProcess, At, Done, Enter
  <2>2. \A b \in Agent : JobMoves(b)
    BY <1>0, <1>1, <1>5, <2>1, JobStartsMoves, JobsStay DEF SweepProcess, Agent
  <2> QED  BY <1>1, <2>1, <2>2, RowsStay, SweepStays, NothingNewRefused DEF Effects
<1>6. ASSUME NEW i \in Item, SweepDemote(i) PROVE Effects
  <2>1. /\ SetState({i}, "pending", "demote") /\ sweep.phase = "demote" /\ i \in sweep.todo
        /\ UNCHANGED job /\ sweep'.phase # "merge"
    BY <1>6 DEF SweepDemote, At, Done, Enter
  <2>2. \A k \in Item : StateMoves(k) /\ DeadlineMoves(k)
    BY <1>0, <2>1, SetStateMoves DEF StateMoves, DeadlineMoves
  <2> QED  BY <1>1, <2>1, <2>2, JobsStay, SweepStays, NothingNewRefused DEF Effects
<1>7. ASSUME NEW i \in Item, SweepMerge(i) PROVE Effects
  <2>1. /\ SetState({i}, "rejected", "reject") /\ sweep.phase = "merge" /\ i \in sweep.todo
        /\ UNCHANGED job /\ sweep'.todo \subseteq sweep.todo
    BY <1>7 DEF SweepMerge, At, Done, Enter
  <2>2. \A k \in Item : StateMoves(k) /\ DeadlineMoves(k)
    BY <1>0, <2>1, SetStateMoves DEF StateMoves, DeadlineMoves
  <2> QED  BY <1>1, <2>1, <2>2, JobsStay, NothingNewRefused DEF Effects, MergeMoves
<1> QED  BY <1>2, <1>3, <1>4, <1>5, <1>6, <1>7 DEF Consolidate

\* Every step has these effects and no others.
LEMMA StepEffects == ASSUME TypeOK, [Next]_vars PROVE Effects
<1>1. CASE Tick \/ UNCHANGED vars
  <2>1. UNCHANGED <<row, job, sweep, negatives, consent, resubmitted>>
    BY <1>1 DEF Tick, vars, history
  <2> QED  BY <2>1, RowsStay, JobsStay, SweepStays, NothingNewRefused DEF Effects
<1> QED  BY <1>1, PipelineEffects, PeopleEffects, ConsolidateEffects DEF Next

-----------------------------------------------------------------------------
(* What the effects entail *)

\* Only writers that hold a dismissed item from before bring it back.
THEOREM DismissalStands == Spec => DismissedStays
<1>1. ASSUME TypeOK, [Next]_vars, NEW i \in Item, Dismissed(i),
             row'[i].state \in {"pending", "active"}
      PROVE  \/ \E a \in Agent : job[a].item = i /\ job[a].step = "verify"
             \/ sweep.phase = "demote" /\ i \in sweep.todo
  <2>1. StateMoves(i)
    BY <1>1, StepEffects DEF Effects
  <2> QED  BY <1>1, <2>1 DEF StateMoves, Dismissed, OnIt
<1>2. TypeOK /\ [Next]_vars =>
        [\A i \in Item : Dismissed(i) /\ row'[i].state \in {"pending", "active"} =>
           \/ \E a \in Agent : job[a].item = i /\ job[a].step = "verify"
           \/ sweep.phase = "demote" /\ i \in sweep.todo]_vars
  BY <1>1
<1> QED  BY <1>2, TypeCorrect, PTL DEF Spec, DismissedStays

\* A revocation takes the live items of a source and those derived from one it
\* takes, however deep or circular the derivations: nothing live is left at the
\* edge of what it took.
THEOREM RevocationCloses == Spec => RevocationIsClosed
<1> DEFINE Closed == (\E i \in Item : Taken(i)) =>
         /\ \E s \in Source : \A i \in Item :
               Live(i) /\ Profile[i].source = s => Taken(i)
         /\ \A i, p \in Item :
               Live(i) /\ Profile[i].parent = p /\ Taken(p) => Taken(i)
<1>1. ASSUME TypeOK, NEW s \in Source, Revoke(s) PROVE Closed
  <2>1. SetState(Cascade(s), "revoked", "revoke") /\ Tables
    BY <1>1, TypeParts DEF Revoke
  <2>2. \A i \in Item : i \in Cascade(s) <=>
            /\ Live(i)
            /\ \/ Profile[i].source = s
               \/ Profile[i].parent # None /\ Profile[i].parent \in Cascade(s)
    BY CascadeIsFixed DEF Reached
  <2>3. \A i \in Item : Taken(i) <=> i \in Cascade(s)
    BY <2>1, <2>2, SetStateMoves DEF Taken, Live
  <2>4. None \notin Item
    BY MemoryAssumption
  <2> QED  BY <2>2, <2>3, <2>4
<1>2. ASSUME TypeOK, [Next]_vars, NEW i \in Item, Taken(i)
      PROVE  \E s \in Source : Revoke(s)
  <2>1. StateMoves(i)
    BY <1>2, StepEffects DEF Effects
  <2> QED  BY <1>2, <2>1 DEF StateMoves, Taken
<1>3. TypeOK /\ [Next]_vars => [Closed]_vars
  BY <1>1, <1>2
<1> QED  BY <1>3, TypeCorrect, PTL DEF Spec, RevocationIsClosed

-----------------------------------------------------------------------------
(* Refusals and operator authority: invariants beside Inv *)

\* An item a job is on has a row.  An item proposed as a repetition of what was
\* refused is still one, and no job that missed the refusal is on it.
RemembersRefusals ==
    /\ \A a \in Agent : job[a].step # "idle" => row[job[a].item].state # "none"
    /\ \A i \in resubmitted :
          /\ Rephrases(i) /\ row[i].state # "none" /\ TierOf[i] # "T0"
          /\ row[i].state = "active" => i \in consent
          /\ \A a \in Agent : job[a].item = i => job[a].step # "verify"

LEMMA RephrasesStill ==
  ASSUME negatives \subseteq negatives', NEW i, Rephrases(i) PROVE Rephrases(i)'
BY DEF Rephrases

LEMMA RefusalsStep ==
  ASSUME Inv, Inv', RemembersRefusals, [Next]_vars PROVE RemembersRefusals'
<1>1. TypeOK /\ TypeOK' /\ Effects
  BY StepEffects DEF Inv
<1>2. ASSUME NEW i \in Item, row[i].state # "none" PROVE row'[i].state # "none"
  BY <1>1, <1>2 DEF Effects, StateMoves
<1>3. ASSUME NEW a \in Agent, job'[a].step # "idle"
      PROVE  row'[job'[a].item].state # "none"
  <2>1. job'[a].item \in Item /\ row[job'[a].item].state # "none"
    <3>1. JobMoves(a)
      BY <1>1 DEF Effects
    <3>2. job[a].step # "idle" => job[a].item \in Item /\ row[job[a].item].state # "none"
      BY <1>1 DEF RemembersRefusals, TypeOK
    <3> QED  BY <1>3, <3>1, <3>2 DEF JobMoves
  <2> QED  BY <1>2, <2>1
<1>4. ASSUME NEW i \in resubmitted
      PROVE  /\ Rephrases(i)' /\ row'[i].state # "none" /\ TierOf[i] # "T0"
             /\ row'[i].state = "active" => i \in consent'
             /\ \A a \in Agent : job'[a].item = i => job'[a].step # "verify"
  <2>1. /\ i \in Item /\ Rephrases(i) /\ row[i].state # "none" /\ TierOf[i] # "T0"
        /\ row[i].state = "active" => i \in consent
        /\ \A a \in Agent : job[a].item = i => job[a].step # "verify"
    BY <1>1 DEF RemembersRefusals, TypeOK
  <2>2. row[i].state # "t0_staged"
    BY <2>1 DEF Inv, Sound
  <2>3. consent \subseteq consent' /\ negatives \subseteq negatives'
    BY <1>1 DEF Effects, MemoryGrows
  <2>4. row'[i].state = "active" => i \in consent'
    <3>1. StateMoves(i)
      BY <1>1, <2>1 DEF Effects
    <3> QED  BY <2>1, <2>2, <2>3, <3>1 DEF StateMoves, OnIt
  <2>5. ASSUME NEW a \in Agent, job'[a].item = i PROVE job'[a].step # "verify"
    <3>1. JobMoves(a)
      BY <1>1 DEF Effects
    <3> QED  BY <2>1, <2>5, <3>1 DEF JobMoves
  <2> QED  BY <1>2, <2>1, <2>3, <2>4, <2>5, RephrasesStill
<1>5. ASSUME NEW i \in resubmitted' \ resubmitted
      PROVE  /\ Rephrases(i)' /\ row'[i].state # "none" /\ TierOf[i] # "T0"
             /\ row'[i].state = "active" => i \in consent'
             /\ \A a \in Agent : job'[a].item = i => job'[a].step # "verify"
  <2>1. /\ row[i].state = "none" /\ row'[i].state = "pending"
        /\ Rephrases(i) /\ TierOf[i] # "T0" /\ UNCHANGED <<job, negatives>>
    BY <1>1 DEF Effects, MemoryGrows
  <2>2. \A a \in Agent : job[a].item = i => job[a].step # "verify"
    BY <2>1 DEF RemembersRefusals
  <2> QED  BY <2>1, <2>2, RephrasesStill
<1>6. \A i \in resubmitted' :
             /\ Rephrases(i)' /\ row'[i].state # "none" /\ TierOf[i] # "T0"
             /\ row'[i].state = "active" => i \in consent'
             /\ \A a \in Agent : job'[a].item = i => job'[a].step # "verify"
  BY <1>4, <1>5
<1> QED  BY <1>3, <1>6 DEF RemembersRefusals

\* A rephrasing proposed after the refusal was remembered is never believed
\* without a user's approval, whichever pass processes it and however late.
THEOREM RefusalsAreRemembered == Spec => []RefusalIsRemembered
<1>1. Init => RemembersRefusals
  BY DEF Init, RemembersRefusals, Idle
<1>2. Inv /\ Inv' /\ RemembersRefusals /\ [Next]_vars => RemembersRefusals'
  BY RefusalsStep
<1>3. RemembersRefusals => RefusalIsRemembered
  BY DEF RemembersRefusals, RefusalIsRemembered
<1> QED  BY <1>1, <1>2, <1>3, Invariance, PTL DEF Spec

\* k is an operator's active word for what i says.
Vouches(k, i) == /\ TierOf[k] = "T0" /\ Profile[k].content = Profile[i].content
                 /\ row[k].state = "active"

\* No job is on an operator's item, none has a deadline, and a duplicate on the
\* list to be merged has a survivor that is not on it.
LeavesOperatorBe ==
    /\ \A a \in Agent : job[a].step # "idle" => TierOf[job[a].item] # "T0"
    /\ \A i \in Item : TierOf[i] = "T0" => row[i].expires = Never
    /\ sweep.phase = "merge" =>
          \A i \in sweep.todo : TierOf[i] = "T0" =>
              \E k \in Item \ sweep.todo : Vouches(k, i)

\* An active operator's item is displaced by nothing but the merge.
LEMMA OperatorMoves ==
  ASSUME Inv, LeavesOperatorBe, [Next]_vars, NEW i \in Item, TierOf[i] = "T0",
         row[i].state = "active", row'[i].state # "active"
  PROVE  sweep.phase = "merge" /\ i \in sweep.todo
<1>1. StateMoves(i)
  BY StepEffects DEF Inv, Effects
<1>2. Profile[i].source = None /\ Profile[i].parent = None
  BY Profiles, MemoryAssumption
<1>3. \A a \in Agent : ~OnIt(a, i, {"refuse", "verify"})
  BY DEF LeavesOperatorBe, OnIt
<1>4. row[i].expires = Never /\ (sweep.phase = "demote" => i \notin sweep.todo)
  BY DEF Inv, LeavesOperatorBe, DemotesNoT0
<1> QED  BY <1>1, <1>2, <1>3, <1>4 DEF StateMoves

\* A survivor of the merge outranks or equals what it survives.
LEMMA SurvivorsVouch ==
  ASSUME TypeOK, NEW K \in Survivors, NEW i \in InState("active") \ K, TierOf[i] = "T0"
  PROVE  \E k \in K : Vouches(k, i)
<1>1. PICK k \in K : Profile[k].content = Profile[i].content /\ ~Outranks(i, k)
  BY DEF Survivors
<1>2. k \in InState("active") /\ k \in Item /\ i \in Item
  BY DEF Survivors, InState
<1>3. TierOf[k] \in Tier
  BY <1>2, Profiles
<1>4. TierOf[k] = "T0"
  BY <1>1, <1>3 DEF Outranks, Tier
<1> QED  BY <1>1, <1>2, <1>4 DEF Vouches, InState

LEMMA OperatorStep ==
  ASSUME Inv, Inv', LeavesOperatorBe, [Next]_vars PROVE LeavesOperatorBe'
<1>1. TypeOK /\ TypeOK' /\ Effects
  BY StepEffects DEF Inv
<1>2. ASSUME NEW a \in Agent, job'[a].step # "idle" PROVE TierOf[job'[a].item] # "T0"
  <2>1. JobMoves(a)
    BY <1>1 DEF Effects
  <2>2. \A i \in Item : row[i].state = "pending" => TierOf[i] # "T0"
    BY DEF Inv, Sound
  <2> QED  BY <1>2, <2>1, <2>2 DEF JobMoves, LeavesOperatorBe
<1>3. ASSUME NEW i \in Item, TierOf[i] = "T0" PROVE row'[i].expires = Never
  <2>1. DeadlineMoves(i)
    BY <1>1 DEF Effects
  <2> QED  BY <1>3, <2>1 DEF DeadlineMoves, LeavesOperatorBe
<1>4. ASSUME sweep'.phase = "merge", NEW i \in sweep'.todo, TierOf[i] = "T0"
      PROVE  \E k \in Item \ sweep'.todo : Vouches(k, i)'
  <2>1. MergeMoves
    BY <1>1 DEF Effects
  <2>2. CASE sweep.phase = "merge" /\ sweep'.todo \subseteq sweep.todo
    <3>1. PICK k \in Item \ sweep.todo : Vouches(k, i)
      BY <1>4, <2>2 DEF LeavesOperatorBe
    <3>2. row'[k].state = "active"
      BY <3>1, OperatorMoves DEF Vouches
    <3> QED  BY <2>2, <3>1, <3>2 DEF Vouches
  <2>3. ASSUME row' = row, NEW K \in Survivors, sweep'.todo = InState("active") \ K
        PROVE  \E k \in Item \ sweep'.todo : Vouches(k, i)'
    <3>1. PICK k \in K : Vouches(k, i)
      BY <1>1, <1>4, <2>3, SurvivorsVouch
    <3>2. k \in Item /\ k \notin sweep'.todo
      BY <2>3 DEF Survivors, InState
    <3> QED  BY <2>3, <3>1, <3>2 DEF Vouches
  <2> QED  BY <1>4, <2>1, <2>2, <2>3 DEF MergeMoves
<1> QED  BY <1>2, <1>3, <1>4 DEF LeavesOperatorBe

\* Operator authority stands: verdicts, decay, expiry and revocation never
\* touch an active T0, and the merge only while another that says the same stays.
THEOREM OperatorAuthority == Spec => OperatorStands
<1>1. Init => LeavesOperatorBe
  BY DEF Init, LeavesOperatorBe, Idle, Off, NewRow
<1>2. Inv /\ Inv' /\ LeavesOperatorBe /\ [Next]_vars => LeavesOperatorBe'
  BY OperatorStep
<1>3. ASSUME Inv, LeavesOperatorBe, [Next]_vars, NEW i \in Item, TierOf[i] = "T0",
             row[i].state = "active", row'[i].state # "active"
      PROVE  \E k \in Item \ {i} :
                /\ TierOf[k] = "T0" /\ Profile[k].content = Profile[i].content
                /\ row'[k].state = "active"
  <2>1. sweep.phase = "merge" /\ i \in sweep.todo
    BY <1>3, OperatorMoves
  <2>2. PICK k \in Item \ sweep.todo : Vouches(k, i)
    BY <1>3, <2>1 DEF LeavesOperatorBe
  <2>3. row'[k].state = "active" /\ k # i
    BY <1>3, <2>1, <2>2, OperatorMoves DEF Vouches
  <2> QED  BY <2>2, <2>3 DEF Vouches
<1>4. Inv /\ LeavesOperatorBe /\ [Next]_vars =>
        [\A i \in Item :
           TierOf[i] = "T0" /\ row[i].state = "active" /\ row'[i].state # "active" =>
             \E k \in Item \ {i} :
                 /\ TierOf[k] = "T0" /\ Profile[k].content = Profile[i].content
                 /\ row'[k].state = "active"]_vars
  BY <1>3
<1> QED  BY <1>1, <1>2, <1>4, Invariance, PTL DEF Spec, OperatorStands
=============================================================================
