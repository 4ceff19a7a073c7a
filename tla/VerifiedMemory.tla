--------------------------- MODULE VerifiedMemory ---------------------------
(***************************************************************************)
(* The verified-memory subsystem: memory/store.py, memory/pipeline.py,     *)
(* memory/consolidate.py, memory/trust.py and memory/t0.py.                *)
(*                                                                         *)
(* One SQLite file is shared by every process of a user: a terminal        *)
(* session, a gateway, one-shot CLI commands and the consolidation pass.   *)
(* A store method is one transaction and one action here.  What is not     *)
(* atomic is split where the code reads and writes apart: a verification   *)
(* reads an item, awaits a verdict and writes by id (job), and the         *)
(* consolidation pass works off lists it read earlier (sweep).             *)
(***************************************************************************)
EXTENDS Integers, FiniteSets

CONSTANTS
    Item,          \* ids a memory row can have
    Profile,       \* what is proposed under each id: see Claim
    Content,       \* the texts that are told apart
    Source,        \* source URIs
    None,          \* no source, no parent, no item
    RuleRejects,   \* <<content, kind>> pairs RuleBasedVerifier refuses
    Similar,       \* <<a, b>>: jaccard(a, b) >= rephrase_similarity
    Sensitive,     \* contents classify_sensitivity marks sensitive
    Worker,        \* sessions that run process_one
    Sweeper,       \* the consolidation pass
    Needed,        \* t3_confirmations_required
    TTL,           \* t3_ttl_days, in clock ticks
    HalfLife,      \* half life in ticks, by kind and sensitivity
    Floor,         \* trust_demote_floor, in hundredths
    WeakFloor,     \* weak_reaffirm_floor, in hundredths
    MinInterval,   \* reaffirm_min_interval_hours, in ticks
    ReviewGap,     \* t0_review_seconds, in ticks
    MaxTime,       \* bound: the clock stops here
    MaxEvidence,   \* bound: verifications begun per item
    MaxCount       \* bound: reaffirmations of each item

Kind == {"operator", "user-direct", "agent-observed", "third-party", "subagent",
         "unknown"}
Tier == {"T0", "T1", "T2", "T3", "T4"}
Claim == [kind : Kind, content : Content,
          source : Source \union {None}, parent : Item \union {None}]

\* stage_t0 gives an operator's claim no source and no parent.
ASSUME MemoryAssumption ==
    /\ Profile \in [Item -> Claim]
    /\ \A i \in Item : Profile[i].kind = "operator" =>
          Profile[i].source = None /\ Profile[i].parent = None
    /\ None \notin Item \union Source
    /\ Sweeper \notin Worker
    /\ Needed \in Nat \ {0}
    /\ TTL \in Nat \ {0}
    /\ HalfLife \in [Kind \X BOOLEAN -> Nat \ {0}]
    /\ Floor \in 1..99
    /\ WeakFloor \in 1..100
    /\ MinInterval \in Nat
    /\ ReviewGap \in Nat
    /\ MaxTime \in Nat
    /\ MaxEvidence \in Nat
    /\ MaxCount \in [Item -> Nat]

Agent == Worker \union {Sweeper}

SOURCE_DEFAULT_TIER ==
    [k \in Kind |-> CASE k = "operator" -> "T0"
                      [] k = "user-direct" -> "T1"
                      [] k = "agent-observed" -> "T2"
                      [] k = "third-party" -> "T3"
                      [] OTHER -> "T4"]

TierOf == [i \in Item |-> SOURCE_DEFAULT_TIER[Profile[i].kind]]

VARIABLES
    row,         \* the memory table: the mutable columns of each item
    lastEntry,   \* the latest ledger entry about each item that moves it
    negatives,   \* the negative_memory table: contents refused
    job,         \* the process_one each agent is in, and what it has read
    sweep,       \* where the consolidation pass is, and its worklist
    now,         \* the clock
    (* history: what happened, read by no action *)
    evidence,    \* approving verdicts per item
    consent,     \* items a user approved
    signatures,  \* operator signatures verified per item
    resubmitted  \* items proposed when a similar content was refused already

history == <<evidence, consent, signatures, resubmitted>>
vars == <<row, lastEntry, negatives, job, sweep, now, history>>

MemoryState == {"none", "pending", "active", "rejected", "revoked", "expired",
                "t0_staged"}
LedgerAction == {"none", "ingest", "promote", "demote", "reject", "revoke",
                 "expire", "t0_stage", "t0_activate"}
Never == -1    \* SQL NULL in a time column

Row == [state : MemoryState, conf : Nat, expires : Nat \union {Never},
        reaffirmed : Nat \union {Never}, ceiling : WeakFloor..100,
        count : Nat, born : Nat]

NewRow == [state |-> "none", conf |-> 0, expires |-> Never,
           reaffirmed |-> Never, ceiling |-> 100, count |-> 0, born |-> 0]

Step == {"idle", "refuse", "verify", "remember"}
Job == [step : Step, item : Item \union {None}, conf : Nat]
Idle == [step |-> "idle", item |-> None, conf |-> 0]

Phase == {"off", "quarantine", "expire", "score", "demote", "compare", "merge"}
Off == [phase |-> "off", todo |-> {}]

Init ==
    /\ row = [i \in Item |-> NewRow]
    /\ lastEntry = [i \in Item |-> "none"]
    /\ negatives = {}
    /\ job = [a \in Agent |-> Idle]
    /\ sweep = Off
    /\ now = 0
    /\ evidence = [i \in Item |-> 0]
    /\ consent = {}
    /\ signatures = [i \in Item |-> 0]
    /\ resubmitted = {}
-----------------------------------------------------------------------------
(* Reading the tables *)

InState(s) == {i \in Item : row[i].state = s}
Live(i) == row[i].state \in {"active", "pending"}

\* negative.is_rephrase against the whole negative table.
Rephrases(i) == \E n \in negatives : <<Profile[i].content, n>> \in Similar

\* trust.half_life_seconds; T0 has none.
HalfLifeOf(i) == HalfLife[Profile[i].kind, Profile[i].content \in Sensitive]

\* trust.current_trust < trust_demote_floor without fractions:
\* ceiling * 0.5^(age / hl) < floor  iff  ceiling^hl < floor^hl * 2^age.
Decayed(i) ==
    LET hl == HalfLifeOf(i)
        age == IF row[i].reaffirmed = Never THEN 0 ELSE now - row[i].reaffirmed
    IN  /\ TierOf[i] # "T0"
        /\ row[i].ceiling ^ hl < Floor ^ hl * 2 ^ age

\* Mutants: the max(weak_floor, ...), or the max(0, ...), is missing.
CeilingUnfloored(n) == 100 - 10 * (IF n > 3 THEN n - 3 ELSE 0)
CeilingUnclamped(n) ==
    IF 100 - 10 * (n - 3) > WeakFloor THEN 100 - 10 * (n - 3) ELSE WeakFloor

\* The ceiling a weak reaffirm applies, the n-th of its item.
CeilingFor(n) ==
    LET diminished == 100 - 10 * (IF n > 3 THEN n - 3 ELSE 0)
    IN  IF diminished > WeakFloor THEN diminished ELSE WeakFloor

\* Mutant: duplicates are ranked by age alone.
OutranksByAge(i, j) == row[i].born > row[j].born

\* consolidate._TIER_RANK, then active()'s order: newest first.
Outranks(i, j) ==
    LET rank == [T0 |-> 0, T1 |-> 1, T2 |-> 2, T3 |-> 3, T4 |-> 4]
    IN  \/ rank[TierOf[i]] < rank[TierOf[j]]
        \/ TierOf[i] = TierOf[j] /\ row[i].born > row[j].born

\* The choices of one survivor per content among the active items.
Survivors ==
    {K \in SUBSET InState("active") :
        /\ \A i \in InState("active") : \E k \in K :
              Profile[k].content = Profile[i].content /\ ~Outranks(i, k)
        /\ \A k, m \in K : Profile[k].content = Profile[m].content => k = m}

\* Mutant: children are not followed.
DirectHits(s) == {i \in Item : Live(i) /\ Profile[i].source = s}

\* revoke_by_source's worklist: live items of the source, and live items
\* derived from an item of the worklist.
Cascade(s) ==
    LET Hit[i \in Item] ==
            /\ Live(i)
            /\ \/ Profile[i].source = s
               \/ Profile[i].parent # None /\ Hit[Profile[i].parent]
    IN  {i \in Item : Hit[i]}
-----------------------------------------------------------------------------
(* Writing the tables: each is one transaction of MemoryStore *)

\* _set_state on every item of S, with its ledger entry.
SetState(S, state, action) ==
    /\ row' = [i \in Item |-> IF i \in S THEN [row[i] EXCEPT !.state = state]
                                         ELSE row[i]]
    /\ lastEntry' = [i \in Item |-> IF i \in S THEN action ELSE lastEntry[i]]

\* Mutant: a promotion is not ledgered.
MarkActiveSilently(i, conf) ==
    /\ row' = [row EXCEPT ![i] = [@ EXCEPT !.state = "active", !.conf = conf,
                                           !.ceiling = 100, !.reaffirmed = now]]
    /\ UNCHANGED lastEntry

\* mark_active: by id, whatever state the row is in by now.
MarkActive(i, conf) ==
    /\ row' = [row EXCEPT ![i] = [@ EXCEPT !.state = "active", !.conf = conf,
                                           !.ceiling = 100, !.reaffirmed = now]]
    /\ lastEntry' = [lastEntry EXCEPT ![i] = "promote"]

\* insert_candidate and stage_t0.
Insert(i, state, action) ==
    /\ row' = [row EXCEPT ![i] = [NewRow EXCEPT !.state = state, !.born = now]]
    /\ lastEntry' = [lastEntry EXCEPT ![i] = action]

-----------------------------------------------------------------------------
(* MemoryPipeline *)

\* propose: every candidate is quarantined.  derived_from names an item that
\* exists already.
Propose(i) ==
    /\ row[i].state = "none"
    /\ Profile[i].kind # "operator"
    /\ Profile[i].parent # None => row[Profile[i].parent].state # "none"
    /\ Insert(i, "pending", "ingest")
    /\ resubmitted' = IF Rephrases(i) THEN resubmitted \union {i} ELSE resubmitted
    /\ UNCHANGED <<negatives, job, sweep, now, evidence, consent, signatures>>

\* Mutant: negative memory is not consulted.
StartJobUnchecked(a, i) ==
    /\ job[a] = Idle
    /\ row[i].state = "pending"
    /\ evidence[i] < MaxEvidence
    /\ job' = [job EXCEPT ![a] = [step |-> "verify", item |-> i, conf |-> row[i].conf]]

\* process_one up to its await: the item is read, then the negative table.
StartJob(a, i) ==
    /\ job[a] = Idle
    /\ row[i].state = "pending"
    /\ evidence[i] < MaxEvidence
    /\ job' = [job EXCEPT ![a] =
                 [step |-> IF Rephrases(i) THEN "refuse" ELSE "verify",
                  item |-> i, conf |-> row[i].conf]]

ProcessOne(w, i) ==
    /\ w \in Worker
    /\ StartJob(w, i)
    /\ UNCHANGED <<row, lastEntry, negatives, sweep, now, history>>

\* The item repeats a refused idea: rejected, and not remembered again.
Refuse(a) ==
    /\ job[a].step = "refuse"
    /\ SetState({job[a].item}, "rejected", "reject")
    /\ job' = [job EXCEPT ![a] = Idle]
    /\ UNCHANGED <<negatives, sweep, now, history>>

\* The verdict is no ...
Reject(a) ==
    /\ job[a].step = "verify"
    /\ SetState({job[a].item}, "rejected", "reject")
    /\ job' = [job EXCEPT ![a].step = "remember"]
    /\ UNCHANGED <<negatives, sweep, now, history>>

\* ... and add_negative commits separately.
Remember(a) ==
    /\ job[a].step = "remember"
    /\ negatives' = negatives \union {Profile[job[a].item].content}
    /\ job' = [job EXCEPT ![a] = Idle]
    /\ UNCHANGED <<row, lastEntry, sweep, now, history>>

\* Mutant: the model verifier decides alone.
ModelDecides(i) == TRUE

\* The verdict can be yes: the rules are a hard filter before the model, and
\* stand in for it when it fails.
Approvable(i) == <<Profile[i].content, Profile[i].kind>> \notin RuleRejects

\* The verdict is yes; j is the job with what it read before the await.
Approved(a) ==
    LET j == job[a]
    IN  /\ j.step = "verify"
        /\ Approvable(j.item)
        /\ evidence' = [evidence EXCEPT ![j.item] = @ + 1]
        /\ job' = [job EXCEPT ![a] = Idle]
        /\ UNCHANGED <<negatives, sweep, now, consent, signatures, resubmitted>>

\* Mutant: off by one in the confirmations a T3 claim needs.
PromoteEarly(a) ==
    LET j == job[a]
    IN  /\ Approved(a)
        /\ \/ /\ TierOf[j.item] \in {"T1", "T2"}
              /\ MarkActive(j.item, 1)
           \/ /\ TierOf[j.item] = "T3"
              /\ j.conf + 2 >= Needed
              /\ MarkActive(j.item, j.conf + 1)

\* T1 and T2 are promoted by one verdict, T3 when its confirmations reach Needed.
Promote(a) ==
    LET j == job[a]
    IN  /\ Approved(a)
        /\ \/ /\ TierOf[j.item] \in {"T1", "T2"}
              /\ MarkActive(j.item, 1)
           \/ /\ TierOf[j.item] = "T3"
              /\ j.conf + 1 >= Needed
              /\ MarkActive(j.item, j.conf + 1)

\* A T3 claim short of confirmations gains one (add_confirmation increments the
\* stored value) and an expiry date (set_expiry); both are written by id.
Confirm(a) ==
    LET j == job[a]
    IN  /\ Approved(a)
        /\ TierOf[j.item] = "T3"
        /\ j.conf + 1 < Needed
        /\ row' = [row EXCEPT ![j.item].conf = @ + 1,
                              ![j.item].expires = now + TTL]
        /\ UNCHANGED lastEntry

\* T4 is never promoted by a verdict.
Hold(a) ==
    /\ Approved(a)
    /\ TierOf[job[a].item] \notin {"T1", "T2", "T3"}
    /\ UNCHANGED <<row, lastEntry>>

\* The agent's process dies, or the await is cancelled.
Crash(a) ==
    /\ job[a] # Idle \/ (a = Sweeper /\ sweep # Off)
    /\ job' = [job EXCEPT ![a] = Idle]
    /\ sweep' = IF a = Sweeper THEN Off ELSE sweep
    /\ UNCHANGED <<row, lastEntry, negatives, now, history>>

\* Mutant: approval does not look at the item's state.
ApproveAnything(i) ==
    /\ row[i].state \notin {"none", "t0_staged"}
    /\ MarkActive(i, row[i].conf)
    /\ consent' = consent \union {i}
    /\ UNCHANGED <<negatives, job, sweep, now, evidence, signatures, resubmitted>>

\* approve_pending: explicit user approval.
Approve(i) ==
    /\ row[i].state = "pending"
    /\ MarkActive(i, row[i].conf)
    /\ consent' = consent \union {i}
    /\ UNCHANGED <<negatives, job, sweep, now, evidence, signatures, resubmitted>>
-----------------------------------------------------------------------------
(* People: revocation, reaffirmation and the operator's T0 writes *)

Revoke(s) ==
    /\ Cascade(s) # {}
    /\ SetState(Cascade(s), "revoked", "revoke")
    /\ UNCHANGED <<negatives, job, sweep, now, history>>

\* store.reaffirm: no state is excluded; the rate limit counts from the last
\* promotion too once the item has been reaffirmed.
Reaffirm(i, signal) ==
    LET r == row[i]
        applied == IF signal = "strong" THEN 100 ELSE CeilingFor(r.count + 1)
    IN  /\ r.state # "none"
        /\ ~ /\ r.count > 0
             /\ r.reaffirmed # Never
             /\ now - r.reaffirmed < MinInterval
        /\ r.count < MaxCount[i]
        /\ row' = [row EXCEPT ![i].ceiling = applied, ![i].reaffirmed = now,
                              ![i].count = @ + 1]
        /\ UNCHANGED <<lastEntry, negatives, job, sweep, now, history>>

\* t0.stage_t0, the signature over the content being good.
StageT0(i) ==
    /\ row[i].state = "none"
    /\ Profile[i].kind = "operator"
    /\ Insert(i, "t0_staged", "t0_stage")
    /\ signatures' = [signatures EXCEPT ![i] = @ + 1]
    /\ UNCHANGED <<negatives, job, sweep, now, evidence, consent, resubmitted>>

\* t0.activate_t0, the second signature being good.
ActivateT0(i) ==
    /\ row[i].state = "t0_staged"
    /\ now - row[i].born >= ReviewGap
    /\ row' = [row EXCEPT ![i] = [@ EXCEPT !.state = "active", !.reaffirmed = now]]
    /\ lastEntry' = [lastEntry EXCEPT ![i] = "t0_activate"]
    /\ signatures' = [signatures EXCEPT ![i] = @ + 1]
    /\ UNCHANGED <<negatives, job, sweep, now, evidence, consent, resubmitted>>

-----------------------------------------------------------------------------
(* consolidate: five passes, each over a list read at its start *)

Enter(phase, todo) == sweep' = [phase |-> phase, todo |-> todo]
At(phase) == sweep.phase = phase /\ job[Sweeper] = Idle
Done(i) == Enter(sweep.phase, sweep.todo \ {i})

SweepStart ==
    /\ At("off")
    /\ Enter("quarantine", InState("pending"))
    /\ UNCHANGED <<row, lastEntry, negatives, job, now, history>>

\* process_pending: process_one on each, which reads the item again.
SweepProcess(i) ==
    /\ At("quarantine")
    /\ i \in sweep.todo
    /\ Done(i)
    /\ \/ StartJob(Sweeper, i)
       \/ row[i].state # "pending" /\ UNCHANGED job
    /\ UNCHANGED <<row, lastEntry, negatives, now, history>>

SweepProcessed ==
    /\ At("quarantine")
    /\ sweep.todo = {}
    /\ Enter("expire", {})
    /\ UNCHANGED <<row, lastEntry, negatives, job, now, history>>

\* expire_due: active items past their date.
SweepExpire ==
    /\ At("expire")
    /\ SetState({i \in InState("active") :
                    row[i].expires # Never /\ row[i].expires < now},
                "expired", "expire")
    /\ Enter("score", {})
    /\ UNCHANGED <<negatives, job, now, history>>

SweepScore ==
    /\ At("score")
    /\ Enter("demote", {i \in InState("active") : Decayed(i)})
    /\ UNCHANGED <<row, lastEntry, negatives, job, now, history>>

\* demote_to_quarantine: by id.
SweepDemote(i) ==
    /\ At("demote")
    /\ i \in sweep.todo
    /\ Done(i)
    /\ SetState({i}, "pending", "demote")
    /\ UNCHANGED <<negatives, job, now, history>>

SweepDemoted ==
    /\ At("demote")
    /\ sweep.todo = {}
    /\ Enter("compare", {})
    /\ UNCHANGED <<row, lastEntry, negatives, job, now, history>>

SweepCompare ==
    /\ At("compare")
    /\ \E K \in Survivors : Enter("merge", InState("active") \ K)
    /\ UNCHANGED <<row, lastEntry, negatives, job, now, history>>

\* mark_rejected on a duplicate: by id.
SweepMerge(i) ==
    /\ At("merge")
    /\ i \in sweep.todo
    /\ Done(i)
    /\ SetState({i}, "rejected", "reject")
    /\ UNCHANGED <<negatives, job, now, history>>

SweepMerged ==
    /\ At("merge")
    /\ sweep.todo = {}
    /\ Enter("off", {})
    /\ UNCHANGED <<row, lastEntry, negatives, job, now, history>>

Tick ==
    /\ now < MaxTime
    /\ now' = now + 1
    /\ UNCHANGED <<row, lastEntry, negatives, job, sweep, history>>

-----------------------------------------------------------------------------
Pipeline ==
    \/ \E i \in Item : Propose(i) \/ Approve(i)
    \/ \E w \in Worker, i \in Item : ProcessOne(w, i)
    \/ \E a \in Agent : \/ Refuse(a) \/ Reject(a) \/ Remember(a)
                        \/ Promote(a) \/ Confirm(a) \/ Hold(a) \/ Crash(a)

People ==
    \/ \E s \in Source : Revoke(s)
    \/ \E i \in Item, signal \in {"weak", "strong"} : Reaffirm(i, signal)
    \/ \E i \in Item : StageT0(i) \/ ActivateT0(i)

Consolidate ==
    \/ SweepStart \/ SweepProcessed \/ SweepExpire \/ SweepScore \/ SweepDemoted
    \/ SweepCompare \/ SweepMerged
    \/ \E i \in Item : SweepProcess(i) \/ SweepDemote(i) \/ SweepMerge(i)

Next == Pipeline \/ People \/ Consolidate \/ Tick

Spec == Init /\ [][Next]_vars

-----------------------------------------------------------------------------
(* Properties *)

TypeOK ==
    /\ row \in [Item -> Row]
    /\ lastEntry \in [Item -> LedgerAction]
    /\ negatives \subseteq Content
    /\ job \in [Agent -> Job]
    /\ \A a \in Agent : job[a].step # "idle" => job[a].item \in Item
    /\ sweep \in [phase : Phase, todo : SUBSET Item]
    /\ now \in Nat
    /\ evidence \in [Item -> Nat]
    /\ consent \subseteq Item
    /\ signatures \in [Item -> Nat]
    /\ resubmitted \subseteq Item

\* The audit ledger is enough to tell the state of every memory: whatever
\* order processes, revocations and stale writers come in, the last entry that
\* moved an item names the state it is in.
StateAfter(action) ==
    CASE action \in {"ingest", "demote"} -> "pending"
      [] action \in {"promote", "t0_activate"} -> "active"
      [] action = "reject" -> "rejected"
      [] action = "revoke" -> "revoked"
      [] action = "expire" -> "expired"
      [] action = "t0_stage" -> "t0_staged"
      [] OTHER -> "none"

LedgerTellsState == \A i \in Item : row[i].state = StateAfter(lastEntry[i])

\* Tier rules hold for every believed item, on every path into memory and
\* after any number of demotions: one verdict for T1 and T2, Needed of them for
\* T3 (although workers count confirmations from stale reads), a user for T4,
\* two operator signatures for T0.
Gate == INSTANCE TrustGate WITH believed <- InState("active")
GatePromise == Gate!Spec

\* No text the rules refuse for its kind is believed without a user's approval,
\* whatever the model verifier says and whoever processes it.
RulesAreAFloor ==
    \A i \in InState("active") :
        <<Profile[i].content, Profile[i].kind>> \in RuleRejects =>
            i \in consent \/ TierOf[i] = "T0"

\* A rephrasing proposed after the refusal was remembered is not believed
\* without a user's approval, even if it is processed much later by a pass that
\* other refusals and revocations interleave with.
RefusalIsRemembered ==
    \A i \in resubmitted : row[i].state = "active" => i \in consent

\* Weak reaffirmation never buys back trust: it leaves the ceiling where it is
\* or lowers it, also for items demoted and promoted again in between.
WeakNeverRaises ==
    [][\A i \in Item : Reaffirm(i, "weak") => row'[i].ceiling <= row[i].ceiling]_vars

\* Revocation leaves nothing behind at its edge: the items it takes include
\* every live item of some source and every live item derived from one taken.
Taken(i) == row[i].state # "revoked" /\ row'[i].state = "revoked"
RevocationIsClosed ==
    [][(\E i \in Item : Taken(i)) =>
         /\ \E s \in Source : \A i \in Item :
               Live(i) /\ Profile[i].source = s => Taken(i)
         /\ \A i, p \in Item :
               Live(i) /\ Profile[i].parent = p /\ Taken(p) => Taken(i)]_vars

\* An item refused, revoked or expired stays so, except for the writers that
\* hold it from before: a verification that read it as pending and the lists of
\* the running consolidation.  No later approval, reaffirmation or pass revives it.
Dismissed(i) == row[i].state \in {"rejected", "revoked", "expired"}
DismissedStays ==
    [][\A i \in Item : Dismissed(i) /\ row'[i].state \in {"pending", "active"} =>
         \/ \E a \in Agent : job[a].item = i /\ job[a].step = "verify"
         \/ sweep.phase = "demote" /\ i \in sweep.todo]_vars

\* Operator authority stands: an active T0 is only ever displaced by another
\* active T0 that says the same; decay, expiry, revocation and stale writers
\* never touch it.
OperatorStands ==
    [][\A i \in Item :
         TierOf[i] = "T0" /\ row[i].state = "active" /\ row'[i].state # "active" =>
             \E k \in Item \ {i} :
                 /\ TierOf[k] = "T0" /\ Profile[k].content = Profile[i].content
                 /\ row'[k].state = "active"]_vars

-----------------------------------------------------------------------------
(* What the documentation says and the code does not do (violation runs) *)

\* README.md:295-297: a decayed memory "drops out of the agent's defaults until a
\* human re-earns it".
HumanReEarns ==
    [][\A i \in Item : lastEntry[i] = "demote" /\ row'[i].state = "active" =>
         i \in consent' \/ row[i].count > 0]_vars

\* PLAN.md:224-225: revocation reaches "all memory derived from that source, and
\* everything derived from those".
DerivedFrom(j) ==
    LET D[i \in Item] == /\ Profile[i].parent # None
                         /\ Profile[i].parent = j \/ D[Profile[i].parent]
    IN  {i \in Item : D[i]}
RevocationReachesDerived ==
    [][\A j \in Item : Taken(j) =>
         \A i \in DerivedFrom(j) : row'[i].state # "active"]_vars

\* config/schema.py:43: "Unconfirmed T3 claims expire after this many days."
UnconfirmedExpires ==
    [][SweepExpire => \A i \in Item :
         TierOf[i] = "T3" /\ row[i].expires # Never /\ row[i].expires < now =>
             row'[i].state # "pending"]_vars
=============================================================================
