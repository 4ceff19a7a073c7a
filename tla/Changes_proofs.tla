---------------------------- MODULE Changes_proofs ----------------------------
(***************************************************************************)
(* What agents write of themselves, proved of Services: the skills of      *)
(* several writers at a time, and changes of the agent's own code between  *)
(* a snapshot and a test run.                                              *)
(***************************************************************************)
EXTENDS Services, SequenceTheorems, TLAPS

(* Skills.  A text is scanned before it is staged and gated before it is live,  *)
(* but by name: between the steps of one writer another may stage.              *)

Names == {text.name : text \in Text}
Writers == [pc : {"off", "stage", "gate", "move", "over"}, dir : SUBSET Names,
            text : SUBSET Text]

\* A writer at work is about one name.
WritersTyped ==
    /\ staging \in [Name -> SUBSET Text] /\ live \in [Name -> SUBSET Text]
    /\ writer \in [Writer -> Writers]
    /\ \A w \in Writer : Skilled!Busy(w) => \E n \in Names : writer[w].dir = {n}

About(w, n) == Skilled!Busy(w) /\ writer[w].dir = {n}

\* Whatever is in a directory, or about to be, passed the scan.
Scanned == /\ \A n \in Name : staging[n] \subseteq lawful /\ live[n] \subseteq lawful
           /\ \A w \in Writer : Skilled!Busy(w) => writer[w].text \subseteq lawful

\* Unless two writers of a name overlapped, what is staged under it is the text of the
\* writer that is past staging, and what is live was gated.
OneEach == \A n \in Name \ mixed : \A w, x \in Writer : About(w, n) /\ About(x, n) => w = x

StagedIsOwn == \A n \in Name \ mixed : \A w \in Writer :
                  About(w, n) /\ writer[w].pc \in {"gate", "move"} => staging[n] = writer[w].text

Gated == /\ \A w \in Writer : writer[w].pc = "move" => writer[w].text \subseteq gated
         /\ \A n \in Name \ mixed : live[n] \subseteq gated

Vetted == WritersTyped /\ Scanned /\ OneEach /\ StagedIsOwn /\ Gated

LEMMA ScanRefuses ==
  ASSUME NEW findings, NEW force, Skilled!MayInstall(findings, force)
  PROVE  "danger" \notin findings
  BY DEF Skilled!MayInstall, Skilled!Worst

LEMMA OffTyped == /\ Skilled!Off \in Writers /\ Skilled!Off.pc = "off"
  BY DEF Skilled!Off, Writers

LEMMA VettedInit == Skilled!Init => Vetted
<1> SUFFICES ASSUME Skilled!Init PROVE Vetted
  OBVIOUS
<1>1. /\ staging = [n \in Name |-> {}] /\ live = [n \in Name |-> {}]
      /\ writer = [w \in Writer |-> Skilled!Off]
  BY DEF Skilled!Init, Skilled!Nothing
<1>2. \A w \in Writer : writer[w].pc = "off"
  BY <1>1, OffTyped
<1>3. WritersTyped
  BY <1>1, <1>2, OffTyped DEF WritersTyped, Skilled!Busy
<1> QED
  BY <1>1, <1>2, <1>3 DEF Vetted, Scanned, OneEach, StagedIsOwn, Gated, About, Skilled!Busy

\* One writer's record changes.
LEMMA WriterGoes ==
  ASSUME WritersTyped, NEW w \in Writer, NEW pc \in {"gate", "move", "over"},
         Skilled!Goes(w, pc)
  PROVE  /\ writer' \in [Writer -> Writers] /\ writer'[w].pc = pc
         /\ writer'[w].dir = writer[w].dir /\ writer'[w].text = writer[w].text
         /\ \A x \in Writer \ {w} : writer'[x] = writer[x]
<1>1. writer[w] \in Writers /\ writer' = [writer EXCEPT ![w].pc = pc]
  BY DEF WritersTyped, Skilled!Goes
<1>2. [writer[w] EXCEPT !.pc = pc] \in Writers
  BY <1>1 DEF Writers
<1> QED
  BY <1>1, <1>2 DEF WritersTyped, Writers

\* A directory's content changes.
LEMMA DirSet ==
  ASSUME NEW dirs \in [Name -> SUBSET Text], NEW n, NEW S \in SUBSET Text
  PROVE  /\ [dirs EXCEPT ![n] = S] \in [Name -> SUBSET Text]
         /\ \A m \in Name : [dirs EXCEPT ![n] = S][m] = IF m = n THEN S ELSE dirs[m]
  OBVIOUS

LEMMA CreateVetted ==
  ASSUME Vetted, NEW w \in Writer, NEW text \in Text, NEW force, Skilled!Create(w, text, force)
  PROVE  Vetted'
<1> DEFINE x == [pc |-> "stage", dir |-> {text.name}, text |-> {text}]
<1>1. /\ writer[w].pc = "off" /\ writer' = [writer EXCEPT ![w] = x]
      /\ lawful' = lawful \union {text} /\ UNCHANGED <<staging, live, gated>>
      /\ mixed' = mixed \union {n \in {text.name} : \E y \in Writer : About(y, n)}
  BY ScanRefuses DEF Skilled!Create, About
<1>2. x \in Writers /\ x.pc = "stage" /\ x.dir = {text.name} /\ x.text = {text}
  BY DEF Writers, Names
<1> HIDE DEF x
<1>3. /\ writer' \in [Writer -> Writers] /\ writer'[w] = x
      /\ \A y \in Writer \ {w} : writer'[y] = writer[y]
  BY <1>1, <1>2 DEF Vetted, WritersTyped
<1>4. WritersTyped'
  BY <1>1, <1>2, <1>3 DEF Vetted, WritersTyped, Skilled!Busy, Names
<1>5. Scanned'
  BY <1>1, <1>2, <1>3 DEF Vetted, Scanned, Skilled!Busy
<1>6. OneEach'
  <2> SUFFICES ASSUME NEW n \in Name \ mixed', NEW y \in Writer, NEW z \in Writer,
                      About(y, n)', About(z, n)'
               PROVE  y = z
    BY DEF OneEach
  <2>1. \A v \in Writer \ {w} : About(v, n)' => About(v, n)
    BY <1>3 DEF About, Skilled!Busy
  <2>2. About(w, n)' => n = text.name
    BY <1>2, <1>3 DEF About
  <2>3. n \notin mixed /\ (n = text.name => \A v \in Writer : ~About(v, n))
    BY <1>1
  <2> QED
    BY <2>1, <2>2, <2>3 DEF Vetted, OneEach
<1>7. StagedIsOwn'
  BY <1>1, <1>2, <1>3 DEF Vetted, StagedIsOwn, About, Skilled!Busy
<1>8. Gated'
  BY <1>1, <1>2, <1>3 DEF Vetted, Gated
<1> QED
  BY <1>4, <1>5, <1>6, <1>7, <1>8 DEF Vetted

\* A writer goes on or ends; nobody else becomes busy.
LEMMA GoesVetted ==
  ASSUME Vetted, NEW w \in Writer, NEW pc \in {"gate", "move", "over"}, Skilled!Goes(w, pc),
         pc = "over" \/ Skilled!Busy(w), UNCHANGED <<lawful, mixed>>
  PROVE  /\ WritersTyped' <=> staging' \in [Name -> SUBSET Text] /\ live' \in [Name -> SUBSET Text]
         /\ OneEach'
         /\ \A x \in Writer : Skilled!Busy(x)' => Skilled!Busy(x) /\ writer'[x].text = writer[x].text
         /\ \A x \in Writer : \A n \in Name : About(x, n)' => About(x, n)
<1>1. /\ writer' \in [Writer -> Writers] /\ writer'[w].pc = pc
      /\ writer'[w].dir = writer[w].dir /\ writer'[w].text = writer[w].text
      /\ \A x \in Writer \ {w} : writer'[x] = writer[x]
  BY WriterGoes DEF Vetted
<1>2. \A x \in Writer : Skilled!Busy(x)' => /\ Skilled!Busy(x)
                                            /\ writer'[x].text = writer[x].text
                                            /\ writer'[x].dir = writer[x].dir
  BY <1>1 DEF Skilled!Busy
<1>3. \A x \in Writer : \A n \in Name : About(x, n)' => About(x, n)
  BY <1>2 DEF About
<1>4. OneEach'
  BY <1>3 DEF Vetted, OneEach
<1>5. \A x \in Writer : Skilled!Busy(x)' => \E n \in Names : writer'[x].dir = {n}
  BY <1>2 DEF Vetted, WritersTyped
<1>6. WritersTyped' <=> staging' \in [Name -> SUBSET Text] /\ live' \in [Name -> SUBSET Text]
  BY <1>1, <1>5 DEF WritersTyped, Writers, Names
<1> QED
  BY <1>2, <1>3, <1>4, <1>6

\* What a writer at work holds is of one name, and it is the only one of that name.
LEMMA WriterAt ==
  ASSUME Vetted, NEW w \in Writer, Skilled!Busy(w), NEW n \in writer[w].dir
  PROVE  /\ writer[w].dir = {n} /\ About(w, n) /\ writer[w].text \in SUBSET Text
         /\ writer[w].text \subseteq lawful
         /\ n \in Name \ mixed => \A x \in Writer : About(x, n) => x = w
<1>1. writer[w].dir = {n} /\ writer[w].text \in SUBSET Text
  BY DEF Vetted, WritersTyped, Writers
<1>2. About(w, n)
  BY <1>1 DEF About
<1> QED
  BY <1>1, <1>2 DEF Vetted, Scanned, OneEach

LEMMA StageVetted ==
  ASSUME Vetted, NEW w \in Writer, Skilled!Stage(w)
  PROVE  Vetted'
<1>1. PICK n \in writer[w].dir : staging' = [staging EXCEPT ![n] = writer[w].text]
  BY DEF Skilled!Stage
<1>2. /\ Skilled!Busy(w) /\ Skilled!Goes(w, "gate") /\ UNCHANGED <<live, lawful, gated, mixed>>
      /\ writer[w].pc = "stage"
  BY DEF Skilled!Stage, Skilled!Busy
<1>3. /\ writer[w].dir = {n} /\ About(w, n) /\ writer[w].text \in SUBSET Text
      /\ writer[w].text \subseteq lawful
      /\ n \in Name \ mixed => \A x \in Writer : About(x, n) => x = w
  BY <1>2, WriterAt
<1>4. /\ staging' \in [Name -> SUBSET Text]
      /\ \A m \in Name : staging'[m] = IF m = n THEN writer[w].text ELSE staging[m]
  BY <1>1, <1>3, DirSet DEF Vetted, WritersTyped
<1>5. /\ WritersTyped' /\ OneEach'
      /\ \A x \in Writer : Skilled!Busy(x)' => Skilled!Busy(x) /\ writer'[x].text = writer[x].text
      /\ \A x \in Writer : \A m \in Name : About(x, m)' => About(x, m)
  BY <1>2, <1>4, GoesVetted DEF Vetted, WritersTyped
<1>6. writer'[w].pc = "gate" /\ \A x \in Writer \ {w} : writer'[x] = writer[x]
  BY <1>2, WriterGoes DEF Vetted
<1>7. Scanned'
  BY <1>2, <1>3, <1>4, <1>5 DEF Vetted, Scanned
<1>8. StagedIsOwn'
  <2> SUFFICES ASSUME NEW m \in Name \ mixed, NEW x \in Writer, About(x, m)',
                      writer'[x].pc \in {"gate", "move"}
               PROVE  staging'[m] = writer'[x].text
    BY <1>2 DEF StagedIsOwn
  <2>1. About(x, m) /\ writer'[x].text = writer[x].text
    BY <1>5 DEF About
  <2>2. CASE x = w
    BY <2>1, <2>2, <1>3, <1>4 DEF About
  <2>3. CASE x # w
    BY <2>1, <2>3, <1>3, <1>4, <1>6 DEF Vetted, StagedIsOwn
  <2> QED
    BY <2>2, <2>3
<1>9. Gated'
  BY <1>2, <1>5, <1>6 DEF Vetted, Gated, Skilled!Busy
<1> QED
  BY <1>5, <1>7, <1>8, <1>9 DEF Vetted

LEMMA GateFailsVetted ==
  ASSUME Vetted, NEW w \in Writer, Skilled!GateFails(w)
  PROVE  Vetted'
<1>1. PICK n \in writer[w].dir : staging' = [staging EXCEPT ![n] = {}]
  BY DEF Skilled!GateFails, Skilled!Nothing
<1>2. /\ Skilled!Busy(w) /\ Skilled!Goes(w, "over") /\ UNCHANGED <<live, lawful, gated, mixed>>
  BY DEF Skilled!GateFails, Skilled!Busy
<1>3. n \in Name \ mixed => \A x \in Writer : About(x, n) => x = w
  BY <1>2, WriterAt
<1>4. /\ staging' \in [Name -> SUBSET Text]
      /\ \A m \in Name : staging'[m] = IF m = n THEN {} ELSE staging[m]
  BY <1>1, DirSet DEF Vetted, WritersTyped
<1>5. /\ WritersTyped' /\ OneEach'
      /\ \A x \in Writer : Skilled!Busy(x)' => Skilled!Busy(x) /\ writer'[x].text = writer[x].text
      /\ \A x \in Writer : \A m \in Name : About(x, m)' => About(x, m)
  BY <1>2, <1>4, GoesVetted DEF Vetted, WritersTyped
<1>6. writer'[w].pc = "over" /\ \A x \in Writer \ {w} : writer'[x] = writer[x]
  BY <1>2, WriterGoes DEF Vetted
<1>7. Scanned'
  BY <1>2, <1>4, <1>5 DEF Vetted, Scanned
<1>8. StagedIsOwn'
  <2> SUFFICES ASSUME NEW m \in Name \ mixed, NEW x \in Writer, About(x, m)',
                      writer'[x].pc \in {"gate", "move"}
               PROVE  staging'[m] = writer'[x].text
    BY <1>2 DEF StagedIsOwn
  <2>1. About(x, m) /\ x # w
    BY <1>5, <1>6
  <2> QED
    BY <2>1, <1>3, <1>4, <1>6 DEF Vetted, StagedIsOwn
<1>9. Gated'
  BY <1>2, <1>5, <1>6 DEF Vetted, Gated, Skilled!Busy
<1> QED
  BY <1>5, <1>7, <1>8, <1>9 DEF Vetted

LEMMA GatePassesVetted ==
  ASSUME Vetted, NEW w \in Writer, Skilled!GatePasses(w)
  PROVE  Vetted'
<1>1. PICK n \in writer[w].dir : live' = [live EXCEPT ![n] = {}]
  BY DEF Skilled!GatePasses, Skilled!Nothing
<1>2. /\ Skilled!Busy(w) /\ Skilled!Goes(w, "move") /\ UNCHANGED <<staging, lawful, mixed>>
      /\ writer[w].pc = "gate" /\ gated' = gated \union writer[w].text
  BY DEF Skilled!GatePasses, Skilled!Busy
<1>4. /\ live' \in [Name -> SUBSET Text]
      /\ \A m \in Name : live'[m] = IF m = n THEN {} ELSE live[m]
  BY <1>1, DirSet DEF Vetted, WritersTyped
<1>5. /\ WritersTyped' /\ OneEach'
      /\ \A x \in Writer : Skilled!Busy(x)' => Skilled!Busy(x) /\ writer'[x].text = writer[x].text
      /\ \A x \in Writer : \A m \in Name : About(x, m)' => About(x, m)
  BY <1>2, <1>4, GoesVetted DEF Vetted, WritersTyped
<1>6. writer'[w].pc = "move" /\ \A x \in Writer \ {w} : writer'[x] = writer[x]
  BY <1>2, WriterGoes DEF Vetted
<1>7. Scanned'
  BY <1>2, <1>4, <1>5 DEF Vetted, Scanned
<1>8. StagedIsOwn'
  BY <1>2, <1>5, <1>6 DEF Vetted, StagedIsOwn, About
<1>9. Gated'
  BY <1>2, <1>4, <1>5, <1>6 DEF Vetted, Gated, Skilled!Busy
<1> QED
  BY <1>5, <1>7, <1>8, <1>9 DEF Vetted

\* What moves into the place of a name nobody else writes is what its gate was asked about.
LEMMA PromoteVetted ==
  ASSUME Vetted, NEW w \in Writer, Skilled!Promote(w)
  PROVE  Vetted'
<1>1. PICK n \in writer[w].dir :
         /\ live' = IF live[n] = {} THEN [live EXCEPT ![n] = staging[n]] ELSE live
         /\ staging' = [staging EXCEPT ![n] = {}]
  BY DEF Skilled!Promote, Skilled!Nothing
<1>2. /\ Skilled!Busy(w) /\ Skilled!Goes(w, "over") /\ UNCHANGED <<lawful, gated, mixed>>
      /\ writer[w].pc = "move"
  BY DEF Skilled!Promote, Skilled!Busy
<1>3. /\ n \in Name \ mixed => \A x \in Writer : About(x, n) => x = w
      /\ About(w, n)
  BY <1>2, WriterAt
<1>4. /\ staging' \in [Name -> SUBSET Text]
      /\ \A m \in Name : staging'[m] = IF m = n THEN {} ELSE staging[m]
  BY <1>1, DirSet DEF Vetted, WritersTyped
<1>5. /\ live' \in [Name -> SUBSET Text]
      /\ \A m \in Name : live'[m] = live[m] \/ (m = n /\ live'[m] = staging[m])
  <2>1. CASE n \in Name
    BY <2>1, <1>1, DirSet DEF Vetted, WritersTyped
  <2>2. CASE n \notin Name
    BY <2>2, <1>1 DEF Vetted, WritersTyped
  <2> QED
    BY <2>1, <2>2
<1>6. /\ WritersTyped' /\ OneEach'
      /\ \A x \in Writer : Skilled!Busy(x)' => Skilled!Busy(x) /\ writer'[x].text = writer[x].text
      /\ \A x \in Writer : \A m \in Name : About(x, m)' => About(x, m)
  BY <1>2, <1>4, <1>5, GoesVetted DEF Vetted, WritersTyped
<1>7. writer'[w].pc = "over" /\ \A x \in Writer \ {w} : writer'[x] = writer[x]
  BY <1>2, WriterGoes DEF Vetted
<1>8. Scanned'
  BY <1>2, <1>4, <1>5, <1>6 DEF Vetted, Scanned
<1>9. StagedIsOwn'
  <2> SUFFICES ASSUME NEW m \in Name \ mixed, NEW x \in Writer, About(x, m)',
                      writer'[x].pc \in {"gate", "move"}
               PROVE  staging'[m] = writer'[x].text
    BY <1>2 DEF StagedIsOwn
  <2>1. About(x, m) /\ x # w
    BY <1>6, <1>7
  <2> QED
    BY <2>1, <1>3, <1>4, <1>7 DEF Vetted, StagedIsOwn
<1>10. Gated'
  <2>1. n \in Name \ mixed => staging[n] \subseteq gated
    BY <1>2, <1>3 DEF Vetted, StagedIsOwn, Gated
  <2> QED
    BY <2>1, <1>2, <1>5, <1>6, <1>7 DEF Vetted, Gated, Skilled!Busy
<1> QED
  BY <1>6, <1>8, <1>9, <1>10 DEF Vetted

\* A writer that deletes a skill, or dies.
LEMMA EndVetted ==
  ASSUME Vetted, NEW w \in Writer, Skilled!Goes(w, "over"), UNCHANGED <<staging, lawful, gated, mixed>>,
         NEW n, live' = live \/ live' = [live EXCEPT ![n] = {}]
  PROVE  Vetted'
<1>1. /\ live' \in [Name -> SUBSET Text]
      /\ \A m \in Name : live'[m] \in {live[m], {}}
  BY DEF Vetted, WritersTyped
<1>2. /\ WritersTyped' /\ OneEach'
      /\ \A x \in Writer : Skilled!Busy(x)' => Skilled!Busy(x) /\ writer'[x].text = writer[x].text
      /\ \A x \in Writer : \A m \in Name : About(x, m)' => About(x, m)
  BY <1>1, GoesVetted DEF Vetted, WritersTyped
<1>3. writer'[w].pc = "over" /\ \A x \in Writer \ {w} : writer'[x] = writer[x]
  BY WriterGoes DEF Vetted
<1>4. Scanned'
  BY <1>1, <1>2 DEF Vetted, Scanned
<1>5. StagedIsOwn'
  BY <1>2, <1>3 DEF Vetted, StagedIsOwn, About
<1>6. Gated'
  BY <1>1, <1>2, <1>3 DEF Vetted, Gated, Skilled!Busy
<1> QED
  BY <1>2, <1>4, <1>5, <1>6 DEF Vetted

LEMMA VettedStep == Vetted /\ [Next]_vars => Vetted'
<1> SUFFICES ASSUME Vetted, [Next]_vars PROVE Vetted'
  OBVIOUS
<1>1. Skilled!Next \/ UNCHANGED skillVars
  BY DEF Next, vars
<1>2. CASE UNCHANGED skillVars
  <2>1. UNCHANGED <<staging, live, writer, lawful, gated, mixed>>
    BY <1>2 DEF skillVars
  <2>2. WritersTyped' /\ Scanned' /\ Gated'
    BY <2>1 DEF Vetted, WritersTyped, Scanned, Gated, Skilled!Busy
  <2>3. OneEach' /\ StagedIsOwn'
    BY <2>1 DEF Vetted, OneEach, StagedIsOwn, About, Skilled!Busy
  <2> QED
    BY <2>2, <2>3 DEF Vetted
<1>3. ASSUME NEW w \in Writer, NEW n \in Name, Skilled!Delete(w, n)
      PROVE  Vetted'
  <2>1. /\ Skilled!Goes(w, "over") /\ live' = [live EXCEPT ![n] = {}]
        /\ UNCHANGED <<staging, lawful, gated, mixed>>
    BY <1>3 DEF Skilled!Delete, Skilled!Nothing
  <2> QED
    BY <2>1, EndVetted
<1>4. ASSUME NEW w \in Writer, Skilled!Die(w)
      PROVE  Vetted'
  BY <1>4, EndVetted DEF Skilled!Die
<1>5. ASSUME NEW w \in Writer, NEW n \in Name, NEW text \in Text, NEW force \in BOOLEAN,
             Skilled!Patch(w, n, text, force)
      PROVE  Vetted'
  BY <1>5, CreateVetted DEF Skilled!Patch
<1>6. CASE Skilled!Next
  BY <1>3, <1>4, <1>5, <1>6, CreateVetted, StageVetted, GateFailsVetted, GatePassesVetted,
     PromoteVetted
  DEF Skilled!Next, Skilled!SkillManage
<1> QED
  BY <1>1, <1>2, <1>6

\* Every skill the model is shown is a bundled one, or passed the scan and, unless
\* writers of its name overlapped, a gate that was asked about this very text: for any
\* number of writers, names and texts.
THEOREM SkillsAreVetted == Spec => []ShownIsVetted
<1>1. Init => Vetted
  BY VettedInit DEF Init
<1>2. ASSUME Vetted
      PROVE  ShownIsVetted
  <2>1. ASSUME NEW n \in Name
        PROVE  Skilled!Dir(n) \subseteq lawful \union Bundled[n]
    BY <1>2 DEF Vetted, Scanned, Skilled!Dir
  <2>2. Skilled!Shown \subseteq UNION {Skilled!Dir(n) : n \in Name}
    BY DEF Skilled!Shown, Skilled!Loaded, Skilled!View
  <2> QED
    BY <1>2, <2>1, <2>2 DEF ShownIsVetted, Skilled!ShownIsVetted, Vetted, Gated
<1> QED
  BY <1>1, <1>2, VettedStep, PTL DEF Spec

-----------------------------------------------------------------------------
(* Changes of the agent's own code.  A commit is never lost, so it is enough that  *)
(* the restore point of a change is a commit of the tree the change began with.    *)

Trees == [File -> Nat]
Commits == [tree : Trees, parent : Nat]

TreesTyped ==
    /\ tree \in Trees /\ edits \in Nat
    /\ commits \in Seq(Commits) /\ head \in 1..Len(commits)
    /\ \A k \in 1..Len(commits) : commits[k].parent \in 1..Len(commits)
    /\ change \in [pc : {"none", "mutate", "gate"}, ref : Nat]
    /\ outcome \in [kept : BOOLEAN, over : BOOLEAN, before : Trees]
    /\ uncommitted \in BOOLEAN

\* A change under way has a restore point: a commit, and if git took it one of the tree
\* the change began with.
Begun ==
    change.pc # "none" =>
        /\ change.ref \in 1..Len(commits)
        /\ ~uncommitted => /\ ~outcome.over /\ ~outcome.kept
                           /\ commits[change.ref].tree = outcome.before

Saved == ~uncommitted => owned \subseteq Changing!Committed

Restored ==
    ~uncommitted /\ outcome.over /\ ~outcome.kept =>
        \A f \in File : outcome.before[f] # Changing!Gone => tree[f] = outcome.before[f]

Recorded == TreesTyped /\ Begun /\ Saved /\ Restored

LEMMA RecordedInit == Changing!Init => Recorded
<1> SUFFICES ASSUME Changing!Init PROVE Recorded
  OBVIOUS
<1> DEFINE first == [tree |-> Changing!Empty, parent |-> 1]
<1>1. Changing!Empty \in Trees
  BY DEF Changing!Empty, Changing!Gone, Trees
<1>2. first \in Commits /\ first.parent = 1
  BY <1>1 DEF Commits
<1> HIDE DEF first
<1>3. commits = <<first>> /\ commits \in Seq(Commits) /\ Len(commits) = 1 /\ commits[1] = first
  BY <1>2 DEF Changing!Init, first
<1>4. /\ head \in 1..Len(commits)
      /\ \A k \in 1..Len(commits) : commits[k].parent \in 1..Len(commits)
  BY <1>2, <1>3 DEF Changing!Init
<1>5. tree \in Trees /\ edits \in Nat /\ uncommitted \in BOOLEAN
  BY <1>1 DEF Changing!Init
<1>6. /\ change \in [pc : {"none", "mutate", "gate"}, ref : Nat]
      /\ outcome \in [kept : BOOLEAN, over : BOOLEAN, before : Trees]
  BY <1>1 DEF Changing!Init, Changing!NoChange
<1>7. TreesTyped
  BY <1>3, <1>4, <1>5, <1>6 DEF TreesTyped
<1> QED
  BY <1>7 DEF Changing!Init, Changing!NoChange, Recorded, Begun, Saved, Restored

\* An edit is a version of one file.
LEMMA WriteTyped ==
  ASSUME TreesTyped, NEW f \in File, Changing!Write(f)
  PROVE  tree' \in Trees /\ edits' \in Nat
  BY DEF TreesTyped, Trees, Changing!Write, Changing!Gone

LEMMA CommitAdded ==
  ASSUME TreesTyped, NEW c \in Commits, commits' = Append(commits, c)
  PROVE  /\ commits' \in Seq(Commits) /\ Len(commits') = Len(commits) + 1
         /\ \A k \in 1..Len(commits) : commits'[k] = commits[k]
         /\ commits'[Len(commits) + 1] = c
         /\ Changing!Committed \union Changing!Versions(c.tree) \subseteq Changing!Committed'
<1>1. /\ commits' \in Seq(Commits) /\ Len(commits') = Len(commits) + 1
      /\ \A k \in 1..Len(commits) : commits'[k] = commits[k]
      /\ commits'[Len(commits) + 1] = c
  BY DEF TreesTyped
<1>2. Len(commits) \in Nat
  BY DEF TreesTyped
<1>3. \A k \in 1..Len(commits) : k \in 1..Len(commits')
  BY <1>1, <1>2
<1>4. Len(commits) + 1 \in 1..Len(commits')
  BY <1>1, <1>2
<1>5. Changing!Committed \subseteq Changing!Committed'
  BY <1>1, <1>3 DEF Changing!Committed, Changing!Versions
<1>6. Changing!Versions(c.tree) \subseteq Changing!Committed'
  BY <1>1, <1>4 DEF Changing!Committed, Changing!Versions
<1> QED
  BY <1>1, <1>5, <1>6

LEMMA SnapshotRecorded ==
  ASSUME Recorded, Changing!Snapshot
  PROVE  Recorded'
<1> DEFINE c == [tree |-> tree, parent |-> head]
<1>1. /\ change' = [pc |-> "mutate", ref |-> head']
      /\ owned' = owned \union Changing!Versions(tree)
      /\ outcome' = [kept |-> FALSE, over |-> FALSE, before |-> tree]
      /\ UNCHANGED <<tree, edits>>
      /\ \/ commits' = Append(commits, c) /\ head' = Len(commits) + 1 /\ UNCHANGED uncommitted
         \/ uncommitted' = TRUE /\ UNCHANGED <<commits, head>>
  BY DEF Changing!Snapshot, Changing!Begins
<1>2. c \in Commits /\ c.tree = tree /\ c.parent = head
  BY DEF Recorded, TreesTyped, Commits
<1> HIDE DEF c
<1>3. CASE uncommitted' = TRUE /\ UNCHANGED <<commits, head>>
  BY <1>1, <1>3 DEF Recorded, TreesTyped, Begun, Saved, Restored
<1>4. CASE commits' = Append(commits, c) /\ head' = Len(commits) + 1 /\ UNCHANGED uncommitted
  <2>1. /\ commits' \in Seq(Commits) /\ Len(commits') = Len(commits) + 1
        /\ \A k \in 1..Len(commits) : commits'[k] = commits[k]
        /\ commits'[Len(commits) + 1] = c
        /\ Changing!Committed \union Changing!Versions(c.tree) \subseteq Changing!Committed'
    BY <1>2, <1>4, CommitAdded DEF Recorded
  <2>2. /\ Len(commits) \in Nat /\ head \in 1..Len(commits)
        /\ \A k \in 1..Len(commits) : commits[k].parent \in 1..Len(commits)
    BY DEF Recorded, TreesTyped
  <2>3. head' \in 1..Len(commits') /\ head' = Len(commits) + 1 /\ head' \in Nat
    BY <1>4, <2>1, <2>2
  <2>4. \A k \in 1..Len(commits') : commits'[k].parent \in 1..Len(commits')
    <3> SUFFICES ASSUME NEW k \in 1..Len(commits')
                 PROVE  commits'[k].parent \in 1..Len(commits')
      OBVIOUS
    <3>1. k \in 1..Len(commits) \/ k = Len(commits) + 1
      <4>1. Len(commits') = Len(commits) + 1 /\ Len(commits) \in Nat
        BY <2>1, <2>2
      <4> QED
        BY <4>1
    <3>2. CASE k \in 1..Len(commits)
      <4>1. commits'[k].parent = commits[k].parent
        BY <2>1, <3>2
      <4>2. commits[k].parent \in 1..Len(commits)
        BY <2>2, <3>2
      <4> QED
        BY <4>1, <4>2, <2>1, <2>2
    <3>3. CASE k = Len(commits) + 1
      <4>1. commits'[k].parent = head
        BY <1>2, <2>1, <3>3
      <4> QED
        BY <4>1, <2>1, <2>2
    <3> QED
      BY <3>1, <3>2, <3>3
  <2>5. TreesTyped'
    BY <1>1, <1>4, <2>1, <2>3, <2>4 DEF Recorded, TreesTyped
  <2>6. Begun'
    BY <1>1, <1>2, <2>1, <2>3 DEF Begun
  <2>7. Saved'
    BY <1>1, <1>2, <1>4, <2>1 DEF Recorded, Saved
  <2> QED
    BY <1>1, <2>5, <2>6, <2>7 DEF Recorded, Restored
<1> QED
  BY <1>1, <1>3, <1>4

\* What reset --hard leaves is a tree, and has what the commit has.
LEMMA ResetTyped ==
  ASSUME TreesTyped, NEW ref \in 1..Len(commits), Changing!ResetTo(ref)
  PROVE  /\ tree' \in Trees /\ head' = ref
         /\ \A f \in File : commits[ref].tree[f] # Changing!Gone => tree'[f] = commits[ref].tree[f]
<1>1. commits[ref].tree \in Trees
  <2>1. commits[ref] \in Commits
    BY DEF TreesTyped
  <2> QED
    BY <2>1 DEF Commits
<1>2. /\ head' = ref
      /\ tree' = [f \in File |-> IF commits[ref].tree[f] # Changing!Gone \/ f \in index
                                   THEN commits[ref].tree[f] ELSE tree[f]]
  BY DEF Changing!ResetTo
<1> QED
  BY <1>1, <1>2 DEF TreesTyped, Trees

LEMMA RollbackRecorded ==
  ASSUME Recorded, Changing!Rollback
  PROVE  Recorded'
<1>1. /\ change.pc # "none" /\ Changing!ResetTo(change.ref) /\ change' = [pc |-> "none", ref |-> 0]
      /\ outcome' = [outcome EXCEPT !.over = TRUE]
      /\ UNCHANGED <<commits, edits, owned, uncommitted>>
  BY DEF Changing!Rollback, Changing!NoChange
<1>2. change.ref \in 1..Len(commits)
  BY <1>1 DEF Recorded, Begun
<1>3. /\ tree' \in Trees /\ head' = change.ref
      /\ \A f \in File : commits[change.ref].tree[f] # Changing!Gone
                            => tree'[f] = commits[change.ref].tree[f]
  BY <1>1, <1>2, ResetTyped DEF Recorded
<1>4. TreesTyped'
  BY <1>1, <1>2, <1>3 DEF Recorded, TreesTyped
<1>5. outcome'.before = outcome.before /\ outcome'.kept = outcome.kept
  BY <1>1 DEF Recorded, TreesTyped
<1>6. Restored'
  BY <1>1, <1>3, <1>5 DEF Recorded, Begun, Restored, Changing!Gone
<1>7. Saved'
  BY <1>1 DEF Recorded, Saved, Changing!Committed, Changing!Versions
<1> QED
  BY <1>1, <1>4, <1>6, <1>7 DEF Recorded, Begun

LEMMA UserRollsBackRecorded ==
  ASSUME Recorded, Changing!UserRollsBack
  PROVE  Recorded'
<1>1. /\ change.pc = "none" /\ Changing!ResetTo(commits[head].parent)
      /\ outcome' = [outcome EXCEPT !.over = FALSE]
      /\ UNCHANGED <<commits, change, edits, owned, uncommitted>>
  BY DEF Changing!UserRollsBack
<1>2. commits[head].parent \in 1..Len(commits)
  BY DEF Recorded, TreesTyped
<1>3. tree' \in Trees /\ head' = commits[head].parent
  BY <1>1, <1>2, ResetTyped DEF Recorded
<1>4. TreesTyped' /\ outcome'.over = FALSE
  BY <1>1, <1>2, <1>3 DEF Recorded, TreesTyped
<1>5. Saved'
  BY <1>1 DEF Recorded, Saved, Changing!Committed, Changing!Versions
<1> QED
  BY <1>1, <1>4, <1>5 DEF Recorded, Begun, Restored

\* A step that leaves the commits alone and, while a change is under way, its outcome open.
LEMMA EditRecorded ==
  ASSUME Recorded, NEW f \in File, Changing!UserEdits(f) \/ Changing!Mutate(f)
  PROVE  Recorded'
<1>1. /\ Changing!Write(f) /\ UNCHANGED <<commits, head, change, owned, uncommitted>>
      /\ \/ change.pc = "none" /\ outcome' = [outcome EXCEPT !.over = FALSE]
         \/ change.pc = "mutate" /\ outcome' = outcome
  BY DEF Changing!UserEdits, Changing!Mutate
<1>2. TreesTyped'
  BY <1>1, WriteTyped DEF Recorded, TreesTyped
<1>3. /\ outcome'.over = FALSE \/ (outcome' = outcome /\ change.pc # "none")
      /\ change.pc # "none" => outcome' = outcome
  BY <1>1 DEF Recorded, TreesTyped
<1>4. Saved'
  BY <1>1 DEF Recorded, Saved, Changing!Committed, Changing!Versions
<1>5. Begun' /\ Restored'
  BY <1>1, <1>3 DEF Recorded, Begun, Restored
<1> QED
  BY <1>2, <1>4, <1>5 DEF Recorded

LEMMA RecordedStep == Recorded /\ [Next]_vars => Recorded'
<1> SUFFICES ASSUME Recorded, [Next]_vars PROVE Recorded'
  OBVIOUS
<1>1. Changing!Next \/ UNCHANGED selfmodVars
  BY DEF Next, vars
<1>2. CASE UNCHANGED selfmodVars
  <2>1. UNCHANGED <<tree, commits, head, change, edits, owned, uncommitted, outcome>>
    BY <1>2 DEF selfmodVars
  <2> QED
    BY <2>1 DEF Recorded, TreesTyped, Begun, Saved, Restored, Changing!Committed,
       Changing!Versions
<1>3. CASE Changing!Mutated
  <2>1. /\ change' = [change EXCEPT !.pc = "gate"] /\ change.pc = "mutate"
        /\ UNCHANGED <<tree, commits, head, edits, owned, uncommitted, outcome>>
    BY <1>3 DEF Changing!Mutated
  <2>2. change' \in [pc : {"none", "mutate", "gate"}, ref : Nat] /\ change'.ref = change.ref
    BY <2>1 DEF Recorded, TreesTyped
  <2> QED
    BY <2>1, <2>2 DEF Recorded, TreesTyped, Begun, Saved, Restored, Changing!Committed,
       Changing!Versions
<1>4. CASE Changing!Keep
  <2>1. /\ change' = [pc |-> "none", ref |-> 0]
        /\ outcome' = [outcome EXCEPT !.kept = TRUE, !.over = TRUE]
        /\ UNCHANGED <<tree, commits, head, edits, owned, uncommitted>>
    BY <1>4 DEF Changing!Keep, Changing!NoChange
  <2>2. TreesTyped' /\ outcome'.kept
    BY <2>1 DEF Recorded, TreesTyped
  <2> QED
    BY <2>1, <2>2 DEF Recorded, Begun, Saved, Restored, Changing!Committed, Changing!Versions
<1>5. CASE Changing!Die
  <2>1. /\ change' = [pc |-> "none", ref |-> 0]
        /\ UNCHANGED <<tree, commits, head, edits, owned, uncommitted, outcome>>
    BY <1>5 DEF Changing!Die, Changing!NoChange
  <2> QED
    BY <2>1 DEF Recorded, TreesTyped, Begun, Saved, Restored, Changing!Committed,
       Changing!Versions
<1>6. CASE Changing!Next
  BY <1>3, <1>4, <1>5, <1>6, SnapshotRecorded, RollbackRecorded, UserRollsBackRecorded,
     EditRecorded
  DEF Changing!Next
<1> QED
  BY <1>1, <1>2, <1>6

\* If git took the commits, no change, rollback or death loses what was in the tree when
\* a change began, and a change that was rolled back leaves the files it began with as
\* they were: for any number of files, changes and edits.
THEOREM NoWorkIsLost == Spec => []WorkSurvives
<1>1. Init => Recorded
  BY RecordedInit DEF Init
<1>2. Recorded => WorkSurvives
  BY DEF Recorded, Saved, Restored, WorkSurvives, Changing!WorkSurvives
<1> QED
  BY <1>1, <1>2, RecordedStep, PTL DEF Spec
=============================================================================
