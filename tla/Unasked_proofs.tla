---------------------------- MODULE Unasked_proofs ----------------------------
(***************************************************************************)
(* What runs with nobody asked at the time, and what is kept of who asked, *)
(* proved of Services: the calls and lines of a terminal's session, and    *)
(* the tasks of the scheduler.                                             *)
(***************************************************************************)
EXTENDS Services, FiniteSetTheorems, TLAPS

(* Terminal.  Who let a call run stays on record, and a grant is only taken back  *)
(* together with that record.                                                     *)

LEMMA RunsKeepConsent ==
  ASSUME NothingIrreversibleUnasked,
         NEW by \in {"safe", "grant", "yes"},
         ran' = ran \union {[call |-> Screen!call, by |-> by]},
         grants \subseteq grants',
         by # "safe" => ~Screen!call.blocked,
         by = "grant" => ~Screen!call.irreversible /\ Screen!call.tool \in grants
  PROVE  NothingIrreversibleUnasked'
<1> SUFFICES ASSUME NEW r \in ran'
             PROVE  /\ r.by # "safe" => ~r.call.blocked
                    /\ r.by = "grant" => ~r.call.irreversible /\ r.call.tool \in grants'
  BY DEF NothingIrreversibleUnasked, Screen!NothingIrreversibleUnasked
<1>1. CASE r \in ran
  BY <1>1 DEF NothingIrreversibleUnasked, Screen!NothingIrreversibleUnasked
<1>2. CASE r = [call |-> Screen!call, by |-> by]
  BY <1>2
<1> QED
  BY <1>1, <1>2

LEMMA ConsentStep ==
  NothingIrreversibleUnasked /\ Screen!Next => NothingIrreversibleUnasked'
<1> SUFFICES ASSUME NothingIrreversibleUnasked, Screen!Next PROVE NothingIrreversibleUnasked'
  OBVIOUS
<1>1. ASSUME UNCHANGED <<grants, ran>>
      PROVE  NothingIrreversibleUnasked'
  BY <1>1 DEF NothingIrreversibleUnasked, Screen!NothingIrreversibleUnasked
<1>2. CASE Screen!NewSession
  BY <1>2 DEF Screen!NewSession, NothingIrreversibleUnasked, Screen!NothingIrreversibleUnasked
<1>3. CASE Screen!HandleCommand \/ Screen!Exit \/ Screen!Reflect \/ Screen!Advances
  BY <1>1, <1>3 DEF Screen!HandleCommand, Screen!Clear, Screen!Exit, Screen!Reflect,
     Screen!Advances, Screen!vars
<1>4. CASE Screen!Safely
  BY <1>4, RunsKeepConsent DEF Screen!Safely, Screen!Runs
<1>5. CASE Screen!Granted
  <2>1. /\ ~Screen!call.blocked /\ ~Screen!call.irreversible
        /\ Screen!call.tool \in grants
    BY <1>5 DEF Screen!Granted, Screen!Deciding, Screen!Decision, Screen!Classify, Classify
  <2> QED
    BY <1>5, <2>1, RunsKeepConsent DEF Screen!Granted, Screen!Runs
<1>6. CASE Screen!Yes \/ Screen!YesForSession
  <2>1. ~Screen!call.blocked
    BY <1>6 DEF Screen!Yes, Screen!YesForSession, Screen!Deciding, Screen!Decision,
       Screen!Classify, Classify
  <2> QED
    BY <1>6, <2>1, RunsKeepConsent DEF Screen!Yes, Screen!YesForSession, Screen!Runs
<1>7. CASE Screen!No \/ Screen!Return \/ Screen!ProviderFails \/ Screen!Interrupt
  BY <1>1, <1>7 DEF Screen!No, Screen!Return, Screen!ProviderFails, Screen!Interrupt
<1>8. ASSUME NEW line \in Line, Screen!UserWrites(line)
      PROVE  NothingIrreversibleUnasked'
  BY <1>1, <1>8 DEF Screen!UserWrites
<1> QED
  BY <1>2, <1>3, <1>4, <1>5, <1>6, <1>7, <1>8 DEF Screen!Next

\* In a terminal's session a call that cannot be undone runs only on a yes of its own,
\* and another one unasked only where a yes for the session was given for its tool: for
\* whatever tools and calls, any number of sessions, and wherever turns are interrupted.
THEOREM ConsentIsHis == Spec => []NothingIrreversibleUnasked
<1>1. Init => NothingIrreversibleUnasked
  BY DEF Init, Screen!Init, NothingIrreversibleUnasked, Screen!NothingIrreversibleUnasked
<1>2. ASSUME NothingIrreversibleUnasked, [Next]_vars
      PROVE  NothingIrreversibleUnasked'
  <2>1. Screen!Next \/ UNCHANGED <<grants, ran>>
    BY <1>2 DEF Next, vars, terminalVars
  <2>2. CASE UNCHANGED <<grants, ran>>
    BY <1>2, <2>2 DEF NothingIrreversibleUnasked, Screen!NothingIrreversibleUnasked
  <2> QED
    BY <1>2, <2>1, <2>2, ConsentStep
<1> QED
  BY <1>1, <1>2, PTL DEF Spec

-----------------------------------------------------------------------------
(* Terminal.  What the history holds are the last of the rows the log has of what *)
(* the user wrote in this session; a row that is added moves them all one back.   *)

LogRows == [session : Nat, role : {"user", "assistant"}, line : Line]

RowsTyped ==
    /\ session \in Nat /\ log \in Seq(LogRows) /\ said \in Seq(Line) /\ proposed \in Seq(Line)
    /\ \A k \in 1..Len(log) : log[k].session <= session

Questioned == \A k \in 1..Len(log) : log[k].role = "assistant" =>
                 k > 1 /\ log[k - 1] = [log[k] EXCEPT !.role = "user"]

\* While a turn is under way nothing is logged after its question.
AwaitsAnswer == place = "turn" =>
    /\ said # <<>> /\ log # <<>>
    /\ log[Len(log)] = Screen!Row("user", said[Len(said)])

Latest == /\ Len(said) <= Cardinality(Screen!Lines(session))
          /\ \A k \in Screen!Lines(session) : Screen!Remembered(k)

\* Proposals are made of the candidates in their order, once the session is over.
Before(c) == Cardinality({i \in Screen!Candidates : i < c})
InTurn(j) == \E c \in Screen!Candidates : proposed[j] = said[c] /\ Before(c) = j - 1
ProposedInOrder == /\ place \in {"prompt", "turn"} => proposed = <<>>
                   /\ \A j \in 1..Len(proposed) : InTurn(j)

Kept == RowsTyped /\ Questioned /\ AwaitsAnswer /\ Latest /\ ProposedInOrder

\* The module counts as this one does.
LEMMA Counting == ASSUME NEW S PROVE Screen!Cardinality(S) = Cardinality(S)
BY DEF Screen!Cardinality, Cardinality

LEMMA LinesAreFinite ==
  ASSUME RowsTyped, NEW n
  PROVE  /\ Screen!Written \subseteq 1..Len(log) /\ IsFiniteSet(Screen!Written)
         /\ Screen!Lines(n) \subseteq 1..Len(log) /\ IsFiniteSet(Screen!Lines(n))
<1>1. Len(log) \in Nat
  BY DEF RowsTyped
<1>2. IsFiniteSet(1..Len(log))
  BY <1>1, FS_Interval
<1>3. Screen!Written \subseteq 1..Len(log) /\ Screen!Lines(n) \subseteq 1..Len(log)
  BY DEF Screen!Written, Screen!Lines
<1> QED
  BY <1>2, <1>3, FS_Subset

\* A row is at least the first of those from it on.
LEMMA BackIsPositive ==
  ASSUME RowsTyped, NEW k \in Screen!Lines(session)
  PROVE  Screen!Back(k) \in Nat \ {0}
<1> DEFINE Behind == {j \in Screen!Lines(session) : j >= k}
<1>1. IsFiniteSet(Behind)
  BY LinesAreFinite, FS_Subset, Behind \subseteq Screen!Lines(session)
<1>2. k \in Behind
  BY LinesAreFinite
<1>3. Cardinality(Behind) \in Nat /\ Cardinality(Behind) # 0
  BY <1>1, <1>2, FS_CardinalityType, FS_EmptySet
<1> QED
  BY <1>3, Counting DEF Screen!Back

LEMMA KeptInit == Init => Kept
<1> SUFFICES ASSUME Init PROVE Kept
  OBVIOUS
<1>1. session = 1 /\ place = "prompt" /\ said = <<>> /\ log = <<>> /\ proposed = <<>>
  BY DEF Init, Screen!Init
<1>2. RowsTyped /\ Questioned /\ AwaitsAnswer /\ ProposedInOrder
  BY <1>1 DEF RowsTyped, Questioned, AwaitsAnswer, ProposedInOrder
<1>3. Screen!Lines(session) = {}
  BY <1>1 DEF Screen!Lines, Screen!Written
<1>4. Latest
  BY <1>1, <1>3, FS_EmptySet DEF Latest
<1> QED
  BY <1>2, <1>4 DEF Kept

\* A session begins: it has no lines yet.
LEMMA SessionKept == Kept /\ Screen!NewSession => Kept'
<1> SUFFICES ASSUME Kept, Screen!NewSession PROVE Kept'
  OBVIOUS
<1>1. /\ session' = session + 1 /\ place' = "prompt"
      /\ said' = <<>> /\ proposed' = <<>> /\ log' = log
  BY DEF Screen!NewSession
<1>2. RowsTyped'
  <2>1. ASSUME NEW k \in 1..Len(log)
        PROVE  log[k].session \in Nat /\ log[k].session <= session
    <3>1. log[k] \in LogRows
      BY DEF Kept, RowsTyped
    <3> QED
      BY <3>1 DEF Kept, RowsTyped, LogRows
  <2>2. \A k \in 1..Len(log) : log[k].session <= session + 1
    BY <2>1 DEF Kept, RowsTyped
  <2> QED
    BY <1>1, <2>2 DEF Kept, RowsTyped
<1>3. Questioned' /\ AwaitsAnswer' /\ ProposedInOrder'
  BY <1>1 DEF Kept, Questioned, AwaitsAnswer, ProposedInOrder
<1>4. Screen!Lines(session)' = {}
  BY <1>1 DEF Kept, RowsTyped, Screen!Lines, Screen!Written
<1>5. Latest'
  BY <1>1, <1>4, FS_EmptySet DEF Latest
<1> QED
  BY <1>2, <1>3, <1>5 DEF Kept

\* The user writes: the line is the last of the history and of the log.
LEMMA WritingKept ==
  ASSUME Kept, NEW line \in Line, Screen!UserWrites(line)
  PROVE  Kept'
<1> DEFINE last == Len(log) + 1
<1>1. /\ place = "prompt" /\ place' = "turn"
      /\ said' = Append(said, line) /\ log' = Append(log, Screen!Row("user", line))
      /\ UNCHANGED <<session, proposed>>
  BY DEF Screen!UserWrites
<1>2. Screen!Row("user", line) = [session |-> session, role |-> "user", line |-> line]
  BY DEF Screen!Row
<1>3. RowsTyped'
  BY <1>1, <1>2 DEF Kept, RowsTyped, LogRows
<1>4. Questioned'
  BY <1>1, <1>2 DEF Kept, RowsTyped, Questioned
<1>5. AwaitsAnswer'
  BY <1>1, <1>2 DEF Kept, RowsTyped, AwaitsAnswer, Screen!Row
<1>6. ProposedInOrder'
  BY <1>1 DEF Kept, ProposedInOrder
<1>7. Screen!Lines(session)' = Screen!Lines(session) \union {last}
  BY <1>1, <1>2 DEF Kept, RowsTyped, Screen!Lines, Screen!Written
<1>8. /\ Screen!Lines(session) \subseteq 1..Len(log)
      /\ IsFiniteSet(Screen!Lines(session))
      /\ Len(log) \in Nat /\ Len(said) \in Nat /\ Len(said') = Len(said) + 1
  BY <1>1, LinesAreFinite DEF Kept, RowsTyped
<1>9. Cardinality(Screen!Lines(session)') = Cardinality(Screen!Lines(session)) + 1
  BY <1>7, <1>8, last \notin Screen!Lines(session), FS_AddElement
<1>10. Len(said') <= Cardinality(Screen!Lines(session)')
  BY <1>8, <1>9, FS_CardinalityType DEF Kept, Latest
<1>11. ASSUME NEW k \in Screen!Lines(session)'
       PROVE  Screen!Remembered(k)'
  <2> DEFINE Behind == {j \in Screen!Lines(session) : j >= k}
             BehindNow == {j \in Screen!Lines(session)' : j >= k}
  <2>1. BehindNow = Behind \union {last}
    BY <1>7, <1>8, <1>11
  <2>2. IsFiniteSet(Behind) /\ last \notin Behind
    BY <1>8, Behind \subseteq Screen!Lines(session), FS_Subset
  <2>3. Cardinality(BehindNow) = Cardinality(Behind) + 1
    BY <2>1, <2>2, FS_AddElement
  <2>4. Screen!Back(k) = Cardinality(Behind) /\ Screen!Back(k)' = Cardinality(Behind) + 1
    BY <2>3, Counting DEF Screen!Back
  <2>5. CASE k = last
    <3>1. Behind = {}
      BY <1>8, <2>5
    <3>2. Screen!Back(k)' = 1
      BY <2>4, <3>1, FS_EmptySet
    <3>3. said'[Len(said')] = line /\ log'[k].line = line
      BY <1>1, <1>2, <1>8, <2>5 DEF Kept, RowsTyped
    <3> QED
      BY <1>8, <3>2, <3>3 DEF Screen!Remembered
  <2>6. CASE k # last
    <3>1. k \in Screen!Lines(session) /\ k \in 1..Len(log)
      BY <1>7, <1>8, <2>6
    <3>2. Screen!Back(k)' = Screen!Back(k) + 1 /\ Screen!Back(k) \in Nat \ {0}
      BY <2>4, <3>1, BackIsPositive DEF Kept
    <3>3. log'[k] = log[k]
      BY <1>1, <1>2, <3>1 DEF Kept, RowsTyped
    <3>4. ASSUME Screen!Back(k)' <= Len(said')
          PROVE  said'[Len(said') + 1 - Screen!Back(k)'] = log'[k].line
      <4> DEFINE spot == Len(said) + 1 - Screen!Back(k)
      <4>1. Screen!Back(k) <= Len(said)
        BY <1>8, <3>2, <3>4
      <4>2. said[spot] = log[k].line
        BY <3>1, <4>1 DEF Kept, Latest, Screen!Remembered
      <4>3. spot \in 1..Len(said) /\ Len(said') + 1 - Screen!Back(k)' = spot
        BY <1>8, <3>2, <4>1
      <4>4. said'[spot] = said[spot]
        BY <1>1, <4>3 DEF Kept, RowsTyped
      <4> QED
        BY <3>3, <4>2, <4>3, <4>4
    <3> QED
      BY <3>4 DEF Screen!Remembered
  <2> QED
    BY <2>5, <2>6
<1> QED
  BY <1>3, <1>4, <1>5, <1>6, <1>10, <1>11 DEF Kept, Latest

\* An answer is no line of the user's: the rows stay as far back as they are.
LEMMA AnswerKept == Kept /\ Screen!Return => Kept'
<1> SUFFICES ASSUME Kept, Screen!Return PROVE Kept'
  OBVIOUS
<1> DEFINE row == Screen!Row("assistant", said[Len(said)])
<1>1. /\ place = "turn" /\ place' = "prompt" /\ log' = Append(log, row)
      /\ UNCHANGED <<session, said, proposed>>
  BY DEF Screen!Return
<1>2. row = [session |-> session, role |-> "assistant", line |-> said[Len(said)]]
  BY DEF Screen!Row
<1>3. /\ log[Len(log)] = [session |-> session, role |-> "user", line |-> said[Len(said)]]
      /\ said[Len(said)] \in Line /\ Len(log) \in Nat \ {0}
  BY <1>1 DEF Kept, RowsTyped, AwaitsAnswer, Screen!Row
<1>4. RowsTyped'
  BY <1>1, <1>2, <1>3 DEF Kept, RowsTyped, LogRows
<1>5. Questioned'
  <2> Len(log') = Len(log) + 1
    BY <1>1 DEF Kept, RowsTyped
  <2> SUFFICES ASSUME NEW k \in 1..(Len(log) + 1), log'[k].role = "assistant"
               PROVE  k > 1 /\ log'[k - 1] = [log'[k] EXCEPT !.role = "user"]
    BY DEF Questioned
  <2>1. CASE k = Len(log) + 1
    <3>1. log'[k] = row /\ log'[k - 1] = log[Len(log)] /\ k > 1
      BY <1>1, <1>3, <2>1 DEF Kept, RowsTyped
    <3> QED
      BY <1>2, <1>3, <3>1
  <2>2. CASE k \in 1..Len(log)
    <3>1. log'[k] = log[k] /\ (k > 1 => log'[k - 1] = log[k - 1])
      BY <1>1, <1>3, <2>2 DEF Kept, RowsTyped
    <3> QED
      BY <2>2, <3>1 DEF Kept, Questioned
  <2> QED
    BY <1>3, <2>1, <2>2
<1>6. AwaitsAnswer' /\ ProposedInOrder'
  BY <1>1 DEF Kept, AwaitsAnswer, ProposedInOrder, InTurn, Screen!Candidates, Before
<1>7. /\ Screen!Lines(session)' = Screen!Lines(session)
      /\ \A k \in Screen!Lines(session) : log'[k] = log[k]
  BY <1>1, <1>2, <1>3 DEF Kept, RowsTyped, Screen!Lines, Screen!Written
<1>8. Latest'
  BY <1>1, <1>7 DEF Kept, Latest, Screen!Remembered, Screen!Back
<1> QED
  BY <1>4, <1>5, <1>6, <1>8 DEF Kept

\* /clear: of what was written no row is asked for any more.
LEMMA ClearKept == Kept /\ Screen!Clear => Kept'
<1> SUFFICES ASSUME Kept, Screen!Clear PROVE Kept'
  OBVIOUS
<1>1. /\ place = "prompt" /\ said' = <<>>
      /\ UNCHANGED <<session, place, log, proposed>>
  BY DEF Screen!Clear
<1>2. RowsTyped' /\ Questioned' /\ AwaitsAnswer' /\ ProposedInOrder'
  BY <1>1 DEF Kept, RowsTyped, Questioned, AwaitsAnswer, ProposedInOrder
<1>3. Screen!Lines(session)' = Screen!Lines(session)
  BY <1>1 DEF Screen!Lines, Screen!Written
<1>4. Cardinality(Screen!Lines(session)) \in Nat
  BY LinesAreFinite, FS_CardinalityType DEF Kept
<1>5. \A k \in Screen!Lines(session) : Screen!Remembered(k)'
  BY <1>1, <1>3, BackIsPositive DEF Kept, Screen!Remembered, Screen!Back
<1> QED
  BY <1>1, <1>2, <1>3, <1>4, <1>5 DEF Kept, Latest

\* reflect(): one proposal more, or none.
LEMMA ReflectKept == Kept /\ Screen!Reflect => Kept'
<1> SUFFICES ASSUME Kept, Screen!Reflect PROVE Kept'
  OBVIOUS
<1>1. /\ place' \notin {"prompt", "turn"} /\ UNCHANGED <<session, said, log>>
  BY DEF Screen!Reflect
<1>2. /\ Questioned' /\ AwaitsAnswer' /\ Latest'
      /\ Screen!Candidates' = Screen!Candidates /\ \A c : Before(c)' = Before(c)
  BY <1>1 DEF Kept, Questioned, AwaitsAnswer, Latest, Screen!Remembered, Screen!Back,
     Screen!Lines, Screen!Written, Screen!Candidates, Before
<1>3. CASE proposed' = proposed
  BY <1>1, <1>2, <1>3 DEF Kept, RowsTyped, ProposedInOrder, InTurn
<1>4. CASE proposed' # proposed
  <2>1. PICK c \in Screen!Candidates :
           Before(c) = Len(proposed) /\ proposed' = Append(proposed, said[c])
    BY <1>4, Counting DEF Screen!Reflect, Before
  <2>2. said[c] \in Line
    BY DEF Kept, RowsTyped, Screen!Candidates
  <2>3. RowsTyped'
    BY <1>1, <2>1, <2>2 DEF Kept, RowsTyped
  <2>4. ASSUME NEW j \in 1..(Len(proposed) + 1)
        PROVE  InTurn(j)'
    <3>1. CASE j = Len(proposed) + 1
      <4>1. proposed'[j] = said[c] /\ j - 1 = Len(proposed)
        BY <2>1, <3>1 DEF Kept, RowsTyped
      <4> QED
        BY <1>1, <1>2, <2>1, <4>1 DEF InTurn
    <3>2. CASE j # Len(proposed) + 1
      <4>1. j \in 1..Len(proposed) /\ proposed'[j] = proposed[j]
        BY <2>1, <3>2 DEF Kept, RowsTyped
      <4>2. InTurn(j)
        BY <4>1 DEF Kept, ProposedInOrder
      <4> QED
        BY <1>1, <1>2, <4>1, <4>2 DEF InTurn
    <3> QED
      BY <3>1, <3>2
  <2>5. Len(proposed') = Len(proposed) + 1
    BY <2>1 DEF Kept, RowsTyped
  <2>6. ProposedInOrder'
    BY <1>1, <2>4, <2>5 DEF ProposedInOrder
  <2> QED
    BY <1>2, <2>3, <2>6 DEF Kept
<1> QED
  BY <1>3, <1>4

\* Nothing of the log or the history: the place alone, where nothing is proposed yet.
LEMMA PlaceKept ==
  ASSUME Kept, UNCHANGED <<session, said, log, proposed>>,
         place' = place \/ (place \in {"prompt", "turn"} /\ place' # "turn")
  PROVE  Kept'
<1>1. /\ RowsTyped' /\ Questioned' /\ Latest'
      /\ Screen!Candidates' = Screen!Candidates /\ \A c : Before(c)' = Before(c)
  BY DEF Kept, RowsTyped, Questioned, Latest, Screen!Remembered, Screen!Back,
     Screen!Lines, Screen!Written, Screen!Candidates, Before
<1>2. AwaitsAnswer'
  BY DEF Kept, AwaitsAnswer, Screen!Row
<1>3. ProposedInOrder'
  BY <1>1 DEF Kept, ProposedInOrder, InTurn
<1> QED
  BY <1>1, <1>2, <1>3 DEF Kept

LEMMA KeptStep == Kept /\ Screen!Next => Kept'
<1> SUFFICES ASSUME Kept, Screen!Next PROVE Kept'
  OBVIOUS
<1>1. CASE Screen!NewSession \/ Screen!Return \/ Screen!Reflect
  BY <1>1, SessionKept, AnswerKept, ReflectKept
<1>2. CASE Screen!HandleCommand
  <2>1. CASE Screen!Clear
    BY <2>1, ClearKept
  <2>2. CASE Screen!Exit
    BY <2>2, PlaceKept DEF Screen!Exit
  <2>3. CASE UNCHANGED Screen!vars
    BY <2>3, PlaceKept DEF Screen!vars
  <2> QED
    BY <1>2, <2>1, <2>2, <2>3 DEF Screen!HandleCommand
<1>3. CASE Screen!Exit \/ Screen!ProviderFails \/ Screen!Interrupt
  BY <1>3, PlaceKept DEF Screen!Exit, Screen!ProviderFails, Screen!Interrupt
<1>4. CASE Screen!Advances \/ Screen!Safely \/ Screen!Granted \/ Screen!Yes
           \/ Screen!YesForSession \/ Screen!No
  BY <1>4, PlaceKept DEF Screen!Advances, Screen!Safely, Screen!Granted, Screen!Yes,
     Screen!YesForSession, Screen!No
<1>5. ASSUME NEW line \in Line, Screen!UserWrites(line)
      PROVE  Kept'
  BY <1>5, WritingKept
<1> QED
  BY <1>1, <1>2, <1>3, <1>4, <1>5 DEF Screen!Next

\* The two proposals are of two candidates, of which the later is not like the sooner.
LEMMA ProposalsDiffer ==
  ASSUME Kept, NEW k \in 1..Len(proposed)
  PROVE  /\ \E i \in 1..Len(said) : said[i] = proposed[k]
         /\ proposed[k].fact
         /\ \A j \in 1..(k - 1) : proposed[j].same # proposed[k].same
<1>1. PICK c \in Screen!Candidates : proposed[k] = said[c] /\ Before(c) = k - 1
  BY DEF Kept, ProposedInOrder, InTurn
<1>2. c \in 1..Len(said) /\ said[c].fact
  BY DEF Screen!Candidates
<1>3. ASSUME NEW j \in 1..(k - 1)
      PROVE  proposed[j].same # proposed[k].same
  <2>1. j \in 1..Len(proposed) /\ j # k
    BY DEF Kept, RowsTyped
  <2>2. PICK d \in Screen!Candidates : proposed[j] = said[d] /\ Before(d) = j - 1
    BY <2>1 DEF Kept, ProposedInOrder, InTurn
  <2>3. c # d
    BY <1>1, <2>1, <2>2
  <2>6. c \in Nat /\ d \in Nat
    BY DEF Screen!Candidates
  <2>4. CASE c < d
    BY <1>1, <2>2, <2>3, <2>6, <2>4 DEF Screen!Candidates
  <2>5. CASE d < c
    BY <1>1, <2>2, <2>3, <2>6, <2>5 DEF Screen!Candidates
  <2> QED
    BY <2>3, <2>6, <2>4, <2>5
<1> QED
  BY <1>1, <1>2, <1>3

LEMMA CountsAreRight ==
  ASSUME Kept, NEW suggestion \in Screen!Suggested
  PROVE  suggestion.count \in MinCount..Cardinality({k \in Screen!Written :
             log[k].line = suggestion.intent \/ <<log[k].line, suggestion.intent>> \in Alike})
<1>1. PICK b \in Screen!Large : suggestion = Screen!Suggestion(b)
  BY DEF Screen!Suggested
<1> DEFINE Counted == {k \in Screen!Written :
              log[k].line = log[b].line \/ <<log[k].line, log[b].line>> \in Alike}
<1>2. suggestion.intent = log[b].line /\ suggestion.count = Cardinality(Screen!Cluster(b))
  BY <1>1, Counting DEF Screen!Suggestion
<1>3. Screen!Cluster(b) \subseteq Counted
  BY DEF Screen!Cluster, Screen!Near, Screen!Asked
<1>4. IsFiniteSet(Counted)
  BY LinesAreFinite, FS_Subset, Counted \subseteq Screen!Written DEF Kept
<1>5. /\ Cardinality(Screen!Cluster(b)) \in Nat /\ Cardinality(Counted) \in Nat
      /\ Cardinality(Screen!Cluster(b)) <= Cardinality(Counted)
  BY <1>3, <1>4, FS_Subset, FS_CardinalityType
<1>6. Cardinality(Screen!Cluster(b)) >= MinCount
  BY Counting DEF Screen!Large
<1> QED
  BY <1>2, <1>5, <1>6

\* The log keeps every line in order, whatever is cleared, fails or is interrupted; a
\* proposal is something the user said, made once; a suggestion was asked as often as it
\* says: for whatever lines, likeness, sessions and bounds.
THEOREM SessionsAreKept == Spec => []SessionIsKept
<1>1. ASSUME Kept, [Next]_vars
      PROVE  Kept'
  <2>1. Screen!Next \/ UNCHANGED <<session, place, said, log, proposed>>
    BY <1>1 DEF Next, vars, terminalVars
  <2> QED
    BY <1>1, <2>1, KeptStep, PlaceKept
<1>2. ASSUME Kept
      PROVE  SessionIsKept
  <2>1. \A suggestion \in Screen!Suggested :
           suggestion.count \in MinCount..Screen!Cardinality({k \in Screen!Written :
               log[k].line = suggestion.intent \/ <<log[k].line, suggestion.intent>> \in Alike})
    BY <1>2, CountsAreRight, Counting
  <2>2. /\ \A k \in 1..Len(log) : log[k].role = "assistant" =>
               k > 1 /\ log[k - 1] = [log[k] EXCEPT !.role = "user"]
        /\ Len(said) <= Screen!Cardinality(Screen!Lines(session))
        /\ \A k \in Screen!Lines(session) : Screen!Remembered(k)
    BY <1>2, Counting DEF Kept, Questioned, Latest
  <2> QED
    BY <1>2, <2>1, <2>2, ProposalsDiffer DEF SessionIsKept, Screen!SessionIsKept
<1> QED
  BY <1>1, <1>2, KeptInit, PTL DEF Spec

-----------------------------------------------------------------------------
(* Scheduler.  A task of the tick under way is as it was when it was read, or gone *)
(* for good, until its turn comes; and it comes once.                              *)

Schedules == {r.spec : r \in Requests}
Rows == [spec : SUBSET Schedules, authorized : {r.authorized : r \in Requests} \union {FALSE},
         next : Nat, last : Nat]

LoopTyped ==
    /\ now \in Nat /\ table \in [Task -> Rows]
    /\ runs \in [Task -> Nat] /\ blamed \in [Task -> Nat] /\ late \in [Task -> Nat]
    /\ removed \subseteq Task
    /\ loop \in [pc : {"idle", "down", "run", "mark"}, running : SUBSET Task, left : SUBSET Task]
    /\ loop.pc # "mark" => loop.running = {}

\* A task has one specification, and its next run is one that gives after its last.
Timed == \A t \in Task : \A spec \in table[t].spec :
            /\ table[t].spec = {spec}
            /\ table[t].last > 0 => table[t].next \in Scheduling!Times(spec, table[t].last)

\* What was removed stays so, and nothing else is missing from the tick.
StaysGone == \A t \in Task : t \in removed => ~Scheduling!Present(t)

\* A task the tick has left is due still, unless it was removed.
Ready == \A t \in loop.left \union loop.running :
            \/ t \in removed
            \/ Scheduling!Present(t) /\ (t \in loop.left => table[t].next <= now)

TurnComesOnce == /\ \A t \in Task : ~(t \in loop.left /\ t \in loop.running)
                 /\ \A t, u \in loop.running : t = u

\* Before its turn, each run that went unmarked is one that was cut off.
RunOnce == \A t \in Task : t \notin removed =>
              runs[t] <= blamed[t] + (IF t \in loop.running THEN 1 ELSE 0)

LateOnce == \A t \in Task : \/ late[t] = 0
                            \/ late[t] = 1 /\ t \in removed /\ t \notin loop.left

Paced == /\ LoopTyped /\ Timed /\ StaysGone /\ Ready /\ TurnComesOnce /\ RunOnce /\ LateOnce
         /\ early = {} /\ unasked = {}

\* Every time a schedule gives is a number of minutes.
LEMMA TimesAreNumbers ==
  ASSUME NEW spec \in Schedules, NEW last \in Nat
  PROVE  Scheduling!Times(spec, last) \subseteq Nat
<1> SUFFICES ASSUME NEW schedule \in Scheduling!ParseSchedule(spec),
                    NEW later \in Scheduling!NextAfter(schedule, last)
             PROVE  later \in Nat
  BY DEF Scheduling!Times
<1>1. ASSUME NEW cron, schedule = Scheduling!Cron(cron)
      PROVE  later \in Nat
  <2>1. later \in (last + 1)..(last + YearMinutes)
    BY <1>1 DEF Scheduling!Cron, Scheduling!NextAfter, Scheduling!CronTimes
  <2> QED
    BY <2>1, ScheduleAssumption
<1>2. CASE spec.form = "amount"
  <2>1. spec.n \in Nat /\ Unit[spec.unit] \in Nat
    BY <1>2, ScheduleAssumption DEF Schedules
  <2>2. schedule = Scheduling!Interval(spec.n * Unit[spec.unit])
    BY <1>2 DEF Scheduling!ParseSchedule
  <2>3. later = last + spec.n * Unit[spec.unit]
    BY <2>2 DEF Scheduling!Interval, Scheduling!NextAfter
  <2>4. spec.n * Unit[spec.unit] \in Nat
    BY <2>1
  <2> QED
    BY <2>3, <2>4
<1>3. CASE spec.form = "cron"
  BY <1>1, <1>3 DEF Scheduling!ParseSchedule
<1>4. CASE spec.form = "words"
  BY <1>1, <1>4 DEF Scheduling!ParseSchedule
<1>5. CASE spec.form \notin {"cron", "amount", "words"}
  BY <1>5 DEF Scheduling!ParseSchedule
<1> QED
  BY <1>2, <1>3, <1>4, <1>5

LEMMA PacedInit == Init => Paced
<1> SUFFICES ASSUME Init PROVE Paced
  OBVIOUS
<1>1. /\ now = 1 /\ table = [t \in Task |-> Scheduling!NoRow]
      /\ loop = Scheduling!Down /\ removed = {} /\ late = [t \in Task |-> 0]
      /\ runs = [t \in Task |-> 0] /\ blamed = [t \in Task |-> 0] /\ early = {} /\ unasked = {}
  BY DEF Init, Scheduling!Init
<1>2. Scheduling!NoRow \in Rows
  BY DEF Rows, Scheduling!NoRow
<1>3. loop = [pc |-> "down", running |-> {}, left |-> {}]
  BY <1>1 DEF Scheduling!Down, Scheduling!Idle
<1>4. LoopTyped
  BY <1>1, <1>2, <1>3 DEF LoopTyped
<1>5. Timed
  BY <1>1 DEF Timed, Scheduling!NoRow
<1> QED
  BY <1>1, <1>3, <1>4, <1>5 DEF Paced, StaysGone, Ready, TurnComesOnce, RunOnce, LateOnce

\* The loop sets out, for a tick or at all: its tasks are those that are due.
LEMMA TickPaced == Paced /\ (Scheduling!Tick \/ Scheduling!ProactiveStart) => Paced'
<1> SUFFICES ASSUME Paced, Scheduling!Tick \/ Scheduling!ProactiveStart PROVE Paced'
  OBVIOUS
<1>1. UNCHANGED <<now, table, removed, late, runs, blamed, early, unasked>>
  BY DEF Scheduling!Tick, Scheduling!ProactiveStart
<1>2. PICK left \in SUBSET Task :
         /\ loop'.left = left /\ loop'.running = {} /\ loop'.pc # "mark"
         /\ loop' \in [pc : {"idle", "down", "run", "mark"}, running : SUBSET Task, left : SUBSET Task]
         /\ \A t \in left : Scheduling!Due(t)
         /\ loop.running = {}
  <2>1. CASE Scheduling!Tick
    <3>1. loop' = [pc |-> "run", running |-> {}, left |-> Scheduling!DueTasks]
      BY <2>1 DEF Scheduling!Tick
    <3>2. Scheduling!DueTasks \in SUBSET Task /\ \A t \in Scheduling!DueTasks : Scheduling!Due(t)
      BY DEF Scheduling!DueTasks
    <3>3. loop.running = {}
      BY <2>1 DEF Scheduling!Tick, Paced, LoopTyped
    <3> QED
      BY <3>1, <3>2, <3>3
  <2>2. CASE Scheduling!ProactiveStart
    <3>1. loop' = [pc |-> "idle", running |-> {}, left |-> {}]
      BY <2>2 DEF Scheduling!ProactiveStart, Scheduling!Idle
    <3>2. loop.running = {}
      BY <2>2 DEF Scheduling!ProactiveStart, Scheduling!Down, Scheduling!Idle
    <3> QED
      BY <3>1, <3>2
  <2> QED
    BY <2>1, <2>2
<1>3. LoopTyped' /\ Timed' /\ StaysGone'
  BY <1>1, <1>2 DEF Paced, LoopTyped, Timed, StaysGone, Scheduling!Present
<1>4. Ready' /\ TurnComesOnce'
  BY <1>1, <1>2 DEF Ready, TurnComesOnce, Scheduling!Due, Scheduling!Present
<1>5. RunOnce'
  BY <1>1, <1>2 DEF Paced, RunOnce
<1>6. LateOnce'
  BY <1>1, <1>2 DEF Paced, LateOnce, StaysGone, Scheduling!Due
<1> QED
  BY <1>1, <1>3, <1>4, <1>5, <1>6 DEF Paced

LEMMA RunPaced ==
  ASSUME Paced, NEW t \in loop.left, Scheduling!RunTask(t)
  PROVE  Paced'
<1>1. /\ UNCHANGED <<now, table, removed, blamed>>
      /\ loop.pc = "run"
      /\ loop' = [pc |-> "mark", running |-> {t}, left |-> loop.left \ {t}]
      /\ runs' = [runs EXCEPT ![t] = @ + 1]
      /\ late' = [late EXCEPT ![t] = @ + (IF t \in removed THEN 1 ELSE 0)]
  BY DEF Scheduling!RunTask
<1>2. t \in Task /\ loop.running = {}
  BY <1>1 DEF Paced, LoopTyped
<1>3. LoopTyped'
  BY <1>1, <1>2 DEF Paced, LoopTyped
<1>4. Timed' /\ StaysGone'
  BY <1>1 DEF Paced, Timed, StaysGone, Scheduling!Present
<1>5. Ready' /\ TurnComesOnce'
  BY <1>1 DEF Paced, Ready, TurnComesOnce, Scheduling!Present
<1>6. RunOnce'
  BY <1>1, <1>2 DEF Paced, RunOnce, LoopTyped
<1>7. LateOnce'
  BY <1>1, <1>2 DEF Paced, LateOnce, LoopTyped
<1>8. early' = {}
  <2>1. SUFFICES ASSUME table[t].last > 0, NEW spec \in table[t].spec,
                        \A later \in Scheduling!Times(spec, table[t].last) : now < later
                 PROVE  FALSE
    BY DEF Scheduling!RunTask, Paced
  <2>2. table[t].next \in Scheduling!Times(spec, table[t].last)
    BY <1>2, <2>1 DEF Paced, Timed
  <2>3. t \notin removed /\ table[t].next <= now
    <3>1. Scheduling!Present(t)
      BY <2>1 DEF Scheduling!Present, Scheduling!NoRow
    <3> QED
      BY <1>2, <3>1 DEF Paced, Ready, StaysGone
  <2>4. table[t].next \in Nat /\ now \in Nat
    BY <1>2 DEF Paced, LoopTyped, Rows
  <2> QED
    BY <2>1, <2>2, <2>3, <2>4
<1>9. unasked' = {}
  BY DEF Scheduling!RunTask, Scheduling!Approves, Scheduling!ListedAutonomy, Paced
<1> QED
  BY <1>3, <1>4, <1>5, <1>6, <1>7, <1>8, <1>9 DEF Paced

\* After a run, the rest of the tick: the task was in it once.
LEMMA MarkPaced ==
  ASSUME Paced, NEW t \in loop.running, Scheduling!Mark(t)
  PROVE  Paced'
<1>1. /\ UNCHANGED <<now, removed, late, early, unasked>>
      /\ loop' = Scheduling!Rest
  BY DEF Scheduling!Mark
<1>2. t \in Task /\ t \notin loop.left
  BY DEF Paced, LoopTyped, TurnComesOnce
<1>3. /\ loop'.left = loop.left /\ loop'.running = {} /\ loop'.pc # "mark"
      /\ loop' \in [pc : {"idle", "down", "run", "mark"}, running : SUBSET Task, left : SUBSET Task]
  BY <1>1 DEF Scheduling!Rest, Scheduling!Idle, Paced, LoopTyped
<1>4. CASE ~Scheduling!Present(t)
  <2>1. UNCHANGED <<table, runs, blamed>> /\ t \in removed
    BY <1>4 DEF Scheduling!Mark, Paced, Ready
  <2>2. LoopTyped' /\ Timed' /\ StaysGone'
    BY <1>1, <1>3, <2>1 DEF Paced, LoopTyped, Timed, StaysGone, Scheduling!Present
  <2>3. Ready' /\ TurnComesOnce' /\ LateOnce'
    BY <1>1, <1>3, <2>1 DEF Paced, Ready, TurnComesOnce, LateOnce, Scheduling!Present
  <2>4. loop.running \subseteq {t}
    BY DEF Paced, TurnComesOnce
  <2>5. RunOnce'
    BY <1>1, <1>2, <1>3, <2>1, <2>4 DEF Paced, RunOnce
  <2> QED
    BY <1>1, <2>2, <2>3, <2>5 DEF Paced
<1>5. CASE Scheduling!Present(t)
  <2>1. /\ runs' = [runs EXCEPT ![t] = 0] /\ blamed' = [blamed EXCEPT ![t] = 0]
        /\ \E spec \in table[t].spec : \E later \in Scheduling!Times(spec, now) :
              table' = [table EXCEPT ![t].next = later, ![t].last = now]
    BY <1>5 DEF Scheduling!Mark, Scheduling!Reschedule
  <2>2. PICK spec \in table[t].spec :
           \E later \in Scheduling!Times(spec, now) :
              table' = [table EXCEPT ![t].next = later, ![t].last = now]
    BY <2>1
  <2>3. PICK later \in Scheduling!Times(spec, now) :
           table' = [table EXCEPT ![t].next = later, ![t].last = now]
    BY <2>2
  <2>4. spec \in Schedules /\ later \in Nat /\ now \in Nat
    <3>1. spec \in Schedules /\ now \in Nat
      BY <1>2 DEF Paced, LoopTyped, Rows
    <3> QED
      BY <3>1, TimesAreNumbers
  <2>5. table' = [table EXCEPT ![t] = [table[t] EXCEPT !.next = later, !.last = now]]
    BY <1>2, <2>3 DEF Paced, LoopTyped, Rows
  <2>6. /\ [table[t] EXCEPT !.next = later, !.last = now] \in Rows
        /\ [table[t] EXCEPT !.next = later, !.last = now].spec = table[t].spec
        /\ [table[t] EXCEPT !.next = later, !.last = now].next = later
        /\ [table[t] EXCEPT !.next = later, !.last = now].last = now
    BY <1>2, <2>4 DEF Paced, LoopTyped, Rows
  <2>7. LoopTyped'
    BY <1>1, <1>2, <1>3, <2>1, <2>5, <2>6 DEF Paced, LoopTyped
  <2>8. table[t].spec = {spec}
    BY <1>2 DEF Paced, Timed
  <2>9. Timed'
    <3> SUFFICES ASSUME NEW u \in Task, NEW other \in table'[u].spec
                 PROVE  /\ table'[u].spec = {other}
                        /\ table'[u].last > 0 =>
                             table'[u].next \in Scheduling!Times(other, table'[u].last)
      BY DEF Timed, Scheduling!Times, Scheduling!NextAfter, Scheduling!CronTimes,
         Scheduling!CronMatches, Scheduling!ParseSchedule
    <3>1. CASE u = t
      <4>1. table'[t].spec = {spec} /\ table'[t].next = later /\ table'[t].last = now
        BY <1>2, <2>5, <2>6, <2>8 DEF Paced, LoopTyped
      <4> QED
        BY <2>3, <3>1, <4>1
    <3>2. CASE u # t
      BY <1>2, <2>5, <3>2 DEF Paced, LoopTyped, Timed
    <3> QED
      BY <3>1, <3>2
  <2>10. \A u \in Task : Scheduling!Present(u)' <=> Scheduling!Present(u)
    BY <1>2, <1>5, <2>5, <2>6, <2>8 DEF Paced, LoopTyped, Scheduling!Present, Scheduling!NoRow
  <2>11. StaysGone' /\ TurnComesOnce' /\ LateOnce'
    BY <1>1, <1>3, <2>10 DEF Paced, StaysGone, TurnComesOnce, LateOnce
  <2>12. Ready'
    BY <1>1, <1>2, <1>3, <2>5, <2>10 DEF Paced, LoopTyped, Ready
  <2>13. loop.running \subseteq {t}
    BY DEF Paced, TurnComesOnce
  <2>14. RunOnce'
    BY <1>1, <1>2, <1>3, <2>1, <2>13 DEF Paced, LoopTyped, RunOnce
  <2> QED
    BY <1>1, <2>7, <2>9, <2>11, <2>12, <2>14 DEF Paced
<1> QED
  BY <1>4, <1>5

\* A tick cut short leaves a run at most that was for nothing.
LEMMA DropPaced ==
  Paced /\ (Scheduling!MarkRaises \/ Scheduling!Fail \/ Scheduling!Stop) => Paced'
<1> SUFFICES ASSUME Paced, Scheduling!MarkRaises \/ Scheduling!Fail \/ Scheduling!Stop
             PROVE  Paced'
  OBVIOUS
<1>1. /\ UNCHANGED <<now, table, removed, late, runs, early, unasked>>
      /\ blamed' = [t \in Task |-> blamed[t] + (IF t \in loop.running THEN 1 ELSE 0)]
  BY DEF Scheduling!MarkRaises, Scheduling!Fail, Scheduling!Stop, Scheduling!DropTick
<1>2. /\ loop'.left = {} /\ loop'.running = {} /\ loop'.pc # "mark"
      /\ loop' \in [pc : {"idle", "down", "run", "mark"}, running : SUBSET Task, left : SUBSET Task]
  BY DEF Scheduling!MarkRaises, Scheduling!Fail, Scheduling!Stop, Scheduling!Down, Scheduling!Idle
<1>3. LoopTyped' /\ Timed' /\ StaysGone'
  BY <1>1, <1>2 DEF Paced, LoopTyped, Timed, StaysGone, Scheduling!Present
<1>4. Ready' /\ TurnComesOnce' /\ LateOnce'
  BY <1>1, <1>2 DEF Paced, Ready, TurnComesOnce, LateOnce
<1>5. RunOnce'
  BY <1>1, <1>2 DEF Paced, LoopTyped, RunOnce
<1> QED
  BY <1>1, <1>3, <1>4, <1>5 DEF Paced

LEMMA PassPaced == Paced /\ Scheduling!Pass => Paced'
<1> SUFFICES ASSUME Paced, Scheduling!Pass PROVE Paced'
  OBVIOUS
<1>1. /\ now' = now + 1
      /\ UNCHANGED <<table, loop, removed, late, runs, blamed, early, unasked>>
  BY DEF Scheduling!Pass
<1>2. LoopTyped'
  BY <1>1 DEF Paced, LoopTyped
<1>3. \A t \in Task : table[t].next \in Nat
  BY DEF Paced, LoopTyped, Rows
<1>4. Ready'
  BY <1>1, <1>3 DEF Paced, LoopTyped, Ready, Scheduling!Present
<1>5. Timed' /\ StaysGone'
  BY <1>1 DEF Paced, Timed, StaysGone, Scheduling!Present
<1> QED
  BY <1>1, <1>2, <1>4, <1>5 DEF Paced, TurnComesOnce, RunOnce, LateOnce

\* A task that is added is in no tick yet, and was never there before.
LEMMA AddPaced ==
  ASSUME Paced, NEW t \in Task, NEW r \in Requests, Scheduling!AddTask(t, r)
  PROVE  Paced'
<1>1. /\ UNCHANGED <<now, loop, removed, late, runs, blamed, early, unasked>>
      /\ t \notin removed /\ ~Scheduling!Present(t)
  BY DEF Scheduling!AddTask
<1>2. PICK first \in Scheduling!Times(r.spec, now) :
         table' = [table EXCEPT ![t] = [spec |-> {r.spec}, authorized |-> r.authorized,
                                        next |-> first, last |-> 0]]
  BY DEF Scheduling!AddTask
<1>3. r.spec \in Schedules /\ first \in Nat
  <2>1. r.spec \in Schedules /\ now \in Nat
    BY DEF Schedules, Paced, LoopTyped
  <2> QED
    BY <2>1, TimesAreNumbers
<1>4. LoopTyped'
  <2>1. [spec |-> {r.spec}, authorized |-> r.authorized, next |-> first, last |-> 0] \in Rows
    BY <1>3 DEF Rows
  <2> QED
    BY <1>1, <1>2, <2>1 DEF Paced, LoopTyped
<1>5. Timed'
  <2> SUFFICES ASSUME NEW u \in Task, NEW other \in table'[u].spec
               PROVE  /\ table'[u].spec = {other}
                      /\ table'[u].last > 0 =>
                           table'[u].next \in Scheduling!Times(other, table'[u].last)
    BY DEF Timed, Scheduling!Times, Scheduling!NextAfter, Scheduling!CronTimes,
       Scheduling!CronMatches, Scheduling!ParseSchedule
  <2>1. CASE u = t
    BY <1>2, <2>1 DEF Paced, LoopTyped
  <2>2. CASE u # t
    BY <1>2, <2>2 DEF Paced, LoopTyped, Timed
  <2> QED
    BY <2>1, <2>2
<1>6. \A u \in Task \ {t} : table'[u] = table[u]
  BY <1>2 DEF Paced, LoopTyped
<1>7. t \notin loop.left \union loop.running
  BY <1>1 DEF Paced, Ready
<1>8. StaysGone' /\ Ready'
  BY <1>1, <1>6, <1>7 DEF Paced, LoopTyped, StaysGone, Ready, Scheduling!Present
<1> QED
  BY <1>1, <1>4, <1>5, <1>8 DEF Paced, TurnComesOnce, RunOnce, LateOnce

\* A task that is removed may still be in the tick, which then runs it once.
LEMMA RemovePaced ==
  ASSUME Paced, NEW t \in Task, Scheduling!RemoveTask(t)
  PROVE  Paced'
<1>1. /\ UNCHANGED <<now, loop, late, runs, blamed, early, unasked>>
      /\ table' = [table EXCEPT ![t] = Scheduling!NoRow]
      /\ removed' = removed \union {t} /\ Scheduling!Present(t)
  BY DEF Scheduling!RemoveTask
<1>2. LoopTyped'
  <2>1. Scheduling!NoRow \in Rows
    BY DEF Rows, Scheduling!NoRow
  <2> QED
    BY <1>1, <2>1 DEF Paced, LoopTyped
<1>3. Timed'
  <2> SUFFICES ASSUME NEW u \in Task, NEW other \in table'[u].spec
               PROVE  /\ table'[u].spec = {other}
                      /\ table'[u].last > 0 =>
                           table'[u].next \in Scheduling!Times(other, table'[u].last)
    BY DEF Timed, Scheduling!Times, Scheduling!NextAfter, Scheduling!CronTimes,
       Scheduling!CronMatches, Scheduling!ParseSchedule
  <2>1. CASE u = t
    BY <1>1, <2>1 DEF Paced, LoopTyped, Scheduling!NoRow
  <2>2. CASE u # t
    BY <1>1, <2>2 DEF Paced, LoopTyped, Timed
  <2> QED
    BY <2>1, <2>2
<1>4. /\ table'[t] = Scheduling!NoRow
      /\ \A u \in Task \ {t} : table'[u] = table[u]
  BY <1>1 DEF Paced, LoopTyped
<1>5. StaysGone' /\ Ready'
  BY <1>1, <1>4 DEF Paced, LoopTyped, StaysGone, Ready, Scheduling!Present
<1>6. RunOnce' /\ LateOnce'
  BY <1>1 DEF Paced, RunOnce, LateOnce
<1> QED
  BY <1>1, <1>2, <1>3, <1>5, <1>6 DEF Paced, TurnComesOnce

\* No task runs before its time, or twice for one time unless a run was cut off, or
\* more than once after its removal, and none does unauthorized what wants a yes: for
\* any tasks and schedules, and however ticks, failures and the other processes'
\* changes of the table interleave.
THEOREM SchedulerKeepsPace == Spec => []RunsAreSpaced
<1>1. ASSUME Paced, [Next]_vars
      PROVE  Paced'
  <2>1. Scheduling!Next \/ UNCHANGED schedulerVars
    BY <1>1 DEF Next, vars
  <2>2. CASE UNCHANGED schedulerVars
    <3>1. UNCHANGED <<now, table, loop, removed, late, runs, blamed, early, unasked>>
      BY <2>2 DEF schedulerVars
    <3> QED
      BY <1>1, <3>1 DEF Paced, LoopTyped, Timed, StaysGone, Ready, TurnComesOnce, RunOnce,
         LateOnce, Scheduling!Present
  <2>3. CASE Scheduling!Next
    <3>1. CASE Scheduling!Run
      BY <1>1, <3>1, RunPaced DEF Scheduling!Run
    <3>2. CASE Scheduling!MarkRan
      BY <1>1, <3>2, MarkPaced DEF Scheduling!MarkRan
    <3>3. ASSUME NEW t \in Task, Scheduling!CronRemove(t)
          PROVE  Paced'
      BY <1>1, <3>3, RemovePaced DEF Scheduling!CronRemove
    <3>4. ASSUME NEW t \in Task, NEW r \in Requests,
                 Scheduling!CronAdd(t, r) \/ Scheduling!ScheduleTask(t, r)
          PROVE  Paced'
      BY <1>1, <3>4, AddPaced DEF Scheduling!CronAdd, Scheduling!ScheduleTask
    <3> QED
      BY <1>1, <2>3, <3>1, <3>2, <3>3, <3>4, TickPaced, DropPaced, PassPaced
      DEF Scheduling!Next, Scheduling!Step
  <2> QED
    BY <2>1, <2>2, <2>3
<1>2. Paced => RunsAreSpaced
  <2> SUFFICES ASSUME Paced PROVE Scheduling!RunsAreSpaced
    BY DEF RunsAreSpaced
  <2>1. ASSUME NEW t \in Task, Scheduling!Present(t)
        PROVE  runs[t] <= blamed[t] + 1
    BY <2>1 DEF Paced, StaysGone, RunOnce, LoopTyped
  <2>2. ASSUME NEW t \in removed
        PROVE  ~Scheduling!Present(t) /\ late[t] <= 1
    BY DEF Paced, LoopTyped, StaysGone, LateOnce
  <2> QED
    BY <2>1, <2>2 DEF Paced, Scheduling!RunsAreSpaced
<1> QED
  BY <1>1, <1>2, PacedInit, PTL DEF Spec
=============================================================================
