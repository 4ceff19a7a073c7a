------------------------------ MODULE Terminal ------------------------------
(***************************************************************************)
(* cli/tui.py: one person at a terminal, session after session, and in one *)
(* a turn of AgentLoop at a time.  Approval is asked on the terminal, and  *)
(* may be given for a tool for the rest of the session, except where a     *)
(* call cannot be undone.  What is written and answered is logged in       *)
(* core/store.py, at the end what the user said of himself is proposed as  *)
(* memories (memory/usermodel.py), and proactive/suggest.py looks in the   *)
(* log for what is asked again and again.                                  *)
(***************************************************************************)
EXTENDS AgentLoop

CONSTANTS
    Line,           \* what the user may write: words, which are the same as others' but
                    \* for case, whether they have one of the cues of a fact, are longer
                    \* than 8 characters, have a word of recurrence
    Alike,          \* <<a, b>>: jaccard(a, b) >= similarity
    MinCount,       \* min_count: 3
    Suggestions,    \* limit of suggestions: 5
    MaxSessions,    \* bound: sessions, far less than the 200 that are looked through
    MaxTurns        \* bound: messages the user writes

VARIABLES
    session,   \* its number
    place,     \* where it is: "prompt", "turn", "reflection", "over"
    grants,    \* RiskEngine.session_grants
    said,      \* the user's messages in the history
    log,       \* the rows of messages: append_message, in the order of history()
    proposed,  \* by reflect()
    ran        \* history: the calls that ran, each with who let it

vars == <<loopVars, session, place, grants, said, log, proposed, ran>>

t == CHOOSE x \in Turn : TRUE
s == CHOOSE x \in Session : TRUE

Init ==
    /\ LoopInit
    /\ session = 1 /\ place = "prompt" /\ grants = {}
    /\ said = <<>> /\ log = <<>> /\ proposed = <<>>
    /\ ran = {}

\* create_session, with a history, a budget and grants of its own.
NewSession ==
    /\ place = "over" /\ session < MaxSessions
    /\ session' = session + 1 /\ place' = "prompt"
    /\ history' = [history EXCEPT ![s] = NoHistory]
    /\ used' = [used EXCEPT ![s] = [iterations |-> 0, tokens |-> 0]]
    /\ grants' = {} /\ said' = <<>> /\ proposed' = <<>> /\ ran' = {}
    /\ UNCHANGED <<turn, log>>

Row(role, line) == [session |-> session, role |-> role, line |-> line]

\* The rows of what the user wrote, in all sessions and in session n.
Written == {k \in 1..Len(log) : log[k].role = "user"}
Lines(n) == {k \in Written : log[k].session = n}

UserWrites(line) ==
    /\ place = "prompt" /\ Cardinality(Written) < MaxTurns
    /\ Begin(t, s)
    /\ place' = "turn"
    /\ said' = Append(said, line)
    /\ log' = Append(log, Row("user", line))
    /\ UNCHANGED <<session, grants, proposed, ran>>

\* /clear: the history goes, the log, the grants and the budget stay.
Clear ==
    /\ place = "prompt"
    /\ history' = [history EXCEPT ![s] = NoHistory]
    /\ said' = <<>>
    /\ UNCHANGED <<turn, used, session, place, grants, log, proposed, ran>>

\* /exit, or Ctrl-C or Ctrl-D at the prompt.
Exit ==
    /\ place = "prompt" /\ place' = "reflection"
    /\ UNCHANGED <<loopVars, session, grants, said, log, proposed, ran>>

\* _handle_command: of the others only /model does anything, and that to the provider.
HandleCommand == Clear \/ Exit \/ (place = "prompt" /\ UNCHANGED vars)

\* Mutant: what was seen is not looked at.
CandidatesAll == {k \in 1..Len(said) : said[k].fact}

\* candidate_observations: the lines with a cue, of those that are the same but for
\* case the first.
Candidates ==
    {k \in 1..Len(said) : said[k].fact /\ ~\E j \in 1..(k - 1) : said[j].fact /\ said[j].same = said[k].same}

\* reflect() proposes one after the other, and is given up with the first exception;
\* what becomes of a proposal is VerifiedMemory's.
Reflect ==
    /\ place = "reflection"
    /\ \/ /\ \E k \in Candidates : /\ Cardinality({j \in Candidates : j < k}) = Len(proposed)
                                   /\ proposed' = Append(proposed, said[k])
          /\ UNCHANGED place
       \/ place' = "over" /\ UNCHANGED proposed
    /\ UNCHANGED <<loopVars, session, grants, said, log, ran>>
-----------------------------------------------------------------------------
call == Head(turn[t].calls)

Advances ==
    /\ place = "turn"
    /\ \/ SpendNothing(t, s) \/ Request(t, s) \/ SeekApproval(t)
       \/ \E calls \in Reply : Answer(t, s, calls)
    /\ UNCHANGED <<session, place, grants, said, log, proposed, ran>>

Runs(by) ==
    /\ ran' = ran \union {[call |-> call, by |-> by]}
    /\ Result(t, s)

Safely ==
    /\ place = "turn" /\ turn[t].pc = "tools" /\ call.risk = "safe"
    /\ Runs("safe")
    /\ UNCHANGED <<session, place, grants, said, log, proposed>>

\* approve(), up to the question.
Decision == Classify(call, call.tool \in grants)

Deciding(decision) ==
    place = "turn" /\ turn[t].pc = "approve" /\ Decision = decision

Granted ==
    /\ Deciding("auto") /\ Runs("grant")
    /\ UNCHANGED <<session, place, grants, said, log, proposed>>

Yes ==
    /\ Deciding("confirm") /\ Runs("yes")
    /\ UNCHANGED <<session, place, grants, said, log, proposed>>

\* "session" or "s" is an answer only where the call can be undone.
YesForSession ==
    /\ Deciding("confirm") /\ ~call.irreversible
    /\ Runs("yes")
    /\ grants' = grants \union {call.tool}
    /\ UNCHANGED <<session, place, said, log, proposed>>

No ==
    /\ Deciding("confirm") \/ Deciding("block")
    /\ Denied(t, s)
    /\ UNCHANGED <<session, place, grants, said, log, proposed, ran>>
-----------------------------------------------------------------------------
\* The turn is over: its answer is logged, and the prompt is back.
Return ==
    /\ place = "turn" /\ turn[t].pc = "over"
    /\ turn' = [turn EXCEPT ![t] = NoTurn]
    /\ place' = "prompt"
    /\ log' = Append(log, Row("assistant", said[Len(said)]))
    /\ UNCHANGED <<history, used, session, grants, said, proposed, ran>>

\* The provider answered with an error: the prompt is back without an answer.
ProviderFails ==
    /\ place = "turn" /\ turn[t].pc = "stream"
    /\ turn' = [turn EXCEPT ![t] = NoTurn]
    /\ place' = "prompt"
    /\ UNCHANGED <<history, used, session, grants, said, log, proposed, ran>>

\* Ctrl-C, where Python is inside the turn: it is given up as it is; elsewhere, and
\* with any other exception, the session ends without reflection.
Interrupt ==
    /\ place = "turn"
    /\ Raises(t, s)
    /\ place' \in {"prompt", "over"}
    /\ UNCHANGED <<session, grants, said, log, proposed, ran>>

Next == \/ NewSession \/ HandleCommand \/ Exit \/ Reflect \/ Advances \/ Safely \/ Granted \/ Yes
        \/ YesForSession \/ No \/ Return \/ ProviderFails \/ Interrupt
        \/ \E line \in Line : UserWrites(line)

Spec == Init /\ [][Next]_vars
-----------------------------------------------------------------------------
(* proactive/suggest.py, at any time *)

\* What was asked in more than a word or two, the latest session first.
Asked == {k \in Written : log[k].line.long}
Sooner(j, k) == \/ log[j].session > log[k].session
                \/ log[j].session = log[k].session /\ j < k

\* _cluster: what is like none that begins a group begins one; the others are of the
\* first group whose beginning they are like.
Near(k, beginnings) == {j \in beginnings : Sooner(j, k) /\ <<log[k].line, log[j].line>> \in Alike}
Beginnings == CHOOSE B \in SUBSET Asked : \A k \in Asked : k \in B <=> Near(k, B) = {}
Cluster(b) ==
    {k \in Asked : \/ k = b
                  \/ /\ b \in Near(k, Beginnings)
                     /\ \A j \in Near(k, Beginnings) \ {b} : Sooner(b, j)}

\* suggest_automations: the groups that are large enough, of these the largest.
Large == {b \in Beginnings : Cardinality(Cluster(b)) >= MinCount}
Larger(b, c) == \/ Cardinality(Cluster(b)) > Cardinality(Cluster(c))
                \/ Cardinality(Cluster(b)) = Cardinality(Cluster(c)) /\ Sooner(b, c)
Suggestion(b) == LET intent == log[b].line
                 IN  [kind |-> IF intent.recurring THEN "schedule" ELSE "skill",
                      intent |-> intent, count |-> Cardinality(Cluster(b))]
Suggested == {Suggestion(b) : b \in {c \in Large : Cardinality({d \in Large : Larger(d, c)}) < Suggestions}}
-----------------------------------------------------------------------------
\* Of the calls run_turn asks about, none that is blocked runs, one that cannot be
\* undone runs only on a yes to itself, and another unasked only if "session" was
\* answered for its tool in this session: neither a grant for a harmless call, a
\* cleared history nor an interrupted turn widens it.
NothingIrreversibleUnasked ==
    \A r \in ran : /\ r.by # "safe" => ~r.call.blocked
                   /\ r.by = "grant" => ~r.call.irreversible /\ r.call.tool \in grants

\* How many lines of this session there are from the row k on, and which is written there.
Back(k) == Cardinality({j \in Lines(session) : j >= k})
Remembered(k) == Back(k) <= Len(said) => said[Len(said) + 1 - Back(k)] = log[k].line

\* The log holds every message of the user in order, whatever is cleared, fails or is
\* interrupted, the history the latest of this session, and an answer follows its
\* question; what is proposed as a memory the user said since the history was cleared,
\* and is proposed once; what is suggested was asked as often as is said, in whichever
\* sessions, however much of them was cleared.
SessionIsKept ==
    /\ \A k \in 1..Len(log) : log[k].role = "assistant" =>
           k > 1 /\ log[k - 1] = [log[k] EXCEPT !.role = "user"]
    /\ Len(said) <= Cardinality(Lines(session))
    /\ \A k \in Lines(session) : Remembered(k)
    /\ \A k \in 1..Len(proposed) :
          /\ \E i \in 1..Len(said) : said[i] = proposed[k]
          /\ proposed[k].fact
          /\ \A j \in 1..(k - 1) : proposed[j].same # proposed[k].same
    /\ \A suggestion \in Suggested :
          suggestion.count \in MinCount..Cardinality({k \in Written :
              log[k].line = suggestion.intent \/ <<log[k].line, suggestion.intent>> \in Alike})
=============================================================================
