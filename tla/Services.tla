------------------------------ MODULE Services ------------------------------
(***************************************************************************)
(* The parts of an installation that share no state with each other: each  *)
(* is a specification of its own, and `part` says whose behaviour is       *)
(* looked at.  The terminal and the editor both run AgentLoop.  What is    *)
(* stated here of a part is what the part's own module states.             *)
(***************************************************************************)
EXTENDS AgentLoop

CONSTANTS
    Task, Requests, Minutes, Hours, WeekDays, YearMinutes, Unit, MaxNow, MaxFailures,
    Server, Offers, Builtin, Caller, MaxNotices,
    File, MaxChanges, MaxEdits,
    Writer, Name, Text, Bundled, Platform,
    Line, Alike, MinCount, Suggestions, MaxSessions, MaxTurns,
    MaxLines, Unknown,
    MaxCalls, MaxFragments,
    Actor, Memory, Setting, Limit, Budget, ShowBudget, K, ToolHits, MaxItems,
    Channel, Connections, Window, MaxPosts, MaxRequests, MaxRestarts, MaxClock,
    Url, Query, Listing, Sources, Subqueries, Results, Hops,
    Command, Path, Key, Claim, ReviewGap, MaxTime

VARIABLES
    part,
    now, table, order, loop, failures, removed, late, runs, blamed, early, unasked,
    enabled, conduct, asked, pipe, notices, lastId, holder, wants, starting, connected,
    errors, clients, registered,
    tree, index, commits, head, change, changes, edits, owned, uncommitted, outcome,
    staging, live, writer, lawful, gated, mixed,
    session, place, grants, said, log, proposed, ran,
    lines, read, replies, known, serving,
    dialect, plan, sent, current, json, slots, out, wire, request,
    items, embedder,
    channel, secret, clock, posts, conn, requests, seen, heard, forged, acked, life,
    tool, stage, keys, queries, sources, blocks, at, requested, found, looked,
    backend, private, pub, command, claims, time, minted, installed, raced, upset

schedulerVars == <<now, table, order, loop, failures, removed, late, runs, blamed, early, unasked>>
mcpVars == <<enabled, conduct, asked, pipe, notices, lastId, holder, wants, starting,
             connected, errors, clients, registered>>
selfmodVars == <<tree, index, commits, head, change, changes, edits, owned, uncommitted,
                 outcome>>
skillVars == <<staging, live, writer, lawful, gated, mixed>>
terminalVars == <<session, place, grants, said, log, proposed, ran>>
editorVars == <<lines, read, replies, known, serving>>
streamVars == <<dialect, plan, sent, current, json, slots, out, wire, request>>
recallVars == <<items, embedder>>
inboundVars == <<channel, secret, clock, posts, conn, requests, seen, heard, forged, acked, life>>
researchVars == <<tool, stage, keys, queries, sources, blocks, at, requested, found, looked>>
operatorVars == <<backend, private, pub, command, claims, time, minted, installed, raced, upset>>

vars == <<part, loopVars, schedulerVars, mcpVars, selfmodVars, skillVars, terminalVars,
          editorVars, streamVars, recallVars, inboundVars, researchVars, operatorVars>>

Scheduling == INSTANCE Scheduler
Mcp == INSTANCE McpClient
Changing == INSTANCE SelfMod
Skilled == INSTANCE Skills
Screen == INSTANCE Terminal
Acp == INSTANCE Editor
Streaming == INSTANCE Streams
Recalling == INSTANCE Recall
Receiving == INSTANCE Inbound
Researching == INSTANCE Research
Signing == INSTANCE Operator

\* The gap is a number of seconds, and no key pair is the absence of one.
ASSUME OperatorAssumption == ReviewGap \in Nat /\ Signing!NoKey \notin Key

\* The channels there are adapters for.
ASSUME ChannelAssumption == Channel \subseteq {"slack", "whatsapp", "telegram", "discord"}

\* An amount of minutes, hours or days is a number of minutes.
ASSUME ScheduleAssumption ==
    /\ YearMinutes \in Nat
    /\ \A r \in Requests : r.spec.form = "amount" =>
           r.spec.n \in Nat /\ Unit[r.spec.unit] \in Nat

\* max_sources, and the requests of a web_fetch, are numbers.
ASSUME ResearchAssumption == Sources \in Nat /\ Hops \in Nat

\* The tiers.
ASSUME RecallAssumption == \A m \in Memory : m.tier \in 0..4
-----------------------------------------------------------------------------
Part == {"scheduler", "mcp", "selfmod", "skills", "terminal", "editor", "streams", "recall",
         "inbound", "research", "operator"}

\* The parts not looked at start in one of their states.
Init ==
    /\ part \in Part
    /\ Scheduling!Init /\ Changing!Init /\ Skilled!Init /\ Screen!Init /\ Acp!Init
    /\ Mcp!Init /\ (part # "mcp" => enabled = {} /\ conduct = [s \in Server |-> "hangs"])
    /\ Streaming!Init /\ (part # "streams" => dialect = "openai" /\ plan = <<>>)
    /\ Recalling!Init /\ (part # "recall" => embedder = "none")
    /\ Receiving!Init /\ (part # "inbound" => channel = "slack" /\ secret)
    /\ Researching!Init /\ (part # "research" => keys = {})
    /\ Signing!Init /\ (part # "operator" => backend)

Next ==
    \/ /\ part = "scheduler" /\ Scheduling!Next
       /\ UNCHANGED <<part, loopVars, mcpVars, selfmodVars, skillVars, terminalVars,
                      editorVars, streamVars, recallVars, inboundVars, researchVars,
                      operatorVars>>
    \/ /\ part = "mcp" /\ Mcp!Next
       /\ UNCHANGED <<part, loopVars, schedulerVars, selfmodVars, skillVars, terminalVars,
                      editorVars, streamVars, recallVars, inboundVars, researchVars,
                      operatorVars>>
    \/ /\ part = "selfmod" /\ Changing!Next
       /\ UNCHANGED <<part, loopVars, schedulerVars, mcpVars, skillVars, terminalVars,
                      editorVars, streamVars, recallVars, inboundVars, researchVars,
                      operatorVars>>
    \/ /\ part = "skills" /\ Skilled!Next
       /\ UNCHANGED <<part, loopVars, schedulerVars, mcpVars, selfmodVars, terminalVars,
                      editorVars, streamVars, recallVars, inboundVars, researchVars,
                      operatorVars>>
    \/ /\ part = "terminal" /\ Screen!Next
       /\ UNCHANGED <<part, schedulerVars, mcpVars, selfmodVars, skillVars, editorVars,
                      streamVars, recallVars, inboundVars, researchVars, operatorVars>>
    \/ /\ part = "editor" /\ Acp!Next
       /\ UNCHANGED <<part, schedulerVars, mcpVars, selfmodVars, skillVars, terminalVars,
                      streamVars, recallVars, inboundVars, researchVars, operatorVars>>
    \/ /\ part = "streams" /\ Streaming!Next
       /\ UNCHANGED <<part, loopVars, schedulerVars, mcpVars, selfmodVars, skillVars,
                      terminalVars, editorVars, recallVars, inboundVars, researchVars,
                      operatorVars>>
    \/ /\ part = "recall" /\ Recalling!Next
       /\ UNCHANGED <<part, loopVars, schedulerVars, mcpVars, selfmodVars, skillVars,
                      terminalVars, editorVars, streamVars, inboundVars, researchVars,
                      operatorVars>>
    \/ /\ part = "inbound" /\ Receiving!Next
       /\ UNCHANGED <<part, loopVars, schedulerVars, mcpVars, selfmodVars, skillVars,
                      terminalVars, editorVars, streamVars, recallVars, researchVars,
                      operatorVars>>
    \/ /\ part = "research" /\ Researching!Next
       /\ UNCHANGED <<part, loopVars, schedulerVars, mcpVars, selfmodVars, skillVars,
                      terminalVars, editorVars, streamVars, recallVars, inboundVars,
                      operatorVars>>
    \/ /\ part = "operator" /\ Signing!Next
       /\ UNCHANGED <<part, loopVars, schedulerVars, mcpVars, selfmodVars, skillVars,
                      terminalVars, editorVars, streamVars, recallVars, inboundVars,
                      researchVars>>

\* The fairness of each part, where it is the one.
Fairness ==
    /\ WF_schedulerVars(part = "scheduler" /\ Scheduling!Step)
    /\ WF_mcpVars(part = "mcp" /\ Mcp!Manage)
    /\ \A s \in Server : WF_mcpVars(part = "mcp" /\ Mcp!ServerAnswers(s))
    /\ \A c \in Caller \union {Mcp!Manager} : WF_mcpVars(part = "mcp" /\ Mcp!Advance(c))
    /\ WF_<<loopVars, editorVars>>(part = "editor" /\ Acp!Serves)

Spec == Init /\ [][Next]_vars /\ Fairness
-----------------------------------------------------------------------------
(* Properties *)

\* Scheduler: no task runs before its time, twice for one time unless a run was cut
\* off, or more than once after its removal.
RunsAreSpaced == Scheduling!RunsAreSpaced

\* Scheduler: a due task is run and marked sometime, whatever fails before it.
DueTasksRun == part = "scheduler" => Scheduling!DueTasksRun

\* MCP: what a request returns is the reply to it, whatever else the server says.
RepliesMatch == Mcp!RepliesMatch

\* MCP: start() ends with every enabled server connected or in error, and a call to a
\* server that answers returns, whichever other servers hang.
HealthyServersAnswer == part = "mcp" => Mcp!HealthyServersAnswer

\* Self-modification: no change, rollback or death loses work git took a commit of,
\* and a change that is rolled back leaves the files as they were.
WorkSurvives == Changing!WorkSurvives

\* Skills: what the model is shown is bundled, or passed the scan and its own gate.
ShownIsVetted == Skilled!ShownIsVetted

\* Terminal: a call that cannot be undone runs only on a yes of its own.
NothingIrreversibleUnasked == Screen!NothingIrreversibleUnasked

\* Editor: every request is answered sometime unless a line stopped serve, and the
\* responses come in the order of the requests.
RequestsAnswered == part = "editor" => Acp!RequestsAnswered

\* Providers: the calls handed on are the model's, in order, each with all or none of its
\* arguments and never with part of them, wherever the response stops.
CallsAreWhole == part = "streams" => Streaming!CallsAreWhole

\* Recall: less trusted memories take no room in the prompt from more trusted ones.
NoCrowdingOut == part = "recall" => Recalling!NoCrowdingOut

\* Recall: only active memories are told of, and of a user only that user's.
AnswersAreOwn == part = "recall" => Recalling!AnswersAreOwn

\* Channels: every message a service saw accepted was heard, none twice or of the agent
\* itself; none that nobody wrote, if there is a secret.
MessagesAreHeard == part = "inbound" => Receiving!MessagesAreHeard

\* Research: an answer's [n] is what was read as source n, each page checked first.
ReportsAreSourced == Researching!ReportsAreSourced

\* Terminal: the log is complete, what is proposed the user said, and what is suggested
\* he asked again and again.
SessionIsKept == Screen!SessionIsKept

\* Operator: an active claim was signed twice, a review gap apart, by the operator's keys,
\* and the operator keeps a key that verifies.
OperatorSigns == Signing!OperatorSigns
=============================================================================
