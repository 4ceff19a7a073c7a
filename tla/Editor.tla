------------------------------- MODULE Editor -------------------------------
(***************************************************************************)
(* acp/server.py: an editor speaks JSON-RPC to the agent over its pipes.   *)
(* serve reads a line, awaits its handling, writes the response, and only  *)
(* then reads on; a prompt is a turn of AgentLoop, whose calls all run,    *)
(* for the loop's default approve allows them.                             *)
(***************************************************************************)
EXTENDS AgentLoop

CONSTANTS
    MaxLines,    \* bound: lines the editor writes
    Unknown      \* a session id the server never gave

VARIABLES
    lines,     \* what the editor wrote
    read,      \* how many of them were read
    replies,   \* ids of the responses, in the order they were written
    known,     \* _sessions
    serving    \* serve: "reading", "turn", "over"

vars == <<loopVars, lines, read, replies, known, serving>>

t == CHOOSE x \in Turn : TRUE
NoId == 0

\* A line: no JSON, JSON that is no object, or a message with or without an id.
Method == {"nothing", "list", "initialize", "session/new", "session/prompt",
           "session/cancel", "other"}

Init ==
    /\ LoopInit
    /\ lines = <<>> /\ read = 0 /\ replies = <<>> /\ known = {} /\ serving = "reading"

Write(method, s, request) ==
    /\ serving # "over" /\ Len(lines) < MaxLines
    /\ method # "session/prompt" => s = Unknown
    /\ lines' = Append(lines, [method |-> method, session |-> s,
                               id |-> IF request THEN Len(lines) + 1 ELSE NoId])
    /\ UNCHANGED <<loopVars, read, replies, known, serving>>

line == lines[read + 1]

Reads(methods) ==
    /\ serving = "reading" /\ read < Len(lines)
    /\ line.method \in methods
    /\ read' = read + 1
    /\ UNCHANGED lines

Respond(id) == replies' = IF id = NoId THEN replies ELSE Append(replies, id)

\* A blank line, or one that is no JSON.
Skip ==
    /\ Reads({"nothing"})
    /\ UNCHANGED <<loopVars, replies, known, serving>>

\* A list is JSON, and msg.get raises outside of the try: serve is over.
Stumble ==
    /\ Reads({"list"})
    /\ serving' = "over"
    /\ UNCHANGED <<loopVars, replies, known>>

\* The editor has closed its end.
HangUp ==
    /\ serving = "reading" /\ read = Len(lines)
    /\ serving' = "over"
    /\ UNCHANGED <<loopVars, lines, read, replies, known>>

\* cancel is read after the turn it was meant for, and does nothing; an unknown
\* method is an error.
Dispatch ==
    /\ Reads({"initialize", "session/cancel", "other"})
    /\ Respond(line.id)
    /\ UNCHANGED <<loopVars, known, serving>>

NewSession ==
    /\ Reads({"session/new"})
    /\ Respond(line.id)
    /\ \/ \E s \in Session \ known : known' = known \union {s}
       \/ known = Session /\ UNCHANGED known
    /\ UNCHANGED <<loopVars, serving>>

PromptUnknown ==
    /\ Reads({"session/prompt"}) /\ line.session \notin known
    /\ Respond(line.id)
    /\ UNCHANGED <<loopVars, known, serving>>

Prompt(s) ==
    /\ Reads({"session/prompt"}) /\ line.session = s /\ s \in known
    /\ Begin(t, s)
    /\ serving' = "turn"
    /\ UNCHANGED <<replies, known>>
-----------------------------------------------------------------------------
Advances(s) ==
    /\ serving = "turn"
    /\ \/ SpendNothing(t, s) \/ Request(t, s) \/ RunSafe(t, s) \/ SeekApproval(t)
       \/ \E calls \in Reply : Answer(t, s, calls)
       \/ turn[t].pc = "approve" /\ turn[t].of = {s} /\ Result(t, s)
    /\ UNCHANGED <<lines, read, replies, known, serving>>

\* The response to the prompt that was read last.
Responds ==
    /\ Respond(lines[read].id)
    /\ serving' = "reading"
    /\ UNCHANGED <<lines, read, known>>

\* The answer was streamed; "end_turn".
EndTurn ==
    /\ serving = "turn" /\ turn[t].pc = "over"
    /\ turn' = [turn EXCEPT ![t] = NoTurn]
    /\ Responds
    /\ UNCHANGED <<history, used>>

\* Mutant: an exception leaves the request unanswered.
FailSilently(s) ==
    /\ serving = "turn" /\ turn[t].pc \in {"check", "stream"}
    /\ Raises(t, s)
    /\ serving' = "reading"
    /\ UNCHANGED <<lines, read, replies, known>>

\* A ProviderError is told, and is a "refusal"; any other exception an error.
Fail(s) ==
    /\ serving = "turn" /\ turn[t].pc \in {"check", "stream"}
    /\ Raises(t, s)
    /\ Responds

Serves ==
    \/ Skip \/ Stumble \/ Dispatch \/ NewSession \/ PromptUnknown \/ EndTurn
    \/ \E s \in Session : Prompt(s) \/ Advances(s)

Next ==
    \/ Serves \/ HangUp \/ \E s \in Session : Fail(s)
    \/ \E method \in Method, s \in Session \union {Unknown}, request \in BOOLEAN :
          Write(method, s, request)

\* Lines that are there are read, and requests to the provider come back.
Fairness == WF_vars(Serves)

Spec == Init /\ [][Next]_vars /\ Fairness
-----------------------------------------------------------------------------
\* The ids to answer among the first n lines, in their order.
ToAnswer(n) ==
    LET requests == SelectSeq(SubSeq(lines, 1, n),
                              LAMBDA x : x.id # NoId /\ x.method \notin {"nothing", "list"})
    IN  [k \in 1..Len(requests) |-> requests[k].id]

\* Each request has one response, whatever raised in its turn, notifications have
\* none, and responses come in the order of the requests.
RepliesInOrder ==
    replies = ToAnswer(IF serving = "turn" THEN read - 1 ELSE read)

\* Every request is answered sometime, unless a line stopped serve before or the
\* provider keeps sending calls without their usage: no spent budget and no exception
\* leaves the editor waiting.
Answered ==
    \A n \in 1..MaxLines :
        \/ []<>(~turn[t].counted)
        \/ (n <= Len(lines) /\ lines[n].id # NoId /\ lines[n].method \notin {"nothing", "list"})
               ~> (serving = "over" \/ \E k \in 1..Len(replies) : replies[k] = n)

\* The editor gets what it waits for: a response to each request, in their order.
RequestsAnswered == []RepliesInOrder /\ Answered
=============================================================================
