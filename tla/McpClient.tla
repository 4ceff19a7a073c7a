----------------------------- MODULE McpClient -----------------------------
(***************************************************************************)
(* tools/mcp/client.py and manager.py: the manager starts the configured   *)
(* servers one after the other, each a subprocess that is spoken to over   *)
(* its pipes; then the turns of every chat call their tools.  A client has *)
(* one request under way, which its lock guards.  The servers are          *)
(* external: they answer in any order, say more than they were asked,      *)
(* refuse, hang or exit.                                                   *)
(***************************************************************************)
EXTENDS Integers, Sequences, SequencesExt, FiniteSets

CONSTANTS
    Server,     \* the names in mcp_servers, 1..n in their order
    Offers,     \* each server's tools, by the names they get here
    Builtin,    \* the names of the agent's own tools
    Caller,     \* the tool calls of the turns
    MaxNotices  \* bound: messages no one asked for

Manager == "manager"
Nobody == "nobody"

VARIABLES
    enabled,   \* servers whose configuration says so
    conduct,   \* each server: "answers", "hangs" or "exited"
    asked,     \* requests each server has read and not answered
    pipe,      \* messages of each server that its client has not read
    notices,
    lastId,    \* each client's _next_id
    holder,    \* who holds each client's lock
    wants,     \* what the manager and the callers do
    starting,  \* the server the manager starts; past the last, start() is over
    connected, errors,
    clients,   \* the manager's _clients
    registered \* the registry's tools of servers, each with its name and its server

vars == <<enabled, conduct, asked, pipe, notices, lastId, holder, wants, starting,
          connected, errors, clients, registered>>

AtRest == [pc |-> "off", server |-> 0, method |-> "", id |-> 0, got |-> Nobody]

Init ==
    /\ enabled \in SUBSET Server
    /\ conduct \in [Server -> {"answers", "hangs"}]
    /\ asked = [s \in Server |-> {}] /\ pipe = [s \in Server |-> <<>>]
    /\ notices = 0
    /\ lastId = [s \in Server |-> 0] /\ holder = [s \in Server |-> Nobody]
    /\ wants = [c \in Caller \union {Manager} |-> AtRest]
    /\ starting = 1
    /\ connected = {} /\ errors = {} /\ clients = {} /\ registered = {}
-----------------------------------------------------------------------------
(* The servers *)

serverVars == <<enabled, lastId, holder, wants, starting, connected, errors, clients,
                registered>>

\* A server answers, or refuses, one of the requests it has; the reply bears its id.
ServerAnswers(s) ==
    /\ conduct[s] = "answers"
    /\ \E request \in asked[s], ok \in BOOLEAN :
          /\ asked' = [asked EXCEPT ![s] = @ \ {request}]
          /\ pipe' = [pipe EXCEPT ![s] =
                         Append(@, [id |-> request.id, to |-> request.by, ok |-> ok])]
    /\ UNCHANGED <<serverVars, conduct, notices>>

\* A notification has no id.
Notice(s) ==
    /\ conduct[s] = "answers" /\ notices < MaxNotices
    /\ lastId[s] > 0
    /\ notices' = notices + 1
    /\ pipe' = [pipe EXCEPT ![s] = Append(@, [id |-> 0, to |-> Nobody, ok |-> TRUE])]
    /\ UNCHANGED <<serverVars, conduct, asked>>

Misbehave(s) ==
    /\ conduct[s] = "answers" /\ lastId[s] > 0
    /\ conduct' = [conduct EXCEPT ![s] = "hangs"] \/ conduct' = [conduct EXCEPT ![s] = "exited"]
    /\ UNCHANGED <<serverVars, asked, pipe, notices>>
-----------------------------------------------------------------------------
(* MCPClient._request *)

requestRest == <<enabled, conduct, notices, starting, connected, errors, clients,
                 registered>>

\* What a caller's step does with its lock, its wish and its reply.
Lock(s, c) == holder' = [holder EXCEPT ![s] = c]

Send(c, s) ==
    /\ lastId' = [lastId EXCEPT ![s] = @ + 1]
    /\ asked' = IF conduct[s] = "exited" THEN asked
                ELSE [asked EXCEPT ![s] = @ \union {[id |-> lastId[s] + 1, by |-> c]}]
    /\ wants' = [wants EXCEPT ![c].pc = "reading", ![c].id = lastId[s] + 1]
    /\ Lock(s, c)
    /\ UNCHANGED <<requestRest, pipe>>

\* The lock is free: the request is written under the next id.
Acquire(c) ==
    LET s == wants[c].server
    IN  wants[c].pc = "wanting" /\ holder[s] = Nobody /\ Send(c, s)

Gets(c, message) ==
    /\ wants' = [wants EXCEPT ![c].pc = IF message.ok THEN "done" ELSE "failed",
                              ![c].got = message.to]
    /\ Lock(wants[c].server, Nobody)

\* Mutant: the next message is the reply.
ReadAny(c) ==
    LET s == wants[c].server
    IN  /\ wants[c].pc = "reading" /\ pipe[s] # <<>>
        /\ pipe' = [pipe EXCEPT ![s] = Tail(@)]
        /\ Gets(c, Head(pipe[s]))
        /\ UNCHANGED <<requestRest, asked, lastId>>

\* Messages with another id are passed over.
Read(c) ==
    LET s == wants[c].server
    IN  /\ wants[c].pc = "reading" /\ pipe[s] # <<>>
        /\ pipe' = [pipe EXCEPT ![s] = Tail(@)]
        /\ IF Head(pipe[s]).id = wants[c].id THEN Gets(c, Head(pipe[s]))
                                             ELSE UNCHANGED <<wants, holder>>
        /\ UNCHANGED <<requestRest, asked, lastId>>

\* "MCP server closed unexpectedly", or a broken pipe, or a line that is no JSON.
Closed(c) ==
    LET s == wants[c].server
    IN  /\ wants[c].pc = "reading" /\ pipe[s] = <<>> /\ conduct[s] = "exited"
        /\ wants' = [wants EXCEPT ![c].pc = "failed"]
        /\ Lock(s, Nobody)
        /\ UNCHANGED <<requestRest, asked, pipe, lastId>>

Request(c, s, method) ==
    wants' = [wants EXCEPT ![c] = [AtRest EXCEPT !.pc = "wanting", !.server = s,
                                                 !.method = method]]
-----------------------------------------------------------------------------
(* MCPManager *)

pipes == <<enabled, conduct, asked, pipe, notices, lastId>>

Starts(s) == starting = s /\ s \in Server

SkipDisabled(s) ==
    /\ Starts(s) /\ s \notin enabled
    /\ starting' = starting + 1
    /\ UNCHANGED <<pipes, holder, wants, connected, errors, clients, registered>>

\* start(): the subprocess is made, and asked to initialize.
Spawn(s) ==
    /\ Starts(s) /\ s \in enabled /\ wants[Manager].pc = "off"
    /\ Request(Manager, s, "initialize")
    /\ UNCHANGED <<pipes, holder, starting, connected, errors, clients, registered>>

\* as_tools().
ListTools(s) ==
    /\ Starts(s) /\ wants[Manager].pc = "done" /\ wants[Manager].method = "initialize"
    /\ Request(Manager, s, "tools/list")
    /\ UNCHANGED <<pipes, holder, starting, connected, errors, clients, registered>>

Connect(s) ==
    /\ Starts(s) /\ wants[Manager].pc = "done" /\ wants[Manager].method = "tools/list"
    /\ connected' = connected \union {s} /\ clients' = clients \union {s}
    /\ wants' = [wants EXCEPT ![Manager] = AtRest]
    /\ starting' = starting + 1
    /\ UNCHANGED <<pipes, holder, errors, registered>>

\* The server is recorded as broken; wait_for cancels what it was waiting for.
GiveUp(s) ==
    /\ errors' = errors \union {s}
    /\ holder' = [holder EXCEPT ![s] = IF @ = Manager THEN Nobody ELSE @]
    /\ wants' = [wants EXCEPT ![Manager] = AtRest]
    /\ starting' = starting + 1
    /\ UNCHANGED <<pipes, connected, clients, registered>>

\* The command cannot be run, or a request was refused or cut off.
Broken(s) ==
    /\ Starts(s) /\ s \in enabled /\ wants[Manager].pc \in {"off", "failed"}
    /\ GiveUp(s)

\* Mutant: only the first request is limited.
TimeOutFirst(s) ==
    /\ Starts(s) /\ wants[Manager].pc \in {"wanting", "reading"}
    /\ wants[Manager].method = "initialize"
    /\ GiveUp(s)

\* _START_TIMEOUT, on both requests.
TimeOut(s) ==
    /\ Starts(s) /\ wants[Manager].pc \in {"wanting", "reading"}
    /\ GiveUp(s)

Started == starting \notin Server

\* The tools of the connected servers, which are in the order of their servers.
Tools == UNION {{[name |-> Offers[s][k], server |-> s] : k \in 1..Len(Offers[s])} :
                s \in connected}

\* register_into, one after the other: a name that there is already is passed over.
RegisterInto ==
    /\ Started /\ registered = {} /\ clients # {}
    /\ registered' = {tool \in Tools :
                         /\ tool.name \notin Builtin
                         /\ \A other \in Tools : other.server < tool.server => other.name # tool.name}
    /\ UNCHANGED <<pipes, holder, wants, starting, connected, errors, clients>>

\* A turn calls a tool by its name; that has no limit.
Call(c, name) ==
    /\ wants[c].pc = "off"
    /\ \E tool \in registered : tool.name = name /\ Request(c, tool.server, "tools/call")
    /\ UNCHANGED <<pipes, holder, starting, connected, errors, clients, registered>>

\* close(), once no turn is under way: the subprocesses are terminated.
CloseAll ==
    /\ Started /\ \A c \in Caller : wants[c].pc \notin {"wanting", "reading"}
    /\ conduct' = [s \in Server |-> IF s \in clients THEN "exited" ELSE conduct[s]]
    /\ clients' = {} /\ registered' = {}
    /\ UNCHANGED <<enabled, asked, pipe, notices, lastId, holder, wants, starting, connected, errors>>
-----------------------------------------------------------------------------
Manage == \E s \in Server : SkipDisabled(s) \/ Spawn(s) \/ ListTools(s) \/ Connect(s)
                            \/ TimeOut(s) \/ Broken(s)
Advance(c) == Acquire(c) \/ Read(c) \/ Closed(c)

Next ==
    \/ \E s \in Server : ServerAnswers(s) \/ Notice(s) \/ Misbehave(s)
    \/ Manage
    \/ \E c \in Caller \union {Manager} : Advance(c)
    \/ RegisterInto \/ CloseAll
    \/ \E c \in Caller : \E tool \in registered : Call(c, tool.name)

\* The event loop runs on, and a server that answers goes on answering.
Fairness ==
    /\ WF_vars(Manage)
    /\ \A s \in Server : WF_vars(ServerAnswers(s))
    /\ \A c \in Caller \union {Manager} : WF_vars(Advance(c))

Spec == Init /\ [][Next]_vars /\ Fairness
-----------------------------------------------------------------------------
\* What a request returns is the reply to it: not a notification, not the reply to
\* another turn, not the reply to a request that was given up.  A name stands for the
\* tool of the first connected server that has it, and never for one of the agent's.
RepliesMatch ==
    /\ \A c \in Caller \union {Manager} : wants[c].pc = "done" => wants[c].got = c
    /\ \A tool \in registered :
          /\ tool.name \notin Builtin /\ tool.server \in connected
          /\ \A s \in connected : s < tool.server => ~Contains(Offers[s], tool.name)

\* start() ends, whatever the servers do, and by then every enabled server is
\* connected or has its error.
StartEnds == <>[](Started /\ connected \union errors = enabled)

\* A call to a server that answers returns, whichever other servers hang and
\* whoever waits for them.
CallsReturn ==
    \A c \in Caller :
        (wants[c].pc = "wanting") ~>
            (\/ wants[c].pc \in {"done", "failed"}
             \/ \E s \in Server : wants[c].server = s /\ conduct[s] = "hangs")

\* No server that hangs or fails takes the others with it: start() ends, and the
\* calls to the others return.
HealthyServersAnswer == StartEnds /\ CallsReturn
=============================================================================
