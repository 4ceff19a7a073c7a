------------------------------ MODULE Gateway ------------------------------
(***************************************************************************)
(* gateway/server.py and one adapter of gateway/adapters, on one asyncio   *)
(* loop: what a messaging service delivers, the tasks that take messages   *)
(* and await their handling, the question an approval puts into the chat,  *)
(* and what happens to all of it when a handler raises, the adapter        *)
(* reconnects or the process dies.  The turns are those of AgentLoop: a    *)
(* receiver is the activation of run_turn it awaits, a chat its session.   *)
(*   telegram   one loop polls getUpdates and awaits the handler           *)
(*   discord    one loop reads a socket and awaits the handler             *)
(*   slack, whatsapp   a webhook fills a queue, a task empties it; each    *)
(*              start() of the adapter makes one more such task            *)
(***************************************************************************)
EXTENDS AgentLoop

CONSTANTS
    Kind,        \* the channels to look at, a subset of those above
    Text,        \* what users write: "task", "yes", "pair"
    MaxSent,     \* bound: deliveries, repeated ones included
    MaxFaults    \* bound: repeated deliveries and deaths of the process

\* There are receivers, and as many as start() was called times.
ASSUME GatewayAssumption == IsFiniteSet(Turn) /\ Turn # {}

Receiver == Turn
User == Session          \* chat ids: what user_id is
Webhook == {"slack", "whatsapp"}
None == {}

VARIABLES
    kind,      \* the channel
    sent,      \* history: every message, numbered
    queue,     \* messages the service holds unconfirmed, or the adapter's queue
    next,      \* telegram: how many of them lie below _offset
    batch,     \* telegram: how many of them getUpdates returned
    server,    \* bind: the adapter's start() runs ("up"), will, or has returned ("over")
    rcv,       \* each receiver: what it does, the message, its future's result
    waiter,    \* _approval_waiters: whose future waits for a user's next message
    paired,    \* users PairingManager knows
    seen,      \* slack: _seen_events
    resent, crashes,
    (* history *)
    taken,     \* messages some receiver took
    tasks,     \* messages that were given to the agent
    allowed,   \* the calls approved: the user asked and the answer's message
    disturbed  \* users with two turns at once, or one that raised

chatVars == <<kind, sent, queue, next, batch, server, rcv, waiter, paired, seen,
              resent, crashes>>
historyVars == <<taken, tasks, allowed, disturbed>>
vars == <<loopVars, chatVars, historyVars>>

Off == [pc |-> "off", msg |-> 0, answer |-> 0]

Init ==
    /\ LoopInit
    /\ kind \in Kind
    /\ sent = <<>> /\ queue = <<>> /\ next = 0 /\ batch = 0
    /\ server = "down"
    /\ rcv = [r \in Receiver |-> Off]
    /\ waiter = [u \in User |-> None]
    /\ paired \in SUBSET User
    /\ seen = {} /\ resent = 0 /\ crashes = 0
    /\ taken = {} /\ tasks = {} /\ allowed = <<>> /\ disturbed = {}

\* The user r is handling a message of.
Of(r) == sent[rcv[r].msg].user

\* A question to u that no message has answered.
Open(u) == {r \in waiter[u] : rcv[r].answer = 0}
-----------------------------------------------------------------------------
(* The service *)

\* A user writes.  A socket that is down misses it.
Send(u, text) ==
    /\ Len(sent) + resent < MaxSent
    /\ kind \in Webhook => server = "up"
    /\ sent' = Append(sent, [user |-> u, text |-> text, during |-> Open(u) # {}])
    /\ queue' = IF kind = "discord" /\ server # "up" THEN queue
                ELSE Append(queue, Len(sent) + 1)
    /\ seen' = IF kind = "slack" THEN seen \union {Len(sent) + 1} ELSE seen
    /\ UNCHANGED <<loopVars, historyVars, kind, next, batch, server, rcv, waiter, paired,
                   resent, crashes>>

\* A webhook service repeats a delivery it saw no answer to: Slack's are known by
\* their event_id until the process dies, WhatsApp's are taken again.
Resend(m) ==
    /\ kind \in Webhook /\ server = "up"
    /\ Len(sent) + resent < MaxSent
    /\ resent + crashes < MaxFaults
    /\ kind = "slack" => m \notin seen
    /\ queue' = Append(queue, m)
    /\ seen' = IF kind = "slack" THEN seen \union {m} ELSE seen
    /\ resent' = resent + 1
    /\ UNCHANGED <<loopVars, historyVars, kind, sent, next, batch, server, rcv, waiter,
                   paired, crashes>>

\* getUpdates confirms what lies below the offset and returns the rest, if any.
Poll ==
    /\ kind = "telegram" /\ server = "up"
    /\ \A r \in Receiver : rcv[r].pc \in {"off", "get"}
    /\ next = batch /\ queue # <<>>
    /\ queue' = SubSeq(queue, next + 1, Len(queue))
    /\ batch' = Len(queue) - next
    /\ next' = 0
    /\ UNCHANGED <<loopVars, historyVars, kind, sent, server, rcv, waiter, paired, seen,
                   resent, crashes>>
-----------------------------------------------------------------------------
(* GatewayServer.run: bind keeps start() running *)

\* Mutant: the rest of an interrupted batch counts as seen.
StartSkipping(r) ==
    /\ server = "down" /\ rcv[r].pc = "off"
    /\ rcv' = [rcv EXCEPT ![r].pc = "get"]
    /\ server' \in {"up"} \union {x \in {"down"} : kind \in Webhook}
    /\ next' = batch /\ UNCHANGED batch
    /\ queue' = IF kind = "discord" THEN <<>> ELSE queue
    /\ UNCHANGED <<loopVars, historyVars, kind, sent, waiter, paired, seen, resent, crashes>>

\* start(): a webhook adapter makes its task before it binds its port, which may
\* fail; bind then calls start() again.
Start(r) ==
    /\ server = "down" /\ rcv[r].pc = "off"
    /\ rcv' = [rcv EXCEPT ![r].pc = "get"]
    /\ server' \in {"up"} \union {x \in {"down"} : kind \in Webhook}
    /\ batch' = next /\ UNCHANGED next
    /\ queue' = IF kind = "discord" THEN <<>> ELSE queue
    /\ UNCHANGED <<loopVars, historyVars, kind, sent, waiter, paired, seen, resent, crashes>>

\* An exception leaves r's handler: it ends start(), or the webhook's task.
Fails(r) ==
    /\ rcv' = [rcv EXCEPT ![r] = [Off EXCEPT !.pc = IF kind \in Webhook THEN "dead"
                                                                       ELSE "off"]]
    /\ server' = IF kind \in Webhook THEN server ELSE "down"

\* The socket closes: with an error, after which bind starts again, or normally,
\* which ends start() without an exception and bind with it.
Disconnect(r) ==
    /\ kind = "discord" /\ rcv[r].pc = "get"
    /\ rcv' = [rcv EXCEPT ![r].pc = "off"]
    /\ server' \in {"down", "over"}
    /\ UNCHANGED <<loopVars, historyVars, kind, sent, queue, next, batch, waiter, paired,
                   seen, resent, crashes>>

\* The process dies, and what it had in memory.
Crash ==
    /\ resent + crashes < MaxFaults /\ \E r \in Receiver : rcv[r].pc # "off"
    /\ crashes' = crashes + 1
    /\ server' = "down"
    /\ rcv' = [r \in Receiver |-> Off]
    /\ turn' = [r \in Receiver |-> NoTurn]
    /\ history' = [u \in User |-> NoHistory]
    /\ used' = [u \in User |-> [iterations |-> 0, tokens |-> 0]]
    /\ waiter' = [u \in User |-> None]
    /\ queue' = IF kind = "telegram" THEN queue ELSE <<>>
    /\ next' = 0 /\ batch' = 0 /\ seen' = {}
    /\ disturbed' = {}
    /\ UNCHANGED <<kind, sent, paired, resent, taken, tasks, allowed>>
-----------------------------------------------------------------------------
(* A receiver takes the next message *)

\* The message at the head, and what is left of the queue or the batch.
Takes(r, m) ==
    /\ server = "up" \/ kind \in Webhook
    /\ rcv[r].pc = "get"
    /\ IF kind = "telegram"
       THEN /\ next < batch /\ m = queue[next + 1]
            /\ next' = next + 1 /\ UNCHANGED queue
       ELSE /\ queue # <<>> /\ m = Head(queue)
            /\ queue' = Tail(queue) /\ UNCHANGED next
    /\ taken' = taken \union {m}

\* The user has a question open: the message is its answer.
TakeAnswer(r, m) ==
    /\ Takes(r, m)
    /\ \E q \in Open(sent[m].user) : rcv' = [rcv EXCEPT ![q].answer = m]
    /\ UNCHANGED <<loopVars, kind, sent, batch, server, waiter, paired, seen, resent,
                   crashes, tasks, allowed, disturbed>>

Handles(r, m) ==
    /\ Takes(r, m)
    /\ Open(sent[m].user) = {}
    /\ rcv' = [rcv EXCEPT ![r] = [pc |-> "handle", msg |-> m, answer |-> 0]]
    /\ UNCHANGED <<kind, sent, batch, server, waiter, seen, resent, crashes, allowed>>

\* handle, of a /pair message or a user who is not authorised: a reply is due.
TakeAside(r, m) ==
    LET u == sent[m].user
    IN  /\ Handles(r, m)
        /\ \/ sent[m].text = "pair" /\ paired' \in {paired, paired \union {u}}
           \/ sent[m].text # "pair" /\ u \notin paired /\ UNCHANGED paired
        /\ turn' = [turn EXCEPT ![r].pc = "over", ![r].of = {u}]
        /\ UNCHANGED <<history, used, tasks, disturbed>>

\* handle, of a task: the turn begins.
TakeTask(r, m) ==
    LET u == sent[m].user
    IN  /\ Handles(r, m)
        /\ sent[m].text # "pair" /\ u \in paired
        /\ Begin(r, u)
        /\ tasks' = tasks \union {m}
        /\ disturbed' = disturbed \union {x \in {u} : \E t \in Turn : turn[t].of = {u}}
        /\ UNCHANGED paired
-----------------------------------------------------------------------------
(* The turn, with the gateway's approve() *)

rest == <<kind, sent, queue, next, batch, server, paired, seen, resent, crashes>>

\* A step of run_turn that asks nobody.
Advances(r) ==
    /\ rcv[r].pc = "handle"
    /\ \E u \in User :
          \/ SpendNothing(r, u) \/ Request(r, u) \/ RunSafe(r, u)
          \/ \E calls \in Reply : Answer(r, u, calls)
    /\ UNCHANGED <<rest, rcv, waiter, historyVars>>

Seeks(r) ==
    /\ rcv[r].pc = "handle"
    /\ SeekApproval(r)
    /\ UNCHANGED <<rest, rcv, waiter, historyVars>>

\* What approve() makes of the call at hand.
Decision(r) == Classify(Head(turn[r].calls), FALSE)

\* A blocked call: the user is told and the call denied.
Block(r) ==
    /\ rcv[r].pc = "handle" /\ turn[r].pc = "approve"
    /\ Decision(r) = "block"
    /\ Denied(r, Of(r))
    /\ UNCHANGED <<rest, rcv, waiter, historyVars>>

\* ask_approval: the question is on its way ...
Ask(r) ==
    /\ rcv[r].pc = "handle" /\ turn[r].pc = "approve"
    /\ Decision(r) = "confirm"
    /\ rcv' = [rcv EXCEPT ![r].pc = "asking"]
    /\ UNCHANGED <<rest, loopVars, waiter, historyVars>>

\* Mutant: a future that is done is waited for again.
WaitAgain(r) ==
    /\ rcv[r].pc = "asking"
    /\ rcv' = [rcv EXCEPT ![r].pc = "waiting"]
    /\ waiter' = [waiter EXCEPT ![Of(r)] = {r}]
    /\ UNCHANGED <<rest, loopVars, historyVars>>

\* ... and a new future takes the place of any other of this user.
Wait(r) ==
    /\ rcv[r].pc = "asking"
    /\ rcv' = [rcv EXCEPT ![r].pc = "waiting", ![r].answer = 0]
    /\ waiter' = [waiter EXCEPT ![Of(r)] = {r}]
    /\ UNCHANGED <<rest, loopVars, historyVars>>

\* Mutant: the waiter stays.
HeardStaying(r) ==
    /\ rcv[r].pc = "waiting"
    /\ rcv' = [rcv EXCEPT ![r].pc = "handle"]
    /\ UNCHANGED waiter

\* The wait is over: the user's waiter is popped, whosever it is.
Heard(r) ==
    /\ rcv[r].pc = "waiting"
    /\ rcv' = [rcv EXCEPT ![r].pc = "handle"]
    /\ waiter' = [waiter EXCEPT ![Of(r)] = None]

\* The answer is yes: the tool runs.
Approve(r) ==
    /\ Heard(r)
    /\ rcv[r].answer # 0 /\ sent[rcv[r].answer].text = "yes"
    /\ Result(r, Of(r))
    /\ allowed' = Append(allowed, [user |-> Of(r), by |-> rcv[r].answer])
    /\ UNCHANGED <<rest, taken, tasks, disturbed>>

\* Mutant: a question is never given up.
RefuseAnswered(r) ==
    /\ Heard(r)
    /\ rcv[r].answer # 0 /\ sent[rcv[r].answer].text # "yes"
    /\ Denied(r, Of(r))
    /\ UNCHANGED <<rest, historyVars>>

\* It is anything else, or 300 seconds have passed.
Refuse(r) ==
    /\ Heard(r)
    /\ rcv[r].answer # 0 => sent[rcv[r].answer].text # "yes"
    /\ Denied(r, Of(r))
    /\ UNCHANGED <<rest, historyVars>>

\* The answer, or what was caught of a ProviderError, is sent.
SendReply(r) ==
    /\ rcv[r].pc = "handle" /\ turn[r].pc = "over"
    /\ rcv' = [rcv EXCEPT ![r] = [Off EXCEPT !.pc = "get"]]
    /\ turn' = [turn EXCEPT ![r] = NoTurn]
    /\ UNCHANGED <<rest, history, used, waiter, historyVars>>

\* The provider answers the request with an error status.
ProviderError(r) ==
    /\ turn[r].pc = "stream"
    /\ Goes(r, "over")
    /\ UNCHANGED <<rest, history, used, rcv, waiter, historyVars>>

\* Anything else that is raised where the code awaits the network or builds the
\* loop: while streaming, while sending a question, a notice or the reply.
HandlerRaises(r) ==
    /\ \/ rcv[r].pc = "asking"
       \/ rcv[r].pc = "handle" /\ turn[r].pc \in {"check", "stream", "over"}
       \/ rcv[r].pc = "handle" /\ turn[r].pc = "approve" /\ Decision(r) = "block"
    /\ Raises(r, Of(r))
    /\ Fails(r)
    /\ disturbed' = disturbed \union {Of(r)}
    /\ UNCHANGED <<kind, sent, queue, next, batch, waiter, paired, seen, resent, crashes,
                   taken, tasks, allowed>>
-----------------------------------------------------------------------------
Receive(r) == \E m \in 1..Len(sent) : TakeAnswer(r, m) \/ TakeAside(r, m) \/ TakeTask(r, m)

Proceed(r) == \/ Advances(r) \/ Seeks(r) \/ Block(r) \/ Ask(r) \/ Wait(r)
              \/ Approve(r) \/ Refuse(r) \/ SendReply(r)

Next ==
    \/ \E u \in User, text \in Text : Send(u, text)
    \/ \E m \in 1..Len(sent) : Resend(m)
    \/ Poll \/ Crash
    \/ \E r \in Receiver : \/ Start(r) \/ Disconnect(r) \/ Receive(r) \/ Proceed(r)
                           \/ ProviderError(r) \/ HandlerRaises(r)

\* The event loop runs what can run, requests and questions come back or time
\* out, and bind retries; nobody has to write, resend or crash.
Fairness ==
    /\ WF_vars(Poll)
    /\ WF_vars(\E r \in Receiver : Start(r))
    /\ \A r \in Receiver : WF_vars(Receive(r)) /\ WF_vars(Proceed(r))

Spec == Init /\ [][Next]_vars /\ Fairness
-----------------------------------------------------------------------------
(* Properties *)

TypeOK ==
    /\ LoopTypeOK
    /\ sent \in Seq([user : User, text : Text, during : BOOLEAN])
    /\ queue \in Seq(1..Len(sent))
    /\ batch <= Len(queue) /\ next <= batch
    /\ server \in {"up", "down", "over"}
    /\ rcv \in [Receiver -> [pc : {"off", "get", "handle", "asking", "waiting", "dead"},
                             msg : 0..Len(sent), answer : 0..Len(sent)]]
    /\ \A r \in Receiver :
          /\ rcv[r].pc \in {"off", "get", "dead"} <=> turn[r].pc = "off"
          /\ rcv[r].pc \in {"asking", "waiting"} => turn[r].pc = "approve"
    /\ \A u \in User : \A r \in waiter[u] : rcv[r].pc = "waiting" /\ Of(r) = u
    /\ kind \notin Webhook => Cardinality({r \in Receiver : rcv[r].pc # "off"}) <= 1
    /\ paired \subseteq User /\ taken \subseteq 1..Len(sent)

\* What a session sends the provider is well formed, whatever was denied, blocked
\* or cut short in the turns before, as long as no handler of it raised and no
\* second receiver ran a turn of it at the same time.
RequestsWellFormed ==
    \A t \in Turn, u \in User :
        turn[t].pc = "stream" /\ turn[t].of = {u} /\ u \notin disturbed =>
            WellFormed(u)

\* A yes approves one call of the user who wrote it, and is not a task besides,
\* unless the service delivered it twice: no repeated, late or foreign message
\* runs a dangerous tool.
OneYesOneCall ==
    /\ \A k \in 1..Len(allowed) : LET m == sent[allowed[k].by]
                                  IN  m.text = "yes" /\ m.user = allowed[k].user
    /\ resent = 0 /\ crashes = 0 =>
          /\ \A j, k \in 1..Len(allowed) : allowed[j].by = allowed[k].by => j = k
          /\ \A k \in 1..Len(allowed) : allowed[k].by \notin tasks

\* The budget bounds the calls a session is recorded to have made, whichever turns
\* share it: each receiver overruns it by less than one.
BudgetHolds ==
    \A u \in User : used[u].iterations <= MaxIterations + Cardinality(Receiver) - 1

\* A provider keeps sending calls in streams that stop before their usage.
Uncounted == \E t \in Turn : []<>(~turn[t].counted)

\* Telegram: every update reaches the agent or a waiter sometime, whatever raises,
\* unless a turn goes on for ever with the calls of answers that are never counted.
UpdatesArrive ==
    kind = "telegram" =>
        \A m \in 1..MaxSent : (m \in 1..Len(sent) ~> m \in taken) \/ Uncounted

\* No handler waits for ever: a question that nobody answers, a model that keeps
\* calling tools, and a spent budget all end in a reply or an exception, again unless
\* answers are never counted.
HandlersEnd == \A r \in Receiver : []<>(turn[r].pc = "off") \/ Uncounted
-----------------------------------------------------------------------------
(* What the documentation says and the code does not do (violation run) *)

\* gateway/adapters/telegram.py:3-5: approval is "handled by sending the question
\* and waiting for the next message from that user to be yes/no".  A message
\* written while a question to its user is open is not taken for a task.
NextMessageAnswers == \A m \in tasks : ~sent[m].during
=============================================================================
