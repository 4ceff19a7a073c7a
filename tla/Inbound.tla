------------------------------ MODULE Inbound ------------------------------
(***************************************************************************)
(* gateway/webhook.py and the receiving half of gateway/adapters: which of *)
(* the things a messaging service tells are handed on as messages.  Slack  *)
(* and WhatsApp make HTTP requests, each a connection of its own that may  *)
(* break at any point, and repeat what they saw no 200 for; others may     *)
(* send requests too, which only a configured secret tells from the        *)
(* service's.  Telegram and Discord are asked or listened to.  What        *)
(* becomes of a message that was handed on is Gateway's.                   *)
(***************************************************************************)
EXTENDS Integers, Sequences

CONSTANTS
    Channel,     \* a subset of {"slack", "whatsapp", "telegram", "discord"}
    Connections, \* HTTP connections at one time, numbered
    Window,      \* Slack: the age a request may have: 300 seconds
    MaxPosts,    \* bound: what happens in the chat
    MaxRequests, \* bound: HTTP requests
    MaxRestarts, \* bound: starts of the process after the first
    MaxClock     \* bound: the clock

VARIABLES
    channel,
    secret,      \* a signing secret is configured
    clock,
    posts,       \* what happened in the chat, numbered
    conn,        \* each connection: its request, how far it is
    requests,
    seen,        \* slack: _seen_events
    heard,       \* history: the messages handed on, each with the life of the process
    forged,      \* history: slack: the ids that made-up events have used up
    acked,       \* posts whose delivery the service saw a 200 for
    life

Connection == 1..Connections

vars == <<channel, secret, clock, posts, conn, requests, seen, heard, forged, acked, life>>

\* A post is whose it is and what: a text, or an edit of one, a picture: what has no
\* new text.
Post(by, kind) == [by |-> by, kind |-> kind]

\* What an event tells: its id, which is that of the post it is of, what the post is;
\* or what nobody posted, without an id or with that of a post.
Of(p) == [post |-> p, event |-> p, what |-> posts[p]]
MadeUp(event, kind) == [post |-> 0, event |-> event, what |-> Post("person", kind)]
Nothing == MadeUp(0, "other")

Free == [pc |-> "free", kind |-> "", about |-> Nothing, signed |-> FALSE, stamp |-> 0, status |-> 0]

\* `milyonus gateway start`: one channel's adapter, and what its environment holds.
GatewayStart == channel \in Channel /\ secret \in BOOLEAN

Init ==
    /\ GatewayStart
    /\ clock = 0 /\ posts = <<>>
    /\ conn = [c \in Connection |-> Free] /\ requests = 0
    /\ seen = {} /\ heard = <<>> /\ forged = {} /\ acked = {} /\ life = 0
-----------------------------------------------------------------------------
(* The chat *)

Happens(post) ==
    /\ Len(posts) < MaxPosts
    /\ posts' = Append(posts, post)
    /\ UNCHANGED <<channel, secret, clock, conn, requests, seen, heard, forged, acked, life>>

Write(kind) == Happens(Post("person", kind))

\* The agent replies, and the service tells of that post as of any other, but for
\* WhatsApp, to which it is a status, and Telegram, which is silent.
OwnPost ==
    /\ heard # <<>> /\ channel # "telegram"
    /\ Happens(Post("bot", IF channel = "whatsapp" THEN "status" ELSE "text"))
-----------------------------------------------------------------------------
(* What each adapter takes for a message *)

\* parse_event
SlackTakes(post) == post.kind = "text" /\ post.by # "bot"

\* parse_inbound
WhatsAppTakes(post) == post.kind = "text"

\* parse_message_create; an edit is an event of another type.
DiscordTakes(post) == post.by # "bot" /\ post.kind = "text"

\* start(): an update with a message that has text.
TelegramTakes(post) == post.kind = "text"

Takes(post) == CASE channel = "slack" -> SlackTakes(post)
                 [] channel = "whatsapp" -> WhatsAppTakes(post)
                 [] channel = "discord" -> DiscordTakes(post)
                 [] channel = "telegram" -> TelegramTakes(post)

HandOn(about) ==
    heard' = IF Takes(about.what) THEN Append(heard, [post |-> about.post, life |-> life])
                                  ELSE heard

\* An update below the offset, or an event of the socket, is told once.
Pull(p) ==
    /\ channel \in {"telegram", "discord"}
    /\ p \in 1..Len(posts) /\ p \notin acked
    /\ HandOn(Of(p))
    /\ acked' = acked \union {p}
    /\ UNCHANGED <<channel, secret, clock, posts, conn, requests, seen, forged, life>>
-----------------------------------------------------------------------------
(* HTTP requests *)

Opens(c, request) ==
    /\ channel \in {"slack", "whatsapp"}
    /\ requests < MaxRequests
    /\ conn[c].pc = "free" /\ \A b \in 1..(c - 1) : conn[b].pc # "free"
    /\ requests' = requests + 1
    /\ conn' = [conn EXCEPT ![c] = request]
    /\ UNCHANGED <<channel, secret, clock, posts, seen, heard, forged, acked, life>>

Asks(kind, about, signed) ==
    [pc |-> "read", kind |-> kind, about |-> about, signed |-> signed, stamp |-> clock, status |-> 0]

\* The service tells of a post, and again while it has seen no 200.
Deliver(c, p) ==
    /\ p \in 1..Len(posts) /\ p \notin acked
    /\ Opens(c, Asks("event", Of(p), TRUE))

\* The service checks the address: a POST with a challenge, or a GET.
Challenge(c) == Opens(c, Asks("challenge", Nothing, TRUE))

\* A request that is not the service's, and has no signature: of another method, no
\* JSON, a copy of an event, or an event that is made up.
Stray(c) ==
    \/ \E kind \in {"method", "garbage"} : Opens(c, Asks(kind, Nothing, FALSE))
    \/ \E p \in 1..Len(posts) : Opens(c, Asks("event", Of(p), FALSE))
    \/ \E kind \in {"text", "other"} :
          \E event \in IF channel = "slack" THEN 0..Len(posts) ELSE {0} :
              Opens(c, Asks("event", MadeUp(event, kind), FALSE))

\* Mutant: a request without a signature passes.
SlackVerifiesIfSigned(request) == secret /\ request.signed => clock - request.stamp <= Window

\* Slack's signature covers a time stamp; without a secret nothing is checked.
SlackVerifies(request) == secret => request.signed /\ clock - request.stamp <= Window

WhatsAppVerifies(request) == secret => request.signed

Answers(c, status) == conn' = [conn EXCEPT ![c].pc = "respond", ![c].status = status]

\* The id of an event, if it has one.
Id(about) == {about.event} \ {0}

\* SlackAdapter._on_request, which awaits nothing that is not ready: the method, the
\* signature, the JSON, the challenge, and of an event that was not seen the message.
SlackOnRequest(c) ==
    LET request == conn[c]
        fresh == request.kind = "event" /\ request.about.event \notin seen
    IN  /\ channel = "slack" /\ request.pc = "read"
        /\ \/ /\ request.kind = "method" /\ Answers(c, 405)
              /\ UNCHANGED <<seen, heard, forged>>
           \/ /\ request.kind # "method" /\ ~SlackVerifies(request) /\ Answers(c, 401)
              /\ UNCHANGED <<seen, heard, forged>>
           \/ /\ request.kind = "garbage" /\ SlackVerifies(request) /\ Answers(c, 400)
              /\ UNCHANGED <<seen, heard, forged>>
           \/ /\ request.kind \in {"challenge", "event"} /\ SlackVerifies(request) /\ ~fresh
              /\ Answers(c, 200) /\ UNCHANGED <<seen, heard, forged>>
           \/ /\ fresh /\ SlackVerifies(request)
              /\ seen' = seen \union Id(request.about)
              /\ forged' = IF request.about.post = 0 THEN forged \union Id(request.about) ELSE forged
              /\ HandOn(request.about)
              /\ Answers(c, 200)

\* WhatsApp's handshake is a GET, right or wrong.
WhatsAppVerification(c) ==
    /\ conn[c].kind = "challenge"
    /\ \E status \in {200, 403} : Answers(c, status)
    /\ UNCHANGED heard

\* WhatsAppCloudAdapter._handle_conn, once the request is read.
WhatsAppOnRequest(c) ==
    LET request == conn[c]
    IN  /\ channel = "whatsapp" /\ request.pc = "read"
        /\ \/ WhatsAppVerification(c)
           \/ request.kind = "method" /\ Answers(c, 405) /\ UNCHANGED heard
           \/ /\ request.kind \in {"garbage", "event"}
              /\ IF ~WhatsAppVerifies(request) THEN Answers(c, 401) /\ UNCHANGED heard
                 ELSE IF request.kind = "garbage" THEN Answers(c, 400) /\ UNCHANGED heard
                 ELSE Answers(c, 200) /\ HandOn(request.about)
        /\ UNCHANGED <<seen, forged>>

\* WebhookServer._handle_conn: the request is read, up to the length its header says,
\* and answered by the adapter.
HandleConn(c) ==
    /\ SlackOnRequest(c) \/ WhatsAppOnRequest(c)
    /\ UNCHANGED <<channel, secret, clock, posts, requests, acked, life>>

Close(c) == conn' = [conn EXCEPT ![c] = Free]

\* The status is written, and the service sees it.
Respond(c) ==
    /\ conn[c].pc = "respond"
    /\ acked' = IF conn[c].status = 200 /\ conn[c].kind = "event" /\ conn[c].signed
                THEN acked \union {conn[c].about.post} ELSE acked
    /\ Close(c)
    /\ UNCHANGED <<channel, secret, clock, posts, requests, seen, heard, forged, life>>

\* The connection breaks, before the request is read or before the answer is.
Break(c) ==
    /\ conn[c].pc # "free"
    /\ Close(c)
    /\ UNCHANGED <<channel, secret, clock, posts, requests, seen, heard, forged, acked, life>>

\* The process dies and is started again.
Restart ==
    /\ life < MaxRestarts
    /\ life' = life + 1
    /\ conn' = [c \in Connection |-> Free] /\ seen' = {}
    /\ UNCHANGED <<channel, secret, clock, posts, requests, heard, forged, acked>>

\* Only Slack's requests carry a time.
Pass ==
    /\ channel = "slack" /\ secret
    /\ clock < MaxClock
    /\ clock' = clock + 1
    /\ UNCHANGED <<channel, secret, posts, conn, requests, seen, heard, forged, acked, life>>

Next ==
    \/ \E kind \in {"text", "other"} : Write(kind)
    \/ OwnPost \/ Restart \/ Pass
    \/ \E p \in 1..MaxPosts : Pull(p)
    \/ \E c \in Connection : \/ Challenge(c) \/ Stray(c) \/ HandleConn(c) \/ Respond(c)
                             \/ Break(c) \/ \E p \in 1..MaxPosts : Deliver(c, p)

Spec == Init /\ [][Next]_vars
-----------------------------------------------------------------------------
HeardOf(p, in) == {k \in 1..Len(heard) : heard[k].post = p /\ heard[k].life = in}

\* What the service saw a 200 for and a person wrote was handed on; what was handed
\* on a person wrote, once in a life of the process except on WhatsApp.  Neither the
\* agent's own posts, nor strays and repetitions that overlap with the delivery they
\* copy, nor broken connections make the agent miss a message, answer itself, or
\* answer twice.  Without a secret Slack's and WhatsApp's adapter also hand on what
\* nobody wrote, and Slack's misses a message if something made up came first under
\* its id; with one, neither happens.
MessagesAreHeard ==
    /\ \A p \in acked : posts[p] = Post("person", "text") =>
                         p \in forged \/ \E in \in 0..life : HeardOf(p, in) # {}
    /\ \A k \in 1..Len(heard) :
          IF heard[k].post = 0 THEN ~secret /\ channel \in {"slack", "whatsapp"}
                               ELSE posts[heard[k].post] = Post("person", "text")
    /\ secret => forged = {}
    /\ channel # "whatsapp" =>
           \A p \in 1..Len(posts), in \in 0..life : \A j, k \in HeardOf(p, in) : j = k
=============================================================================
