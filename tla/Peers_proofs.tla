----------------------------- MODULE Peers_proofs -----------------------------
(***************************************************************************)
(* What an installation hears from outside, proved of Services: the        *)
(* deliveries of a messaging service, the replies of MCP servers, what     *)
(* the Web is searched for and read, and the streams of the model.         *)
(***************************************************************************)
EXTENDS Services, SequenceTheorems, TLAPS

(* Channels.  A post is known before it is acknowledged, and heard before it is    *)
(* known: however deliveries, breaks and restarts interleave.                      *)

Posts == [by : {"person", "bot"}, kind : {"text", "other", "status"}]
Hearings == [post : Nat, life : Nat]
Subjects == [post : Nat, event : Nat, what : Posts]
Connects == [pc : {"free", "read", "respond"},
             kind : {"", "event", "challenge", "method", "garbage"}, about : Subjects,
             signed : BOOLEAN, stamp : Nat, status : Nat]

\* An event is of a post under its id, or made up and then not signed.
Sound(x) ==
    x.kind = "event" =>
        /\ x.about.event \in 0..Len(posts)
        /\ \/ /\ x.about.post = 0 /\ x.about.what.by = "person"
              /\ ~x.signed
           \/ /\ x.about.post \in 1..Len(posts)
              /\ x.about = Receiving!Of(x.about.post)

ChatTyped ==
    /\ channel \in {"slack", "whatsapp", "telegram", "discord"}
    /\ posts \in Seq(Posts) /\ heard \in Seq(Hearings) /\ life \in Nat /\ clock \in Nat
    /\ conn \in [Receiving!Connection -> Connects]
    /\ seen \subseteq 1..Len(posts) /\ acked \subseteq 1..Len(posts)
    /\ \A c \in Receiving!Connection : Sound(conn[c])

\* Telegram and WhatsApp tell of nothing the agent wrote as a text.
Silent == channel \in {"whatsapp", "telegram"} =>
             \A p \in 1..Len(posts) : posts[p].by = "bot" => posts[p].kind # "text"

\* Only HTTP services have connections.
Idle == channel \notin {"slack", "whatsapp"} =>
           \A c \in Receiving!Connection : conn[c].pc = "free"

ByPerson == Receiving!Post("person", "text")

\* A made-up event is accepted only if there is no secret.
Accepts == ~secret /\ channel \in {"slack", "whatsapp"}

Theirs == \A k \in 1..Len(heard) :
             /\ heard[k].life \in 0..life
             /\ IF heard[k].post = 0 THEN Accepts
                ELSE heard[k].post \in 1..Len(posts) /\ posts[heard[k].post] = ByPerson

Forged == secret => forged = {}

Told(p) == posts[p] = ByPerson => p \in forged \/ \E k \in 1..Len(heard) : heard[k].post = p

Acknowledges(x) == x.pc = "respond" /\ x.status = 200 /\ x.kind = "event" /\ x.signed

\* What is known, acknowledged or about to be was handed on, if it is a person's text and
\* no made-up event used up its id.
AllTold == /\ \A p \in seen \union acked : Told(p)
           /\ \A c \in Receiving!Connection :
                 Acknowledges(conn[c]) => Told(conn[c].about.post)

\* What was handed on is known: to Slack's adapter in this life, to Telegram and Discord
\* for good.
Known == /\ channel = "slack" =>
               \A k \in 1..Len(heard) :
                  heard[k].life = life /\ heard[k].post # 0 => heard[k].post \in seen
         /\ channel \in {"telegram", "discord"} =>
               \A k \in 1..Len(heard) : heard[k].post \in acked

HeardOnce == channel # "whatsapp" =>
                \A j, k \in 1..Len(heard) : heard[j] = heard[k] /\ heard[j].post # 0 => j = k

Faithful == ChatTyped /\ Silent /\ Idle /\ Theirs /\ Forged /\ AllTold /\ Known /\ HeardOnce

LEMMA FaithfulInit == Receiving!Init => Faithful
<1> SUFFICES ASSUME Receiving!Init PROVE Faithful
  OBVIOUS
<1>1. Receiving!Free \in Connects /\ Receiving!Free.pc = "free" /\ Receiving!Free.kind = ""
  BY DEF Receiving!Free, Receiving!Nothing, Receiving!MadeUp, Receiving!Post, Connects, Subjects,
         Posts
<1>2. /\ channel \in Channel /\ posts = <<>> /\ heard = <<>> /\ seen = {} /\ acked = {}
      /\ forged = {}
      /\ life = 0 /\ clock = 0 /\ conn = [c \in Receiving!Connection |-> Receiving!Free]
  BY DEF Receiving!Init, Receiving!GatewayStart
<1>3. \A c \in Receiving!Connection : conn[c] = Receiving!Free
  BY <1>2
<1>4. conn \in [Receiving!Connection -> Connects]
  BY <1>1, <1>2
<1>5. channel \in {"slack", "whatsapp", "telegram", "discord"}
  BY <1>2, ChannelAssumption
<1>6. posts \in Seq(Posts) /\ heard \in Seq(Hearings) /\ Len(posts) = 0 /\ Len(heard) = 0
  BY <1>2
<1>7. ChatTyped
  BY <1>1, <1>2, <1>3, <1>4, <1>5, <1>6 DEF ChatTyped, Sound
<1>8. Silent /\ Theirs /\ Forged /\ Known /\ HeardOnce
  BY <1>2, <1>6 DEF Silent, Theirs, Forged, Known, HeardOnce
<1>9. Idle /\ AllTold
  BY <1>1, <1>2, <1>3 DEF Idle, AllTold, Acknowledges
<1> QED
  BY <1>7, <1>8, <1>9 DEF Faithful

\* Every adapter hands on the texts people write, and nothing else.
LEMMA TakesTexts ==
  ASSUME ChatTyped, Silent, NEW what \in Posts,
         what.by = "person" \/ \E p \in 1..Len(posts) : what = posts[p]
  PROVE  Receiving!Takes(what) <=> what = ByPerson
<1>1. what = ByPerson <=> what.by = "person" /\ what.kind = "text"
  BY DEF Posts, ByPerson, Receiving!Post
<1>2. channel \in {"whatsapp", "telegram"} => what.by = "person" \/ what.kind # "text"
  BY DEF Silent, Posts
<1>3. what.by = "person" \/ what.by = "bot"
  BY DEF Posts
<1> QED
  BY <1>1, <1>2, <1>3 DEF ChatTyped, Receiving!Takes, Receiving!SlackTakes,
     Receiving!WhatsAppTakes, Receiving!DiscordTakes, Receiving!TelegramTakes

\* An event is handed on: heard grows by it, if it is a person's text.
LEMMA HandsOn ==
  ASSUME ChatTyped, Silent, Theirs, NEW about \in Subjects,
         \/ about.post = 0 /\ about.what.by = "person" /\ Accepts
         \/ about.post \in 1..Len(posts) /\ about = Receiving!Of(about.post),
         Receiving!HandOn(about), forged \subseteq forged',
         UNCHANGED <<channel, secret, posts, life>>
  PROVE  /\ heard' \in Seq(Hearings) /\ Theirs'
         /\ about.post # 0 => Told(about.post)'
         /\ \A q \in 1..Len(posts) : Told(q) => Told(q)'
         /\ \A k \in 1..Len(heard') :
               \/ k \in 1..Len(heard) /\ heard'[k] = heard[k]
               \/ k = Len(heard) + 1 /\ heard'[k] = [post |-> about.post, life |-> life]
<1> DEFINE p == about.post
           h == [post |-> p, life |-> life]
<1>1. /\ about.what \in Posts /\ p \in Nat
      /\ p # 0 => p \in 1..Len(posts) /\ about.what = posts[p]
      /\ p = 0 => Accepts
  BY DEF Subjects, Receiving!Of, ChatTyped
<1>2. Receiving!Takes(about.what) <=> about.what = ByPerson
  <2>1. about.what.by = "person" \/ \E q \in 1..Len(posts) : about.what = posts[q]
    BY <1>1
  <2> QED
    BY <1>1, <2>1, TakesTexts
<1>3. Accepts' = Accepts /\ ByPerson' = ByPerson
  BY DEF Accepts, ByPerson, Receiving!Post
<1>4. CASE about.what = ByPerson
  <2>1. heard' = Append(heard, h)
    BY <1>2, <1>4 DEF Receiving!HandOn
  <2>2. /\ h \in Hearings /\ h.post = p /\ h.life = life /\ heard \in Seq(Hearings)
        /\ life \in Nat
    BY <1>1 DEF Hearings, ChatTyped
  <2> HIDE DEF h
  <2>3. /\ heard' \in Seq(Hearings) /\ Len(heard') = Len(heard) + 1 /\ Len(heard) \in Nat
        /\ \A k \in 1..Len(heard) : heard'[k] = heard[k]
        /\ heard'[Len(heard) + 1] = h
    BY <2>1, <2>2
  <2>4. \A k \in 1..Len(heard') : \/ k \in 1..Len(heard) /\ heard'[k] = heard[k]
                                  \/ k = Len(heard) + 1 /\ heard'[k] = h
    BY <2>3
  <2>5. \A k \in 1..Len(heard) : k \in 1..Len(heard')
    BY <2>3
  <2>6. \A q \in 1..Len(posts) : Told(q) => Told(q)'
    BY <1>3, <2>3, <2>5 DEF Told
  <2>7. Len(heard) + 1 \in 1..Len(heard')
    BY <2>3
  <2>8. Told(p)'
    BY <2>2, <2>3, <2>7 DEF Told
  <2>9. Theirs'
    <3>1. ASSUME NEW k \in 1..Len(heard')
          PROVE  /\ heard'[k].life \in 0..life
                 /\ IF heard'[k].post = 0 THEN Accepts
                    ELSE heard'[k].post \in 1..Len(posts) /\ posts[heard'[k].post] = ByPerson
      <4>1. CASE k \in 1..Len(heard) /\ heard'[k] = heard[k]
        BY <4>1 DEF Theirs
      <4>2. CASE heard'[k] = h
        BY <1>1, <1>4, <2>2, <4>2
      <4> QED
        BY <2>4, <4>1, <4>2
    <3> QED
      BY <1>3, <3>1 DEF Theirs
  <2> QED
    BY <2>3, <2>4, <2>6, <2>8, <2>9 DEF h
<1>5. CASE about.what # ByPerson
  <2>1. heard' = heard
    BY <1>2, <1>5 DEF Receiving!HandOn
  <2>2. \A q \in 1..Len(posts) : Told(q) => Told(q)'
    BY <1>3, <2>1 DEF Told
  <2>3. p # 0 => Told(p)'
    BY <1>1, <1>3, <1>5 DEF Told
  <2>4. Theirs'
    BY <1>3, <2>1 DEF Theirs
  <2> QED
    BY <2>1, <2>2, <2>3, <2>4 DEF ChatTyped
<1> QED
  BY <1>4, <1>5

\* A post not heard in this life is heard once when it is handed on.
LEMMA HandsOnOnce ==
  ASSUME HeardOnce, NEW p \in Nat, UNCHANGED channel, heard \in Seq(Hearings),
         p # 0 => \A k \in 1..Len(heard) : heard[k] # [post |-> p, life |-> life],
         \A k \in 1..Len(heard') : \/ k \in 1..Len(heard) /\ heard'[k] = heard[k]
                                   \/ k = Len(heard) + 1 /\ heard'[k] = [post |-> p, life |-> life]
  PROVE  HeardOnce'
  BY DEF HeardOnce

LEMMA ConnSet ==
  ASSUME ChatTyped, NEW c \in Receiving!Connection, NEW x \in Connects, Sound(x),
         conn' = [conn EXCEPT ![c] = x], UNCHANGED posts
  PROVE  /\ conn' \in [Receiving!Connection -> Connects] /\ conn'[c] = x
         /\ \A d \in Receiving!Connection \ {c} : conn'[d] = conn[d]
         /\ \A d \in Receiving!Connection : Sound(conn[d])'
<1>1. /\ conn' \in [Receiving!Connection -> Connects] /\ conn'[c] = x
      /\ \A d \in Receiving!Connection \ {c} : conn'[d] = conn[d]
  BY DEF ChatTyped
<1>2. \A d \in Receiving!Connection : Sound(conn'[d])
  BY <1>1 DEF ChatTyped
<1> QED
  BY <1>1, <1>2 DEF Sound, Receiving!Of

\* A connection is opened or breaks: nothing is heard.
LEMMA ConnFaithful ==
  ASSUME Faithful, NEW c \in Receiving!Connection, NEW x \in Connects,
         Sound(x), x.pc # "respond",
         x.pc = "free" \/ channel \in {"slack", "whatsapp"},
         conn' = [conn EXCEPT ![c] = x],
         UNCHANGED <<channel, secret, clock, posts, seen, heard, forged, acked, life>>
  PROVE  Faithful'
<1>1. /\ conn' \in [Receiving!Connection -> Connects] /\ conn'[c] = x
      /\ \A d \in Receiving!Connection \ {c} : conn'[d] = conn[d]
      /\ \A d \in Receiving!Connection : Sound(conn[d])'
  BY ConnSet DEF Faithful
<1>2. ChatTyped'
  BY <1>1 DEF Faithful, ChatTyped
<1>3. Idle'
  BY <1>1 DEF Faithful, Idle
<1>4. \A q : Told(q)' <=> Told(q)
  BY DEF Told, ByPerson, Receiving!Post
<1>5. AllTold'
  BY <1>1, <1>4 DEF Faithful, AllTold, Acknowledges
<1>6. Silent' /\ Theirs' /\ Forged' /\ Known' /\ HeardOnce'
  BY DEF Faithful, Silent, Theirs, Accepts, Forged, Known, HeardOnce, ByPerson, Receiving!Post
<1> QED
  BY <1>2, <1>3, <1>5, <1>6 DEF Faithful

\* A request that is opened is of a post there is, or made up and not signed.
LEMMA OpensFaithful ==
  ASSUME Faithful, NEW c \in Receiving!Connection,
         NEW kind \in {"event", "challenge", "method", "garbage"}, NEW about \in Subjects,
         NEW signed \in BOOLEAN, Sound([kind |-> kind, about |-> about, signed |-> signed]),
         Receiving!Opens(c, Receiving!Asks(kind, about, signed))
  PROVE  Faithful'
<1>1. clock \in Nat
  BY DEF Faithful, ChatTyped
<1> DEFINE x == [pc |-> "read", kind |-> kind, about |-> about, signed |-> signed,
                 stamp |-> clock, status |-> 0]
<1>2. Receiving!Asks(kind, about, signed) = x
  BY DEF Receiving!Asks
<1>3. /\ x \in Connects /\ x.pc = "read" /\ x.kind = kind /\ x.about = about
      /\ x.signed = signed
  BY <1>1 DEF Connects
<1> HIDE DEF x
<1>4. Sound(x)
  BY <1>3 DEF Sound
<1>5. /\ channel \in {"slack", "whatsapp"} /\ conn' = [conn EXCEPT ![c] = x]
      /\ UNCHANGED <<channel, secret, clock, posts, seen, heard, forged, acked, life>>
  BY <1>2 DEF Receiving!Opens
<1> QED
  BY <1>3, <1>4, <1>5, ConnFaithful

LEMMA FreeConnects == /\ Receiving!Free \in Connects /\ Receiving!Free.pc = "free"
                      /\ Receiving!Free.kind = "" /\ Sound(Receiving!Free)
  BY DEF Receiving!Free, Receiving!Nothing, Receiving!MadeUp, Receiving!Post, Connects, Subjects,
         Posts, Sound

LEMMA RespondFaithful ==
  ASSUME Faithful, NEW c \in Receiving!Connection, Receiving!Respond(c)
  PROVE  Faithful'
<1>1. /\ conn[c].pc = "respond" /\ conn' = [conn EXCEPT ![c] = Receiving!Free]
      /\ acked' \in {acked, acked \union {conn[c].about.post}}
      /\ acked' # acked => conn[c].status = 200 /\ conn[c].kind = "event" /\ conn[c].signed
      /\ UNCHANGED <<channel, secret, clock, posts, seen, heard, forged, life>>
  BY DEF Receiving!Respond, Receiving!Close
<1>2. /\ conn' \in [Receiving!Connection -> Connects] /\ conn'[c] = Receiving!Free
      /\ \A d \in Receiving!Connection \ {c} : conn'[d] = conn[d]
      /\ \A d \in Receiving!Connection : Sound(conn[d])'
  BY <1>1, ConnSet, FreeConnects DEF Faithful
<1>3. \A p \in acked' : p \in 1..Len(posts) /\ Told(p)
  BY <1>1 DEF Faithful, ChatTyped, AllTold, Acknowledges, Sound
<1>4. acked' \subseteq 1..Len(posts')
  BY <1>1, <1>3
<1>5. ChatTyped'
  BY <1>1, <1>2, <1>4 DEF Faithful, ChatTyped
<1>6. \A q : Told(q)' <=> Told(q)
  BY <1>1 DEF Told, ByPerson, Receiving!Post
<1>7. AllTold' /\ Idle'
  BY <1>1, <1>2, <1>3, <1>6, FreeConnects DEF Faithful, AllTold, Acknowledges, Idle
<1>8. acked \subseteq acked'
  BY <1>1
<1>9. Silent' /\ Theirs' /\ Forged' /\ Known' /\ HeardOnce'
  BY <1>1, <1>8 DEF Faithful, Silent, Theirs, Accepts, Forged, Known, HeardOnce, ByPerson, Receiving!Post
<1> QED
  BY <1>5, <1>7, <1>9 DEF Faithful

\* The process is started again: it knows nothing, and has not heard anything in that life.
LEMMA RestartFaithful ==
  ASSUME Faithful, Receiving!Restart
  PROVE  Faithful'
<1>1. /\ life' = life + 1 /\ conn' = [d \in Receiving!Connection |-> Receiving!Free]
      /\ seen' = {} /\ UNCHANGED <<channel, secret, clock, posts, heard, forged, acked>>
  BY DEF Receiving!Restart
<1>2. /\ conn' \in [Receiving!Connection -> Connects]
      /\ \A d \in Receiving!Connection : conn'[d] = Receiving!Free
  BY <1>1, FreeConnects
<1>3. ChatTyped'
  <2>1. \A d \in Receiving!Connection : Sound(conn[d])'
    BY <1>2, FreeConnects DEF Sound
  <2>2. life' \in Nat /\ seen' \subseteq 1..Len(posts')
    BY <1>1 DEF Faithful, ChatTyped
  <2> QED
    BY <1>1, <1>2, <2>1, <2>2 DEF Faithful, ChatTyped
<1>4. \A k \in 1..Len(heard) : heard[k].life \in 0..life' /\ heard[k].life # life'
  BY <1>1 DEF Faithful, ChatTyped, Theirs
<1>5. Theirs' /\ Forged' /\ Known'
  BY <1>1, <1>4 DEF Faithful, Theirs, Accepts, Forged, Known, ByPerson, Receiving!Post
<1>6. \A q : Told(q)' <=> Told(q)
  BY <1>1 DEF Told, ByPerson, Receiving!Post
<1>7. AllTold' /\ Idle'
  BY <1>1, <1>2, <1>6, FreeConnects DEF Faithful, AllTold, Acknowledges, Idle
<1>8. Silent' /\ HeardOnce'
  BY <1>1 DEF Faithful, Silent, HeardOnce
<1> QED
  BY <1>3, <1>5, <1>7, <1>8 DEF Faithful

LEMMA HappensFaithful ==
  ASSUME Faithful, NEW post \in Posts, Receiving!Happens(post),
         post.by = "bot" /\ channel \in {"whatsapp", "telegram"} => post.kind # "text"
  PROVE  Faithful'
<1>1. /\ posts' = Append(posts, post)
      /\ UNCHANGED <<channel, secret, clock, conn, seen, heard, forged, acked, life>>
  BY DEF Receiving!Happens
<1>2. /\ posts' \in Seq(Posts) /\ Len(posts') = Len(posts) + 1 /\ Len(posts) \in Nat
      /\ \A p \in 1..Len(posts) : posts'[p] = posts[p]
      /\ posts'[Len(posts) + 1] = post
  BY <1>1 DEF Faithful, ChatTyped
<1>3. \A p \in 1..Len(posts) : p \in 1..Len(posts')
  BY <1>2
<1>4. ChatTyped'
  <2>1. \A d \in Receiving!Connection : Sound(conn[d])'
    <3> SUFFICES ASSUME NEW d \in Receiving!Connection PROVE Sound(conn[d])'
      OBVIOUS
    <3>1. Sound(conn[d]) /\ conn' = conn
      BY <1>1 DEF Faithful, ChatTyped
    <3> QED
      BY <1>2, <1>3, <3>1 DEF Sound, Receiving!Of
  <2> QED
    BY <1>1, <1>2, <1>3, <2>1 DEF Faithful, ChatTyped
<1>5. \A p \in 1..Len(posts') : p \in 1..Len(posts) \/ p = Len(posts) + 1
  BY <1>2
<1>6. Silent'
  BY <1>1, <1>2, <1>5 DEF Faithful, Silent
<1>7. \A p \in 1..Len(posts) : Told(p) => Told(p)'
  BY <1>1, <1>2 DEF Told, ByPerson, Receiving!Post
<1>8. AllTold' /\ Idle'
  BY <1>1, <1>7 DEF Faithful, ChatTyped, AllTold, Acknowledges, Idle, Sound
<1>9. Theirs' /\ Forged' /\ Known' /\ HeardOnce'
  BY <1>1, <1>2, <1>3 DEF Faithful, Theirs, Accepts, Forged, Known, HeardOnce, ByPerson,
     Receiving!Post
<1> QED
  BY <1>4, <1>6, <1>8, <1>9 DEF Faithful

LEMMA AnswersConn ==
  ASSUME Faithful, NEW c \in Receiving!Connection, NEW status \in Nat,
         Receiving!Answers(c, status), UNCHANGED posts
  PROVE  /\ conn' \in [Receiving!Connection -> Connects]
         /\ conn'[c].pc = "respond" /\ conn'[c].status = status
         /\ conn'[c].kind = conn[c].kind /\ conn'[c].about = conn[c].about
         /\ conn'[c].signed = conn[c].signed
         /\ \A d \in Receiving!Connection \ {c} : conn'[d] = conn[d]
         /\ \A d \in Receiving!Connection : Sound(conn[d])'
<1> DEFINE x == [conn[c] EXCEPT !.pc = "respond", !.status = status]
<1>1. conn[c] \in Connects /\ Sound(conn[c])
  BY DEF Faithful, ChatTyped
<1>2. /\ x \in Connects /\ x.pc = "respond" /\ x.status = status /\ x.kind = conn[c].kind
      /\ x.about = conn[c].about /\ x.signed = conn[c].signed
  BY <1>1 DEF Connects
<1>3. conn' = [conn EXCEPT ![c] = x]
  BY DEF Receiving!Answers
<1> HIDE DEF x
<1>4. Sound(x)
  BY <1>1, <1>2 DEF Sound
<1> QED
  BY <1>2, <1>3, <1>4, ConnSet DEF Faithful

\* A request is answered and no post handed on: it is acknowledged only if it was before.
LEMMA AnsweredFaithful ==
  ASSUME Faithful, NEW c \in Receiving!Connection, NEW status \in Nat,
         Receiving!Answers(c, status), channel \in {"slack", "whatsapp"},
         status = 200 /\ conn[c].kind = "event" => conn[c].about.event \in seen,
         UNCHANGED <<channel, secret, clock, posts, seen, heard, forged, acked, life>>
  PROVE  Faithful'
<1>1. /\ conn' \in [Receiving!Connection -> Connects]
      /\ conn'[c].pc = "respond" /\ conn'[c].status = status
      /\ conn'[c].kind = conn[c].kind /\ conn'[c].about = conn[c].about
      /\ conn'[c].signed = conn[c].signed
      /\ \A d \in Receiving!Connection \ {c} : conn'[d] = conn[d]
      /\ \A d \in Receiving!Connection : Sound(conn[d])'
  BY AnswersConn
<1>2. ChatTyped'
  BY <1>1 DEF Faithful, ChatTyped
<1>3. \A q : Told(q)' <=> Told(q)
  BY DEF Told, ByPerson, Receiving!Post
<1>4. AllTold' /\ Idle'
  <2>1. conn[c].kind = "event" /\ conn[c].signed => conn[c].about.event = conn[c].about.post
    <3>1. Sound(conn[c])
      BY DEF Faithful, ChatTyped
    <3>2. conn[c].kind = "event" /\ conn[c].signed =>
             conn[c].about = Receiving!Of(conn[c].about.post)
      BY <3>1 DEF Sound
    <3> QED
      BY <3>2 DEF Receiving!Of
  <2> QED
    BY <1>1, <1>3, <2>1 DEF Faithful, AllTold, Acknowledges, Idle
<1>5. Silent' /\ Theirs' /\ Forged' /\ Known' /\ HeardOnce'
  BY DEF Faithful, Silent, Theirs, Accepts, Forged, Known, HeardOnce, ByPerson, Receiving!Post
<1> QED
  BY <1>2, <1>4, <1>5 DEF Faithful

\* An event is handed on and its request answered: Slack's adapter knows its id from then
\* on, and the id is used up if the event was made up.
LEMMA HandedFaithful ==
  ASSUME Faithful, NEW c \in Receiving!Connection, Receiving!Answers(c, 200),
         conn[c].kind = "event", secret => conn[c].signed, Receiving!HandOn(conn[c].about),
         \/ /\ channel = "slack" /\ conn[c].about.event \notin seen
            /\ seen' = seen \union Receiving!Id(conn[c].about)
            /\ forged' = IF conn[c].about.post = 0
                         THEN forged \union Receiving!Id(conn[c].about) ELSE forged
         \/ channel = "whatsapp" /\ seen' = seen /\ forged' = forged,
         UNCHANGED <<channel, secret, clock, posts, acked, life>>
  PROVE  Faithful'
<1>0. PICK about \in Subjects : about = conn[c].about
  BY DEF Faithful, ChatTyped, Connects
<1> DEFINE p == about.post
<1>1. Sound(conn[c]) /\ p \in Nat /\ about.event \in 0..Len(posts)
  BY <1>0 DEF Faithful, ChatTyped, Subjects, Sound
<1>2. /\ conn' \in [Receiving!Connection -> Connects]
      /\ conn'[c].kind = conn[c].kind /\ conn'[c].about = about
      /\ conn'[c].signed = conn[c].signed
      /\ \A d \in Receiving!Connection \ {c} : conn'[d] = conn[d]
      /\ \A d \in Receiving!Connection : Sound(conn[d])'
  BY <1>0, AnswersConn
<1>3. channel \in {"slack", "whatsapp"} /\ forged \subseteq forged'
  OBVIOUS
<1>4. /\ p = 0 => about.what.by = "person" /\ ~secret
      /\ p # 0 => p \in 1..Len(posts) /\ about = Receiving!Of(p) /\ about.event = p
      /\ conn[c].signed => p # 0
  BY <1>0, <1>1 DEF Sound, Receiving!Of
<1>5. /\ heard' \in Seq(Hearings) /\ Theirs' /\ (p # 0 => Told(p)')
      /\ \A q \in 1..Len(posts) : Told(q) => Told(q)'
      /\ \A k \in 1..Len(heard') : \/ k \in 1..Len(heard) /\ heard'[k] = heard[k]
                                   \/ k = Len(heard) + 1 /\ heard'[k] = [post |-> p, life |-> life]
  <2>1. \/ p = 0 /\ about.what.by = "person" /\ Accepts
        \/ p \in 1..Len(posts) /\ about = Receiving!Of(p)
    BY <1>3, <1>4 DEF Accepts
  <2>2. Receiving!HandOn(about) /\ forged \subseteq forged' /\ ChatTyped /\ Silent /\ Theirs
    BY <1>0, <1>3 DEF Faithful
  <2> QED
    BY <2>1, <2>2, HandsOn
<1>6. ASSUME NEW q \in seen'
      PROVE  q \in seen \/ (q = about.event /\ q # 0 /\ channel = "slack")
  BY <1>0, <1>6 DEF Receiving!Id
<1>7. ChatTyped'
  <2>1. seen' \subseteq 1..Len(posts')
    <3> SUFFICES ASSUME NEW q \in seen' PROVE q \in 1..Len(posts)
      OBVIOUS
    <3>1. CASE q \in seen
      BY <3>1 DEF Faithful, ChatTyped
    <3>2. CASE q = about.event /\ q # 0
      BY <1>1, <3>2
    <3> QED
      BY <1>6, <3>1, <3>2
  <2> QED
    BY <1>2, <1>5, <2>1 DEF Faithful, ChatTyped
<1>8. AllTold'
  <2>1. ASSUME NEW q \in seen' \union acked' PROVE Told(q)'
    <3>1. CASE q \in seen \union acked
      BY <1>5, <3>1 DEF Faithful, ChatTyped, AllTold
    <3>2. CASE q = about.event /\ q # 0 /\ channel = "slack"
      <4>1. CASE p = 0
        <5>1. q \in forged'
          BY <1>0, <3>2, <4>1 DEF Receiving!Id
        <5> QED
          BY <5>1 DEF Told
      <4>2. CASE p # 0
        <5>1. q = p /\ Told(p)'
          BY <1>4, <1>5, <3>2, <4>2
        <5> QED
          BY <5>1 DEF Told
      <4> QED
        BY <4>1, <4>2
    <3> QED
      BY <1>6, <2>1, <3>1, <3>2
  <2>2. ASSUME NEW d \in Receiving!Connection, d # c, Acknowledges(conn'[d])
        PROVE  Told(conn[d].about.post)'
    <3>1. conn'[d] = conn[d] /\ Sound(conn[d])
      BY <1>2, <2>2 DEF Faithful, ChatTyped
    <3>2. PICK q \in 1..Len(posts) : q = conn[d].about.post /\ q = conn'[d].about.post
      BY <2>2, <3>1 DEF Sound, Acknowledges
    <3>3. Told(q)'
      BY <1>5, <2>2, <3>1, <3>2 DEF Faithful, AllTold
    <3> QED
      BY <3>2, <3>3 DEF Told
  <2>3. conn'[c].signed => Told(conn[c].about.post)'
    BY <1>0, <1>2, <1>4, <1>5 DEF Told
  <2> QED
    BY <2>1, <2>2, <2>3 DEF AllTold, Acknowledges
<1>9. Known'
  <2>1. channel = "slack" /\ p # 0 => p \in seen' /\ seen \subseteq seen'
    BY <1>0, <1>4 DEF Receiving!Id
  <2>2. channel = "slack" => seen \subseteq seen'
    OBVIOUS
  <2> QED
    BY <1>3, <1>5, <2>1, <2>2 DEF Faithful, Known
<1>10. HeardOnce'
  <2>1. CASE channel = "slack"
    <3>1. p # 0 => \A k \in 1..Len(heard) : heard[k] # [post |-> p, life |-> life]
      BY <1>0, <1>4, <2>1 DEF Faithful, Known
    <3> QED
      BY <1>1, <1>5, <3>1, HandsOnOnce DEF Faithful, ChatTyped
  <2>2. CASE channel = "whatsapp"
    BY <2>2 DEF HeardOnce
  <2> QED
    BY <1>3, <2>1, <2>2
<1>11. Silent' /\ Idle' /\ Forged'
  <2>1. secret => forged' = forged
    BY <1>0, <1>4
  <2> QED
    BY <1>3, <2>1 DEF Faithful, Silent, Idle, Forged
<1> QED
  BY <1>5, <1>7, <1>8, <1>9, <1>10, <1>11 DEF Faithful

LEMMA PostSubject ==
  ASSUME ChatTyped, NEW p \in 1..Len(posts)
  PROVE  /\ Receiving!Of(p) \in Subjects /\ Receiving!Of(p).post = p
         /\ Receiving!Of(p).event = p /\ p # 0
         /\ \A signed \in BOOLEAN :
               Sound([kind |-> "event", about |-> Receiving!Of(p), signed |-> signed])
<1>1. posts[p] \in Posts /\ p \in Nat /\ p # 0 /\ p \in 0..Len(posts)
  BY DEF ChatTyped
<1>2. /\ Receiving!Of(p) \in Subjects /\ Receiving!Of(p).post = p
      /\ Receiving!Of(p).event = p
  BY <1>1 DEF Receiving!Of, Subjects
<1> QED
  BY <1>1, <1>2 DEF Sound

LEMMA PullFaithful ==
  ASSUME Faithful, NEW p, Receiving!Pull(p)
  PROVE  Faithful'
<1>1. /\ channel \in {"telegram", "discord"} /\ p \in 1..Len(posts) /\ p \notin acked
      /\ Receiving!HandOn(Receiving!Of(p)) /\ acked' = acked \union {p}
      /\ UNCHANGED <<channel, secret, clock, posts, conn, seen, forged, life>>
  BY DEF Receiving!Pull
<1>2. /\ Receiving!Of(p) \in Subjects /\ Receiving!Of(p).post = p /\ p # 0 /\ p \in Nat
  BY <1>1, PostSubject DEF Faithful, ChatTyped
<1>3. /\ heard' \in Seq(Hearings) /\ Theirs' /\ Told(p)'
      /\ \A q \in 1..Len(posts) : Told(q) => Told(q)'
      /\ \A k \in 1..Len(heard') : \/ k \in 1..Len(heard) /\ heard'[k] = heard[k]
                                   \/ k = Len(heard) + 1 /\ heard'[k] = [post |-> p, life |-> life]
  <2> DEFINE about == Receiving!Of(p)
  <2>1. about \in Subjects /\ about.post = p /\ about = Receiving!Of(about.post)
    BY <1>2
  <2>2. about.post \in 1..Len(posts) /\ Receiving!HandOn(about) /\ forged \subseteq forged'
    BY <1>1, <2>1
  <2> HIDE DEF about
  <2> QED
    BY <1>1, <1>2, <2>1, <2>2, HandsOn DEF Faithful
<1>4. ChatTyped'
  BY <1>1, <1>3 DEF Faithful, ChatTyped, Sound, Receiving!Of
<1>5. \A q \in seen' \union acked' : Told(q)'
  BY <1>1, <1>3 DEF Faithful, ChatTyped, AllTold
<1>6. AllTold' /\ Idle'
  BY <1>1, <1>5 DEF Faithful, AllTold, Acknowledges, Idle
<1>7. Known'
  BY <1>1, <1>3 DEF Faithful, Known
<1>8. \A k \in 1..Len(heard) : heard[k] # [post |-> p, life |-> life]
  BY <1>1 DEF Faithful, Known
<1>9. HeardOnce'
  BY <1>1, <1>2, <1>3, <1>8, HandsOnOnce DEF Faithful, ChatTyped
<1>10. Silent' /\ Forged'
  BY <1>1 DEF Faithful, Silent, Forged
<1> QED
  BY <1>3, <1>4, <1>6, <1>7, <1>9, <1>10 DEF Faithful

LEMMA HandleConnFaithful ==
  ASSUME Faithful, NEW c \in Receiving!Connection, Receiving!HandleConn(c)
  PROVE  Faithful'
<1>1. UNCHANGED <<channel, secret, clock, posts, acked, life>>
  BY DEF Receiving!HandleConn
<1>2. CASE Receiving!SlackOnRequest(c)
  <2>1. channel = "slack"
    BY <1>2 DEF Receiving!SlackOnRequest
  <2> DEFINE fresh == /\ conn[c].kind = "event" /\ conn[c].about.event \notin seen
                      /\ Receiving!SlackVerifies(conn[c]) /\ Receiving!Answers(c, 200)
                      /\ seen' = seen \union Receiving!Id(conn[c].about)
                      /\ forged' = IF conn[c].about.post = 0
                                   THEN forged \union Receiving!Id(conn[c].about) ELSE forged
                      /\ Receiving!HandOn(conn[c].about)
  <2>2. CASE fresh
    <3>1. secret => conn[c].signed
      BY <2>2 DEF Receiving!SlackVerifies
    <3> QED
      BY <1>1, <2>1, <2>2, <3>1, HandedFaithful
  <2>3. CASE ~fresh
    <3>1. PICK status \in {200, 400, 401, 405} :
             /\ Receiving!Answers(c, status) /\ UNCHANGED <<seen, heard, forged>>
             /\ status = 200 /\ conn[c].kind = "event" => conn[c].about.event \in seen
      BY <1>2, <2>3 DEF Receiving!SlackOnRequest
    <3>2. status \in Nat
      BY <3>1
    <3> QED
      BY <1>1, <2>1, <3>1, <3>2, AnsweredFaithful
  <2> QED
    BY <2>2, <2>3
<1>3. CASE Receiving!WhatsAppOnRequest(c)
  <2>1. channel = "whatsapp" /\ seen' = seen /\ forged' = forged
    BY <1>3 DEF Receiving!WhatsAppOnRequest
  <2>2. CASE Receiving!WhatsAppVerification(c)
    <3>1. PICK status \in Nat : Receiving!Answers(c, status)
      BY <2>2 DEF Receiving!WhatsAppVerification
    <3>2. conn[c].kind # "event" /\ heard' = heard
      BY <2>2 DEF Receiving!WhatsAppVerification
    <3> QED
      BY <1>1, <2>1, <3>1, <3>2, AnsweredFaithful
  <2>3. CASE \/ Receiving!Answers(c, 405) /\ heard' = heard
             \/ Receiving!Answers(c, 401) /\ heard' = heard
             \/ Receiving!Answers(c, 400) /\ heard' = heard
    <3>1. PICK status \in {400, 401, 405} : Receiving!Answers(c, status)
      BY <2>3
    <3>2. heard' = heard /\ status \in Nat /\ status # 200
      BY <2>3, <3>1
    <3> QED
      BY <1>1, <2>1, <3>1, <3>2, AnsweredFaithful
  <2>4. CASE /\ conn[c].kind = "event" /\ (secret => conn[c].signed)
             /\ Receiving!Answers(c, 200) /\ Receiving!HandOn(conn[c].about)
    BY <1>1, <2>1, <2>4, HandedFaithful
  <2> QED
    BY <1>3, <2>2, <2>3, <2>4 DEF Receiving!WhatsAppOnRequest, Receiving!WhatsAppVerifies
<1> QED
  BY <1>2, <1>3 DEF Receiving!HandleConn

LEMMA FaithfulStep == Faithful /\ [Next]_vars => Faithful'
<1> SUFFICES ASSUME Faithful, [Next]_vars PROVE Faithful'
  OBVIOUS
<1>1. Receiving!Next \/ UNCHANGED inboundVars
  BY DEF Next, vars
<1>2. ASSUME UNCHANGED <<channel, secret, posts, conn, seen, heard, forged, acked, life>>, clock' \in Nat
      PROVE  Faithful'
  <2>1. \A q : Told(q)' <=> Told(q)
    BY <1>2 DEF Told, ByPerson, Receiving!Post
  <2>2. ChatTyped' /\ Silent' /\ Idle' /\ AllTold'
    BY <1>2, <2>1 DEF Faithful, ChatTyped, Sound, Receiving!Of, Silent, Idle, AllTold
  <2>3. Theirs' /\ Forged' /\ Known' /\ HeardOnce'
    BY <1>2 DEF Faithful, Theirs, Accepts, Forged, Known, HeardOnce, ByPerson, Receiving!Post
  <2> QED
    BY <2>2, <2>3 DEF Faithful
<1>3. CASE UNCHANGED inboundVars
  BY <1>2, <1>3 DEF inboundVars, Faithful, ChatTyped
<1>4. CASE Receiving!Pass
  BY <1>2, <1>4 DEF Receiving!Pass, Faithful, ChatTyped
<1>5. ASSUME NEW kind \in {"text", "other"}, Receiving!Write(kind)
      PROVE  Faithful'
  <2>1. Receiving!Post("person", kind) \in Posts /\ Receiving!Post("person", kind).by = "person"
    BY DEF Receiving!Post, Posts
  <2> QED
    BY <1>5, <2>1, HappensFaithful DEF Receiving!Write
<1>6. CASE Receiving!OwnPost
  <2>1. PICK kind \in {"text", "status"} :
           /\ channel \in {"whatsapp", "telegram"} => kind = "status"
           /\ Receiving!Happens(Receiving!Post("bot", kind))
    BY <1>6 DEF Receiving!OwnPost
  <2>2. Receiving!Post("bot", kind) \in Posts /\ Receiving!Post("bot", kind).kind = kind
    BY DEF Receiving!Post, Posts
  <2> QED
    BY <2>1, <2>2, HappensFaithful
<1>7. ASSUME NEW c \in Receiving!Connection,
             Receiving!Challenge(c) \/ Receiving!Stray(c) \/ (\E p : Receiving!Deliver(c, p))
      PROVE  Faithful'
  <2>1. Len(posts) \in Nat
    BY DEF Faithful, ChatTyped
  <2>2. \A event \in 0..Len(posts) : \A kind \in {"text", "other"} :
           /\ Receiving!MadeUp(event, kind) \in Subjects /\ Receiving!MadeUp(event, kind).post = 0
           /\ Receiving!MadeUp(event, kind).event = event
           /\ Receiving!MadeUp(event, kind).what.by = "person"
    BY <2>1 DEF Receiving!MadeUp, Receiving!Post, Subjects, Posts
  <2>3. 0 \in 0..Len(posts) /\ Receiving!Nothing \in Subjects
    BY <2>1, <2>2 DEF Receiving!Nothing
  <2>4. CASE Receiving!Challenge(c)
    <3>1. Sound([kind |-> "challenge", about |-> Receiving!Nothing, signed |-> TRUE])
      BY DEF Sound
    <3> QED
      BY <2>3, <2>4, <3>1, OpensFaithful DEF Receiving!Challenge
  <2>5. CASE Receiving!Stray(c)
    <3>1. ASSUME NEW kind \in {"method", "garbage"},
                 Receiving!Opens(c, Receiving!Asks(kind, Receiving!Nothing, FALSE))
          PROVE  Faithful'
      <4>1. Sound([kind |-> kind, about |-> Receiving!Nothing, signed |-> FALSE])
        BY DEF Sound
      <4> QED
        BY <2>3, <3>1, <4>1, OpensFaithful
    <3>2. ASSUME NEW p \in 1..Len(posts),
                 Receiving!Opens(c, Receiving!Asks("event", Receiving!Of(p), FALSE))
          PROVE  Faithful'
      <4>1. /\ Receiving!Of(p) \in Subjects
            /\ Sound([kind |-> "event", about |-> Receiving!Of(p), signed |-> FALSE])
        BY PostSubject DEF Faithful
      <4> QED
        BY <3>2, <4>1, OpensFaithful
    <3>3. ASSUME NEW kind \in {"text", "other"}, NEW event \in 0..Len(posts),
                 Receiving!Opens(c, Receiving!Asks("event", Receiving!MadeUp(event, kind), FALSE))
          PROVE  Faithful'
      <4> DEFINE about == Receiving!MadeUp(event, kind)
      <4>1. /\ about \in Subjects /\ about.post = 0 /\ about.event = event
            /\ about.what.by = "person"
        BY <2>2
      <4> HIDE DEF about
      <4>2. Sound([kind |-> "event", about |-> about, signed |-> FALSE])
        BY <4>1 DEF Sound
      <4>3. Receiving!Opens(c, Receiving!Asks("event", about, FALSE))
        BY <3>3 DEF about
      <4> QED
        BY <4>1, <4>2, <4>3, OpensFaithful
    <3> QED
      BY <2>3, <2>5, <3>1, <3>2, <3>3 DEF Receiving!Stray
  <2>6. ASSUME NEW p, Receiving!Deliver(c, p)
        PROVE  Faithful'
    <3>1. /\ p \in 1..Len(posts) /\ Receiving!Opens(c, Receiving!Asks("event", Receiving!Of(p), TRUE))
      BY <2>6 DEF Receiving!Deliver
    <3>2. /\ Receiving!Of(p) \in Subjects
          /\ Sound([kind |-> "event", about |-> Receiving!Of(p), signed |-> TRUE])
      BY <3>1, PostSubject DEF Faithful
    <3> QED
      BY <3>1, <3>2, OpensFaithful
  <2> QED
    BY <1>7, <2>4, <2>5, <2>6
<1>8. ASSUME NEW c \in Receiving!Connection, Receiving!Break(c)
      PROVE  Faithful'
  <2>1. /\ conn' = [conn EXCEPT ![c] = Receiving!Free]
        /\ UNCHANGED <<channel, secret, clock, posts, seen, heard, forged, acked, life>>
    BY <1>8 DEF Receiving!Break, Receiving!Close
  <2> QED
    BY <2>1, FreeConnects, ConnFaithful
<1>9. CASE Receiving!Next
  BY <1>4, <1>5, <1>6, <1>7, <1>8, <1>9, RestartFaithful, PullFaithful, HandleConnFaithful,
     RespondFaithful
  DEF Receiving!Next
<1> QED
  BY <1>1, <1>3, <1>9

\* For any number of posts, requests, connections and restarts: what the service saw a 200
\* for and a person wrote was handed on, and what was handed on a person wrote, once in a
\* life of the process except on WhatsApp; but without a secret Slack's and WhatsApp's
\* adapter also hand on what is made up, and Slack's does not hand on what bears an id
\* that something made up bore before.
THEOREM MessagesGetThrough == Spec => []MessagesAreHeard
<1>1. Init => Faithful
  BY FaithfulInit DEF Init
<1>2. ASSUME Faithful
      PROVE  MessagesAreHeard
  <2>1. ASSUME NEW p \in acked, posts[p] = ByPerson
        PROVE  p \in forged \/ \E in \in 0..life : Receiving!HeardOf(p, in) # {}
    <3>1. CASE p \in forged
      BY <3>1
    <3>2. ASSUME NEW k \in 1..Len(heard), heard[k].post = p
          PROVE  \E in \in 0..life : Receiving!HeardOf(p, in) # {}
      <4>1. heard[k].life \in 0..life /\ k \in Receiving!HeardOf(p, heard[k].life)
        BY <1>2, <3>2 DEF Faithful, Theirs, Receiving!HeardOf
      <4> QED
        BY <4>1
    <3> QED
      BY <1>2, <2>1, <3>1, <3>2 DEF Faithful, AllTold, Told
  <2>2. \A k \in 1..Len(heard) :
           IF heard[k].post = 0 THEN ~secret /\ channel \in {"slack", "whatsapp"}
           ELSE posts[heard[k].post] = ByPerson
    BY <1>2 DEF Faithful, Theirs, Accepts
  <2>3. ASSUME channel # "whatsapp", NEW p \in 1..Len(posts), NEW in,
               NEW j \in Receiving!HeardOf(p, in), NEW k \in Receiving!HeardOf(p, in)
        PROVE  j = k
    <3>1. /\ j \in 1..Len(heard) /\ k \in 1..Len(heard) /\ heard[j].post # 0
          /\ heard[j].post = heard[k].post /\ heard[j].life = heard[k].life
      BY DEF Receiving!HeardOf
    <3>2. heard[j] \in Hearings /\ heard[k] \in Hearings
      BY <1>2, <3>1 DEF Faithful, ChatTyped
    <3>3. heard[j] = heard[k]
      BY <3>1, <3>2 DEF Hearings
    <3> QED
      BY <1>2, <2>3, <3>1, <3>3 DEF Faithful, HeardOnce
  <2> QED
    BY <1>2, <2>1, <2>2, <2>3 DEF MessagesAreHeard, Receiving!MessagesAreHeard, ByPerson,
       Faithful, Forged
<1> QED
  BY <1>1, <1>2, FaithfulStep, PTL DEF Spec

-----------------------------------------------------------------------------
(* MCP.  A client's ids never come again, so that whatever bears the id a caller   *)
(* waits for is the caller's: what was given up, or nobody asked for, is not.      *)

Party == Caller \union {Mcp!Manager}
Orders == [id : Nat, by : Party]
Replies == [id : Nat, to : Party \union {Mcp!Nobody}, ok : BOOLEAN]
Methods == {"", "initialize", "tools/list", "tools/call"}
Wishes == [pc : {"off", "wanting", "reading", "done", "failed"}, server : Server \union {0},
           method : Methods, id : Nat, got : Party \union {Mcp!Nobody}]

PipesTyped ==
    /\ lastId \in [Server -> Nat]
    /\ asked \in [Server -> SUBSET Orders] /\ pipe \in [Server -> Seq(Replies)]
    /\ wants \in [Party -> Wishes]
    /\ \A c \in Party : wants[c].pc \in {"wanting", "reading"} => wants[c].server \in Server

\* No id is used that the client has not given out.
IdsGiven == \A s \in Server : /\ \A query \in asked[s] : query.id \in 1..lastId[s]
                              /\ \A k \in 1..Len(pipe[s]) : pipe[s][k].id \in 0..lastId[s]

\* Who waits for an id asked under it, and so did whoever a reply with it is to.
IdIsOwn(c, s, i) == /\ i \in 1..lastId[s]
                    /\ \A query \in asked[s] : query.id = i => query.by = c
                    /\ \A k \in 1..Len(pipe[s]) : pipe[s][k].id = i => pipe[s][k].to = c

WaitsForOwn == \A c \in Party :
                  wants[c].pc = "reading" => IdIsOwn(c, wants[c].server, wants[c].id)

GotOwn == \A c \in Party : wants[c].pc = "done" => wants[c].got = c

Matched == PipesTyped /\ IdsGiven /\ WaitsForOwn /\ GotOwn

\* A name is registered once start() is over, for the first server that has it.
Registered ==
    /\ connected \subseteq Server
    /\ registered # {} => starting \notin Server
    /\ \A entry \in registered :
          /\ entry.name \notin Builtin /\ entry.server \in connected
          /\ \A s \in connected : s < entry.server => ~Mcp!Contains(Offers[s], entry.name)

LEMMA RestTyped == Mcp!AtRest \in Wishes /\ Mcp!AtRest.pc = "off"
<1>1. 0 \in Server \union {0} /\ Mcp!Nobody \in Party \union {Mcp!Nobody}
  OBVIOUS
<1> QED
  BY <1>1 DEF Mcp!AtRest, Wishes, Methods

LEMMA MatchedInit == Mcp!Init => Matched /\ Registered
<1> SUFFICES ASSUME Mcp!Init PROVE Matched /\ Registered
  OBVIOUS
<1>1. /\ lastId = [s \in Server |-> 0] /\ asked = [s \in Server |-> {}]
      /\ pipe = [s \in Server |-> <<>>] /\ wants = [c \in Party |-> Mcp!AtRest]
      /\ connected = {} /\ registered = {}
  BY DEF Mcp!Init, Party
<1>2. \A c \in Party : wants[c].pc = "off"
  BY <1>1, RestTyped
<1>3. \A s \in Server : asked[s] = {} /\ pipe[s] = <<>>
  BY <1>1
<1>4. PipesTyped
  BY <1>1, <1>2, RestTyped DEF PipesTyped
<1>5. IdsGiven
  BY <1>3 DEF IdsGiven
<1> QED
  BY <1>1, <1>2, <1>4, <1>5 DEF Matched, WaitsForOwn, GotOwn, Registered

\* A caller wants something, or gives up: nothing is sent or read.
LEMMA WishSet ==
  ASSUME Matched, NEW c \in Party, NEW x \in Wishes, x.pc \notin {"reading", "done"},
         x.pc = "wanting" => x.server \in Server, wants' = [wants EXCEPT ![c] = x],
         UNCHANGED <<asked, pipe, lastId>>
  PROVE  Matched'
<1>1. /\ wants' \in [Party -> Wishes] /\ wants'[c] = x
      /\ \A d \in Party \ {c} : wants'[d] = wants[d]
  BY DEF Matched, PipesTyped
<1>2. PipesTyped'
  BY <1>1 DEF Matched, PipesTyped
<1>3. IdsGiven'
  BY DEF Matched, IdsGiven
<1>4. WaitsForOwn' /\ GotOwn'
  BY <1>1 DEF Matched, WaitsForOwn, GotOwn, IdIsOwn
<1> QED
  BY <1>2, <1>3, <1>4 DEF Matched

LEMMA RequestMatched ==
  ASSUME Matched, NEW c \in Party, NEW s \in Server, NEW method \in Methods,
         Mcp!Request(c, s, method), UNCHANGED <<asked, pipe, lastId>>
  PROVE  Matched'
<1> DEFINE x == [Mcp!AtRest EXCEPT !.pc = "wanting", !.server = s, !.method = method]
<1>1. x \in Wishes /\ x.pc = "wanting" /\ x.server = s
  BY DEF Mcp!AtRest, Wishes, Methods, Mcp!Nobody
<1>2. wants' = [wants EXCEPT ![c] = x]
  BY DEF Mcp!Request
<1> HIDE DEF x
<1> QED
  BY <1>1, <1>2, WishSet

\* What is asked and said of a server changes.
LEMMA SaidMatched ==
  ASSUME Matched, NEW s \in Server, NEW reply \in Replies, NEW left \in SUBSET asked[s],
         \/ \E query \in asked[s] : reply.id = query.id /\ reply.to = query.by
         \/ reply.id = 0,
         asked' = [asked EXCEPT ![s] = left], pipe' = [pipe EXCEPT ![s] = Append(@, reply)],
         UNCHANGED <<lastId, wants>>
  PROVE  Matched'
<1>1. lastId[s] \in Nat /\ asked[s] \subseteq Orders /\ pipe[s] \in Seq(Replies)
  BY DEF Matched, PipesTyped
<1>2. /\ asked' \in [Server -> SUBSET Orders] /\ asked'[s] = left
      /\ \A u \in Server \ {s} : asked'[u] = asked[u]
  BY <1>1 DEF Matched, PipesTyped
<1>3. /\ pipe' \in [Server -> Seq(Replies)] /\ pipe'[s] = Append(pipe[s], reply)
      /\ \A u \in Server \ {s} : pipe'[u] = pipe[u]
  BY <1>1 DEF Matched, PipesTyped
<1>4. \A k \in 1..Len(pipe'[s]) : \/ k \in 1..Len(pipe[s]) /\ pipe'[s][k] = pipe[s][k]
                                  \/ pipe'[s][k] = reply
  BY <1>1, <1>3
<1>5. PipesTyped'
  BY <1>2, <1>3 DEF Matched, PipesTyped
<1>6. reply.id \in 0..lastId[s]
  BY <1>1 DEF Matched, IdsGiven
<1>7. IdsGiven'
  <2> SUFFICES ASSUME NEW u \in Server
               PROVE  /\ \A query \in asked'[u] : query.id \in 1..lastId[u]
                      /\ \A k \in 1..Len(pipe'[u]) : pipe'[u][k].id \in 0..lastId[u]
    BY DEF IdsGiven
  <2>1. CASE u = s
    BY <1>2, <1>4, <1>6, <2>1 DEF Matched, IdsGiven
  <2>2. CASE u # s
    BY <1>2, <1>3, <2>2 DEF Matched, IdsGiven
  <2> QED
    BY <2>1, <2>2
<1>8. WaitsForOwn'
  <2> SUFFICES ASSUME NEW c \in Party, wants[c].pc = "reading"
               PROVE  IdIsOwn(c, wants[c].server, wants[c].id)'
    BY DEF WaitsForOwn
  <2>1. IdIsOwn(c, wants[c].server, wants[c].id) /\ wants[c].server \in Server
    BY DEF Matched, WaitsForOwn, PipesTyped
  <2>2. CASE wants[c].server = s
    <3>1. reply.id = wants[c].id => reply.to = c
      BY <1>1, <2>1, <2>2 DEF IdIsOwn
    <3> QED
      BY <1>2, <1>4, <2>1, <2>2, <3>1 DEF IdIsOwn
  <2>3. CASE wants[c].server # s
    BY <1>2, <1>3, <2>1, <2>3 DEF IdIsOwn
  <2> QED
    BY <2>2, <2>3
<1>9. GotOwn'
  BY DEF Matched, GotOwn
<1> QED
  BY <1>5, <1>7, <1>8, <1>9 DEF Matched

\* A caller's record is changed by one of its own steps.
LEMMA WishGoes ==
  ASSUME PipesTyped, NEW c \in Party, NEW x \in Wishes, wants' = [wants EXCEPT ![c] = x]
  PROVE  /\ wants' \in [Party -> Wishes] /\ wants'[c] = x
         /\ \A d \in Party \ {c} : wants'[d] = wants[d]
  BY DEF PipesTyped

\* The request is sent under an id nobody has.
LEMMA AcquireMatched ==
  ASSUME Matched, NEW c \in Party, Mcp!Acquire(c)
  PROVE  Matched'
<1> DEFINE s == wants[c].server
           i == lastId[s] + 1
           x == [wants[c] EXCEPT !.pc = "reading", !.id = i]
<1>1. s \in Server /\ wants[c].pc = "wanting" /\ wants[c] \in Wishes
  BY DEF Mcp!Acquire, Matched, PipesTyped
<1>2. /\ lastId[s] \in Nat /\ i \in Nat /\ asked[s] \in SUBSET Orders /\ pipe[s] \in Seq(Replies)
      /\ \A query \in asked[s] : query.id \in 1..lastId[s]
      /\ \A k \in 1..Len(pipe[s]) : pipe[s][k].id \in 0..lastId[s]
  BY <1>1 DEF Matched, PipesTyped, IdsGiven
<1>3. /\ lastId' = [lastId EXCEPT ![s] = i] /\ wants' = [wants EXCEPT ![c] = x]
      /\ asked' = asked \/ asked' = [asked EXCEPT ![s] = @ \union {[id |-> i, by |-> c]}]
      /\ UNCHANGED pipe
  BY DEF Mcp!Acquire, Mcp!Send
<1>4. x \in Wishes /\ x.pc = "reading" /\ x.server = s /\ x.id = i
  BY <1>1, <1>2 DEF Wishes
<1>5. [id |-> i, by |-> c] \in Orders
  BY <1>2 DEF Orders
<1> HIDE DEF x
<1>6. /\ wants' \in [Party -> Wishes] /\ wants'[c] = x
      /\ \A d \in Party \ {c} : wants'[d] = wants[d]
  BY <1>3, <1>4, WishGoes DEF Matched
<1>7. /\ lastId' \in [Server -> Nat] /\ lastId'[s] = i
      /\ \A u \in Server \ {s} : lastId'[u] = lastId[u]
  BY <1>1, <1>2, <1>3 DEF Matched, PipesTyped
<1>8. /\ asked' \in [Server -> SUBSET Orders]
      /\ \A query \in asked'[s] : query \in asked[s] \/ query = [id |-> i, by |-> c]
      /\ \A u \in Server \ {s} : asked'[u] = asked[u]
  <2>1. CASE asked' = asked
    BY <1>2, <2>1 DEF Matched, PipesTyped
  <2>2. CASE asked' = [asked EXCEPT ![s] = @ \union {[id |-> i, by |-> c]}]
    <3> DEFINE more == asked[s] \union {[id |-> i, by |-> c]}
    <3>1. more \in SUBSET Orders /\ asked' = [asked EXCEPT ![s] = more]
      BY <1>2, <1>5, <2>2
    <3>2. \A query \in more : query \in asked[s] \/ query = [id |-> i, by |-> c]
      OBVIOUS
    <3> HIDE DEF more
    <3> QED
      BY <1>1, <3>1, <3>2 DEF Matched, PipesTyped
  <2> QED
    BY <1>3, <2>1, <2>2
<1>9. PipesTyped'
  BY <1>1, <1>3, <1>4, <1>6, <1>7, <1>8 DEF Matched, PipesTyped
<1>10. IdsGiven'
  <2> SUFFICES ASSUME NEW u \in Server
               PROVE  /\ \A query \in asked'[u] : query.id \in 1..lastId'[u]
                      /\ \A k \in 1..Len(pipe[u]) : pipe[u][k].id \in 0..lastId'[u]
    BY <1>3 DEF IdsGiven
  <2>1. CASE u = s
    <3>1. \A query \in asked'[s] : query.id \in 1..i
      BY <1>2, <1>8
    <3>2. \A k \in 1..Len(pipe[s]) : pipe[s][k].id \in 0..i
      BY <1>2
    <3> QED
      BY <1>7, <2>1, <3>1, <3>2
  <2>2. CASE u # s
    BY <1>7, <1>8, <2>2 DEF Matched, IdsGiven
  <2> QED
    BY <2>1, <2>2
<1>11. ASSUME NEW d \in Party, wants'[d].pc = "reading"
       PROVE  IdIsOwn(d, wants[d].server, wants[d].id)'
  <2>1. CASE d = c
    <3>1. \A query \in asked'[s] : query.id = i => query.by = c
      BY <1>2, <1>8
    <3>2. \A k \in 1..Len(pipe[s]) : pipe[s][k].id # i
      BY <1>2
    <3>3. i \in 1..lastId'[s]
      BY <1>2, <1>7
    <3> QED
      BY <1>3, <1>4, <1>6, <2>1, <3>1, <3>2, <3>3 DEF IdIsOwn
  <2>2. CASE d # c
    <3>1. /\ wants'[d] = wants[d] /\ wants[d].server \in Server
          /\ IdIsOwn(d, wants[d].server, wants[d].id)
      BY <1>6, <1>11, <2>2 DEF Matched, PipesTyped, WaitsForOwn
    <3>2. CASE wants[d].server = s
      <4>1. wants[d].id # i /\ wants[d].id \in 1..i
        BY <1>2, <3>1, <3>2 DEF IdIsOwn
      <4>2. \A query \in asked'[s] : query.id = wants[d].id => query.by = d
        BY <1>8, <3>1, <3>2, <4>1 DEF IdIsOwn
      <4> QED
        BY <1>3, <1>7, <3>1, <3>2, <4>1, <4>2 DEF IdIsOwn
    <3>3. CASE wants[d].server # s
      BY <1>3, <1>7, <1>8, <3>1, <3>3 DEF IdIsOwn
    <3> QED
      BY <3>2, <3>3
  <2> QED
    BY <2>1, <2>2
<1>12. GotOwn'
  BY <1>4, <1>6 DEF Matched, GotOwn
<1> QED
  BY <1>9, <1>10, <1>11, <1>12 DEF Matched, WaitsForOwn

\* A reply with the id is the caller's; others are passed over.
LEMMA ReadMatched ==
  ASSUME Matched, NEW c \in Party, Mcp!Read(c)
  PROVE  Matched'
<1> DEFINE s == wants[c].server
           m == Head(pipe[s])
<1>1. /\ wants[c].pc = "reading" /\ pipe[s] # <<>> /\ pipe' = [pipe EXCEPT ![s] = Tail(@)]
      /\ \/ m.id = wants[c].id /\ Mcp!Gets(c, m)
         \/ UNCHANGED wants
      /\ UNCHANGED <<asked, lastId>>
  BY DEF Mcp!Read
<1>2. s \in Server /\ wants[c] \in Wishes /\ pipe[s] \in Seq(Replies)
  BY <1>1 DEF Matched, PipesTyped
<1>3. m \in Replies /\ 1 \in 1..Len(pipe[s]) /\ m = pipe[s][1]
  BY <1>1, <1>2
<1>4. Tail(pipe[s]) \in Seq(Replies)
  BY <1>1, <1>2
<1>5. \A k \in 1..Len(Tail(pipe[s])) : k + 1 \in 1..Len(pipe[s]) /\ Tail(pipe[s])[k] = pipe[s][k + 1]
  BY <1>1, <1>2
<1>6. /\ pipe' \in [Server -> Seq(Replies)] /\ pipe'[s] = Tail(pipe[s])
      /\ \A u \in Server \ {s} : pipe'[u] = pipe[u]
  BY <1>1, <1>2, <1>4 DEF Matched, PipesTyped
<1>7. \A u \in Server : \A k \in 1..Len(pipe'[u]) :
         \E j \in 1..Len(pipe[u]) : pipe'[u][k] = pipe[u][j]
  <2> SUFFICES ASSUME NEW u \in Server, NEW k \in 1..Len(pipe'[u])
               PROVE  \E j \in 1..Len(pipe[u]) : pipe'[u][k] = pipe[u][j]
    OBVIOUS
  <2>1. CASE u = s
    <3>1. k \in 1..Len(Tail(pipe[s])) /\ pipe'[u][k] = Tail(pipe[s])[k]
      BY <1>6, <2>1
    <3> QED
      BY <1>5, <2>1, <3>1
  <2>2. CASE u # s
    BY <1>6, <2>2
  <2> QED
    BY <2>1, <2>2
<1>8. \A d \in Party, u \in Server, i \in Nat : IdIsOwn(d, u, i) => IdIsOwn(d, u, i)'
  BY <1>1, <1>7 DEF IdIsOwn
<1>9. IdsGiven'
  BY <1>1, <1>7 DEF Matched, IdsGiven
<1>10. CASE UNCHANGED wants
  <2>1. PipesTyped'
    BY <1>1, <1>6, <1>10 DEF Matched, PipesTyped
  <2>2. WaitsForOwn' /\ GotOwn'
    BY <1>8, <1>10 DEF Matched, WaitsForOwn, GotOwn, PipesTyped, Wishes
  <2> QED
    BY <1>9, <2>1, <2>2 DEF Matched
<1>11. CASE m.id = wants[c].id /\ Mcp!Gets(c, m)
  <2>1. m.to = c
    BY <1>1, <1>3, <1>11 DEF Matched, WaitsForOwn, IdIsOwn
  <2>2. PICK pc \in {"done", "failed"} :
           wants' = [wants EXCEPT ![c] = [wants[c] EXCEPT !.pc = pc, !.got = c]]
    BY <1>11, <2>1 DEF Mcp!Gets
  <2> DEFINE x == [wants[c] EXCEPT !.pc = pc, !.got = c]
  <2>3. x \in Wishes /\ x.pc = pc /\ x.got = c
    BY <1>2 DEF Wishes
  <2> HIDE DEF x
  <2>4. /\ wants' \in [Party -> Wishes] /\ wants'[c] = x
        /\ \A d \in Party \ {c} : wants'[d] = wants[d]
    BY <2>2, <2>3, WishGoes DEF x, Matched
  <2>5. PipesTyped'
    BY <1>1, <1>6, <2>3, <2>4 DEF Matched, PipesTyped
  <2>6. GotOwn'
    BY <2>3, <2>4 DEF Matched, GotOwn
  <2>7. ASSUME NEW d \in Party, wants'[d].pc = "reading"
        PROVE  IdIsOwn(d, wants[d].server, wants[d].id)'
    <3>1. wants'[d] = wants[d]
      BY <2>3, <2>4, <2>7
    <3>2. PICK u \in Server, j \in Nat :
             u = wants[d].server /\ j = wants[d].id /\ IdIsOwn(d, u, j)
      BY <2>7, <3>1 DEF Matched, WaitsForOwn, PipesTyped, Wishes
    <3>3. IdIsOwn(d, u, j)'
      BY <1>8, <3>2
    <3> QED
      BY <3>1, <3>2, <3>3 DEF IdIsOwn
  <2> QED
    BY <1>9, <2>5, <2>6, <2>7 DEF Matched, WaitsForOwn
<1> QED
  BY <1>1, <1>10, <1>11

\* The manager, or a caller whose server has exited, is left with nothing to wait for.
LEMMA ClosedMatched ==
  ASSUME Matched, NEW c \in Party, Mcp!Closed(c)
  PROVE  Matched'
<1> DEFINE x == [wants[c] EXCEPT !.pc = "failed"]
<1>1. wants' = [wants EXCEPT ![c] = x] /\ UNCHANGED <<asked, pipe, lastId>>
  BY DEF Mcp!Closed
<1>2. x \in Wishes /\ x.pc = "failed"
  BY DEF Matched, PipesTyped, Wishes
<1> HIDE DEF x
<1> QED
  BY <1>1, <1>2, WishSet

LEMMA ManagerIs == Mcp!Manager \in Party
  BY DEF Party

LEMMA ManageMatched ==
  ASSUME Matched, NEW s \in Server,
         \/ Mcp!SkipDisabled(s) \/ Mcp!Spawn(s) \/ Mcp!ListTools(s) \/ Mcp!Connect(s)
         \/ Mcp!TimeOut(s) \/ Mcp!Broken(s)
  PROVE  Matched'
<1>1. UNCHANGED <<asked, pipe, lastId>>
  BY DEF Mcp!SkipDisabled, Mcp!Spawn, Mcp!ListTools, Mcp!Connect, Mcp!TimeOut, Mcp!Broken,
     Mcp!GiveUp, Mcp!pipes
<1>2. \/ UNCHANGED wants
      \/ wants' = [wants EXCEPT ![Mcp!Manager] = Mcp!AtRest]
      \/ \E method \in Methods : Mcp!Request(Mcp!Manager, s, method)
  BY DEF Mcp!SkipDisabled, Mcp!Spawn, Mcp!ListTools, Mcp!Connect, Mcp!TimeOut, Mcp!Broken,
     Mcp!GiveUp, Methods
<1>3. CASE UNCHANGED wants
  BY <1>1, <1>3 DEF Matched, PipesTyped, IdsGiven, WaitsForOwn, GotOwn, IdIsOwn
<1>4. CASE wants' = [wants EXCEPT ![Mcp!Manager] = Mcp!AtRest]
  BY <1>1, <1>4, ManagerIs, RestTyped, WishSet
<1>5. CASE \E method \in Methods : Mcp!Request(Mcp!Manager, s, method)
  BY <1>1, <1>5, ManagerIs, RequestMatched
<1> QED
  BY <1>2, <1>3, <1>4, <1>5

LEMMA AnswersMatched ==
  ASSUME Matched, NEW s \in Server, Mcp!ServerAnswers(s)
  PROVE  Matched'
<1>1. PICK query \in asked[s], ok \in BOOLEAN :
         /\ asked' = [asked EXCEPT ![s] = @ \ {query}]
         /\ pipe' = [pipe EXCEPT ![s] =
                        Append(@, [id |-> query.id, to |-> query.by, ok |-> ok])]
  BY DEF Mcp!ServerAnswers
<1>2. query \in Orders
  BY <1>1 DEF Matched, PipesTyped
<1> DEFINE reply == [id |-> query.id, to |-> query.by, ok |-> ok]
<1>3. reply \in Replies /\ reply.id = query.id /\ reply.to = query.by
  BY <1>2 DEF Orders, Replies
<1>4. pipe' = [pipe EXCEPT ![s] = Append(@, reply)]
  BY <1>1
<1> HIDE DEF reply
<1>5. asked[s] \ {query} \in SUBSET asked[s] /\ UNCHANGED <<lastId, wants>>
  BY DEF Mcp!ServerAnswers, Mcp!serverVars
<1>6. asked' = [asked EXCEPT ![s] = asked[s] \ {query}]
  BY <1>1
<1> QED
  BY <1>3, <1>4, <1>5, <1>6, SaidMatched

LEMMA NoticeMatched ==
  ASSUME Matched, NEW s \in Server, Mcp!Notice(s)
  PROVE  Matched'
<1> DEFINE reply == [id |-> 0, to |-> Mcp!Nobody, ok |-> TRUE]
<1>1. reply \in Replies /\ reply.id = 0
  BY DEF Replies
<1>2. pipe' = [pipe EXCEPT ![s] = Append(@, reply)] /\ UNCHANGED <<asked, lastId, wants>>
  BY DEF Mcp!Notice, Mcp!serverVars
<1> HIDE DEF reply
<1>3. asked' = [asked EXCEPT ![s] = asked[s]] /\ asked[s] \in SUBSET asked[s]
  BY <1>2 DEF Matched, PipesTyped
<1> QED
  BY <1>1, <1>2, <1>3, SaidMatched

LEMMA CallMatched ==
  ASSUME Matched, Registered, NEW c \in Caller, NEW name, Mcp!Call(c, name)
  PROVE  Matched'
<1>1. PICK entry \in registered : Mcp!Request(c, entry.server, "tools/call")
  BY DEF Mcp!Call
<1>2. entry.server \in Server /\ c \in Party /\ "tools/call" \in Methods
  BY DEF Registered, Party, Methods
<1>3. UNCHANGED <<asked, pipe, lastId>>
  BY DEF Mcp!Call, Mcp!pipes
<1> QED
  BY <1>1, <1>2, <1>3, RequestMatched

\* The tools are registered once, when no more servers are connected.
LEMMA RegisteredStep ==
  ASSUME Registered, Mcp!Next
  PROVE  Registered'
<1>1. CASE UNCHANGED <<starting, connected, registered>>
  BY <1>1 DEF Registered
<1>2. CASE Mcp!RegisterInto
  <2>1. /\ starting \notin Server /\ UNCHANGED <<starting, connected>>
        /\ registered' = {entry \in Mcp!Tools :
              /\ entry.name \notin Builtin
              /\ \A other \in Mcp!Tools : other.server < entry.server => other.name # entry.name}
    BY <1>2 DEF Mcp!RegisterInto, Mcp!Started
  <2>2. \A entry \in Mcp!Tools : entry.server \in connected
    BY DEF Mcp!Tools
  <2>3. ASSUME NEW entry \in registered', NEW s \in connected, s < entry.server,
               Mcp!Contains(Offers[s], entry.name)
        PROVE  FALSE
    <3>1. PICK k \in 1..Len(Offers[s]) : Offers[s][k] = entry.name
      BY <2>3 DEF Mcp!Contains
    <3>2. [name |-> Offers[s][k], server |-> s] \in Mcp!Tools
      BY DEF Mcp!Tools
    <3> QED
      BY <2>1, <2>3, <3>1, <3>2
  <2> QED
    BY <2>1, <2>2, <2>3 DEF Registered
<1>3. CASE Mcp!CloseAll
  BY <1>3 DEF Mcp!CloseAll, Registered
<1>4. CASE Mcp!Manage
  <2>1. PICK s \in Server : starting = s \/ UNCHANGED <<starting, connected>>
    BY <1>4 DEF Mcp!Manage, Mcp!SkipDisabled, Mcp!Spawn, Mcp!ListTools, Mcp!Connect,
       Mcp!TimeOut, Mcp!Broken, Mcp!Starts
  <2>2. UNCHANGED registered /\ connected' \subseteq Server
    BY <1>4 DEF Mcp!Manage, Mcp!SkipDisabled, Mcp!Spawn, Mcp!ListTools, Mcp!Connect,
       Mcp!TimeOut, Mcp!Broken, Mcp!GiveUp, Registered
  <2> QED
    BY <2>1, <2>2 DEF Registered
<1>5. ASSUME NEW s \in Server, Mcp!ServerAnswers(s) \/ Mcp!Notice(s) \/ Mcp!Misbehave(s)
      PROVE  UNCHANGED <<starting, connected, registered>>
  BY <1>5 DEF Mcp!ServerAnswers, Mcp!Notice, Mcp!Misbehave, Mcp!serverVars
<1>6. ASSUME NEW c \in Party, Mcp!Advance(c)
      PROVE  UNCHANGED <<starting, connected, registered>>
  BY <1>6 DEF Mcp!Advance, Mcp!Acquire, Mcp!Send, Mcp!Read, Mcp!Closed, Mcp!requestRest
<1>7. ASSUME NEW c, NEW name, Mcp!Call(c, name)
      PROVE  UNCHANGED <<starting, connected, registered>>
  BY <1>7 DEF Mcp!Call
<1> QED
  BY <1>1, <1>2, <1>3, <1>4, <1>5, <1>6, <1>7 DEF Mcp!Next, Party

LEMMA MatchedStep == Matched /\ Registered /\ [Next]_vars => Matched' /\ Registered'
<1> SUFFICES ASSUME Matched, Registered, [Next]_vars PROVE Matched' /\ Registered'
  OBVIOUS
<1>1. Mcp!Next \/ UNCHANGED mcpVars
  BY DEF Next, vars
<1>2. ASSUME UNCHANGED <<asked, pipe, lastId, wants>>
      PROVE  Matched'
  BY <1>2 DEF Matched, PipesTyped, IdsGiven, WaitsForOwn, GotOwn, IdIsOwn
<1>3. CASE UNCHANGED mcpVars
  BY <1>2, <1>3 DEF mcpVars, Registered
<1>4. CASE Mcp!Next
  <2>1. ASSUME NEW s \in Server, Mcp!Misbehave(s)
        PROVE  Matched'
    BY <1>2, <2>1 DEF Mcp!Misbehave, Mcp!serverVars
  <2>2. ASSUME Mcp!RegisterInto \/ Mcp!CloseAll
        PROVE  Matched'
    <3>1. UNCHANGED asked /\ UNCHANGED pipe /\ UNCHANGED lastId /\ UNCHANGED wants
      BY <2>2 DEF Mcp!RegisterInto, Mcp!CloseAll, Mcp!pipes
    <3> QED
      BY <1>2, <3>1
  <2>3. ASSUME NEW c \in Party, Mcp!Advance(c)
        PROVE  Matched'
    BY <2>3, AcquireMatched, ReadMatched, ClosedMatched DEF Mcp!Advance
  <2>4. ASSUME Mcp!Manage
        PROVE  Matched'
    <3>1. PICK s \in Server :
             \/ Mcp!SkipDisabled(s) \/ Mcp!Spawn(s) \/ Mcp!ListTools(s)
             \/ Mcp!Connect(s) \/ Mcp!TimeOut(s) \/ Mcp!Broken(s)
      BY <2>4 DEF Mcp!Manage
    <3> QED
      BY <3>1, ManageMatched
  <2>5. Matched'
    BY <1>4, <2>1, <2>2, <2>3, <2>4, AnswersMatched, NoticeMatched, CallMatched
    DEF Mcp!Next, Party
  <2> QED
    BY <1>4, <2>5, RegisteredStep
<1> QED
  BY <1>1, <1>3, <1>4

\* What a request returns is the reply to it, whatever else the server says and whichever
\* requests were given up; a name stands for the tool of the first connected server that
\* has it, and never for one of the agent's own: for any number of servers and callers.
THEOREM RepliesAreOwn == Spec => []RepliesMatch
<1>1. Init => Matched /\ Registered
  BY MatchedInit DEF Init
<1>2. Matched /\ Registered => RepliesMatch
  BY DEF Matched, GotOwn, Registered, RepliesMatch, Mcp!RepliesMatch, Party
<1> QED
  BY <1>1, <1>2, MatchedStep, PTL DEF Spec
-----------------------------------------------------------------------------
(* Research.  The sources of a report are the first results there are, each once, in   *)
(* their order, and what is read of each is kept under its number.                     *)

\* The sources are the first of the results looked at.
Merged ==
    /\ \A n \in 1..Len(sources) : Researching!Source(n)
    /\ \A i \in 1..looked : Researching!Told(i, Len(sources))

\* They are cut to their number, and a page is read of each in turn.
Numbered ==
    /\ Len(sources) <= Sources
    /\ \A n \in 1..Len(sources) : Researching!Source(n)
    /\ Len(sources) < Sources => \A i \in 1..Len(found) : Researching!Told(i, Len(sources))
    /\ Len(blocks) <= Len(sources)
    /\ \A n \in 1..Len(blocks) : blocks[n].url = sources[n]

Checked ==
    /\ \A n \in 1..Len(requested) : Researching!CheckUrl(requested[n])
    /\ \A url \in at : Researching!CheckUrl(url)
    /\ tool = "web_fetch" => Len(requested) <= Hops

Sourced ==
    /\ looked \in 0..Len(found)
    /\ tool # "deep_research" => looked = 0
    /\ stage \in {"plan", "write", "read"} => tool = "deep_research"
    /\ tool = "deep_research" =>
          /\ stage = "plan" => found = <<>> /\ sources = <<>>
          /\ stage \in {"plan", "search"} => Merged /\ blocks = <<>>
          /\ stage \in {"read", "write"} => Numbered
    /\ stage = "write" => Len(blocks) = Len(sources)
    /\ Checked

LEMMA SourcedFirst == Init => Sourced
BY ResearchAssumption DEF Init, Researching!Init, Sourced, Checked

LEMMA SourcedStep == Sourced /\ [Next]_vars => Sourced'
<1> SUFFICES ASSUME Sourced, [Next]_vars PROVE Sourced'
  OBVIOUS
<1>1. Researching!Next \/ UNCHANGED researchVars
  BY DEF Next, vars
<1>2. CASE UNCHANGED researchVars
  <2>1. UNCHANGED <<tool, stage, sources, blocks, at, requested, found, looked>>
    BY <1>2 DEF researchVars
  <2>2. \A i, n : Researching!Told(i, n)' <=> Researching!Told(i, n)
    BY <2>1 DEF Researching!Told
  <2>3. \A n : Researching!Source(n)' <=> Researching!Source(n)
    BY <2>1, <2>2 DEF Researching!Source
  <2>4. (Merged => Merged') /\ (Numbered => Numbered')
    BY <2>1, <2>2, <2>3 DEF Merged, Numbered
  <2> QED
    BY <2>1, <2>4 DEF Sourced, Checked, Researching!CheckUrl, Researching!IsHttp
<1>3. ASSUME NEW name, NEW first, name # "deep_research" \/ first = "plan",
             first \in {"plan", "search", "visit"}, first = "plan" => name = "deep_research",
             Researching!Call(name, first)
      PROVE  Sourced'
  BY <1>3, ResearchAssumption DEF Researching!Call, Sourced, Merged, Checked
<1>4. CASE Researching!Fail
  BY <1>4 DEF Researching!Fail, Sourced, Checked, Researching!CheckUrl, Researching!IsHttp
<1>5. CASE Researching!WebSearch
  BY <1>5 DEF Researching!WebSearch, Researching!Uses, Researching!Step, Sourced, Checked,
     Researching!CheckUrl, Researching!IsHttp
<1>6. CASE Researching!Plan
  BY <1>6 DEF Researching!Plan, Researching!Uses, Researching!Step, Sourced, Merged, Checked,
     Researching!CheckUrl, Researching!IsHttp
<1>7. CASE Researching!Search
  <2>1. PICK listing : found' = found \o Researching!SearchWeb(listing)
    BY <1>7 DEF Researching!Search
  <2>2. /\ looked = Len(found) /\ Len(found') >= Len(found)
        /\ \A i \in 1..Len(found) : found'[i] = found[i]
    BY <1>7, <2>1 DEF Researching!Search
  <2>3. UNCHANGED <<tool, stage, sources, blocks, at, requested, looked>> /\ tool = "deep_research"
    BY <1>7 DEF Researching!Search, Researching!Uses
  <2>4. ASSUME NEW i \in 1..Len(found), NEW n PROVE Researching!Told(i, n)' <=> Researching!Told(i, n)
    BY <2>2, <2>3 DEF Researching!Told
  <2>5. ASSUME NEW n, Researching!Source(n) PROVE Researching!Source(n)'
    BY <2>2, <2>3, <2>4, <2>5 DEF Researching!Source
  <2>6. Merged'
    BY <1>7, <2>2, <2>3, <2>4, <2>5 DEF Researching!Search, Merged, Sourced
  <2> QED
    BY <1>7, <2>2, <2>3, <2>6 DEF Researching!Search, Sourced, Checked, Researching!CheckUrl,
       Researching!IsHttp
<1>8. CASE Researching!Merge
  <2> DEFINE url == found[looked + 1]
  <2>1. /\ looked < Len(found) /\ looked' = looked + 1 /\ stage = "search" /\ tool = "deep_research"
        /\ UNCHANGED <<tool, stage, blocks, at, requested, found>>
    BY <1>8 DEF Researching!Merge, Researching!Looks, Researching!Uses
  <2>2. Merged
    BY <2>1 DEF Sourced
  <2>3. Merged'
    <3>1. CASE sources' = sources /\ Researching!Told(looked + 1, Len(sources))
      BY <2>1, <2>2, <3>1 DEF Merged, Researching!Told, Researching!Source, Sourced
    <3>2. CASE sources' = Append(sources, url) /\ ~Researching!Told(looked + 1, Len(sources))
      <4>1. /\ Len(sources') = Len(sources) + 1 /\ sources'[Len(sources')] = url
            /\ \A n \in 1..Len(sources) : sources'[n] = sources[n]
        BY <3>2
      <4>2. ASSUME NEW n \in 0..Len(sources), NEW i
            PROVE  Researching!Told(i, n)' <=> Researching!Told(i, n)
        BY <2>1, <4>1 DEF Researching!Told
      <4>3. ASSUME NEW n \in 1..Len(sources) PROVE Researching!Source(n)'
        BY <2>1, <2>2, <4>1, <4>2 DEF Merged, Researching!Source
      <4>4. ASSUME NEW n, n = Len(sources) + 1, NEW i, i = looked + 1
            PROVE  Researching!Source(n)'
        <5>1. i \in 1..Len(found') /\ \A j : j \in 1..(i - 1) <=> j \in 1..looked
          BY <2>1, <4>4 DEF Sourced
        <5>2. \A j : Researching!Told(j, n - 1)' <=> Researching!Told(j, n - 1)
          BY <4>2, <4>4
        <5>3. n - 1 = Len(sources) /\ n = Len(sources')
          BY <4>1, <4>4
        <5>4. found'[i] = sources'[n]
          BY <2>1, <4>1, <4>4, <5>3
        <5>5. ~Researching!Told(i, n - 1)'
          BY <3>2, <4>4, <5>2, <5>3
        <5>6. \A j \in 1..(i - 1) : Researching!Told(j, n - 1)'
          BY <2>2, <5>1, <5>2, <5>3 DEF Merged
        <5> QED
          BY <5>1, <5>4, <5>5, <5>6 DEF Researching!Source
      <4>5. ASSUME NEW i \in 1..looked' PROVE Researching!Told(i, Len(sources))'
        BY <2>1, <2>2, <4>1, <4>2 DEF Merged, Researching!Told, Sourced
      <4>6. \A n \in 1..Len(sources') : n \in 1..Len(sources) \/ n = Len(sources) + 1
        BY <4>1
      <4>7. \A n \in 1..Len(sources') : Researching!Source(n)'
        BY <4>3, <4>4, <4>6
      <4> QED
        BY <4>5, <4>7 DEF Merged
    <3> QED
      BY <1>8, <3>1, <3>2 DEF Researching!Merge, Researching!Looks, Researching!Told,
         Researching!Contains
  <2> QED
    BY <2>1, <2>3 DEF Sourced, Checked, Researching!CheckUrl, Researching!IsHttp
<1>9. CASE Researching!Cut
  <2>1. /\ tool = "deep_research" /\ looked = Len(found) /\ stage = "search"
        /\ sources' = Researching!First(sources, Sources)
        /\ UNCHANGED <<tool, blocks, at, requested, found, looked>>
        /\ stage' \in {"over", "read"}
    BY <1>9 DEF Researching!Cut, Researching!Uses, Researching!Step
  <2>2. Merged /\ blocks = <<>>
    BY <2>1 DEF Sourced
  <2>3. /\ Len(sources') <= Sources /\ Len(sources') <= Len(sources)
        /\ \A n \in 1..Len(sources') : sources'[n] = sources[n]
        /\ Len(sources') < Sources => Len(sources') = Len(sources)
    BY <2>1, ResearchAssumption DEF Researching!First
  <2>4. ASSUME NEW n \in 0..Len(sources'), NEW i
        PROVE  Researching!Told(i, n)' <=> Researching!Told(i, n)
    BY <2>1, <2>3 DEF Researching!Told
  <2>5. ASSUME NEW n \in 1..Len(sources') PROVE Researching!Source(n)'
    <3>1. \A i : Researching!Told(i, n - 1)' <=> Researching!Told(i, n - 1)
      BY <2>4
    <3>2. Researching!Source(n) /\ sources'[n] = sources[n]
      BY <2>2, <2>3 DEF Merged
    <3> QED
      BY <2>1, <3>1, <3>2 DEF Researching!Source
  <2>6. Numbered'
    BY <2>1, <2>2, <2>3, <2>4, <2>5 DEF Numbered, Merged
  <2> QED
    BY <2>1, <2>6 DEF Sourced, Checked, Researching!CheckUrl, Researching!IsHttp
<1>10. CASE Researching!Read
  <2>1. /\ tool = "deep_research" /\ stage = "read" /\ Len(blocks) < Len(sources)
        /\ UNCHANGED <<tool, stage, sources, at, found, looked>>
        /\ \E text : blocks' = Append(blocks, Researching!Block(sources[Len(blocks) + 1], text))
    BY <1>10 DEF Researching!Read, Researching!Uses
  <2>2. \/ UNCHANGED requested
        \/ \E url : Researching!CheckUrl(url) /\ requested' = Append(requested, url)
    BY <1>10 DEF Researching!Read
  <2>3. Numbered'
    BY <2>1 DEF Sourced, Numbered, Researching!Told, Researching!Source, Researching!Block
  <2>4. Checked'
    BY <2>1, <2>2 DEF Sourced, Checked, Researching!CheckUrl, Researching!IsHttp
  <2> QED
    BY <2>1, <2>3, <2>4 DEF Sourced
<1>11. CASE Researching!Synthesize \/ Researching!Report
  <2>1. /\ UNCHANGED <<tool, sources, blocks, at, requested, found, looked>>
        /\ tool = "deep_research"
        /\ \/ stage = "read" /\ stage' = "write" /\ Len(blocks) = Len(sources)
           \/ stage' = "over"
    BY <1>11 DEF Researching!Synthesize, Researching!Report, Researching!Uses, Researching!Step
  <2>2. \A i, n : Researching!Told(i, n)' <=> Researching!Told(i, n)
    BY <2>1 DEF Researching!Told
  <2>3. \A n : Researching!Source(n)' <=> Researching!Source(n)
    BY <2>1, <2>2 DEF Researching!Source
  <2>4. Numbered => Numbered'
    BY <2>1, <2>2, <2>3 DEF Numbered
  <2> QED
    BY <2>1, <2>4 DEF Sourced, Checked, Researching!CheckUrl, Researching!IsHttp
<1>12. ASSUME NEW url, stage = "visit", Researching!Visit(url) PROVE Sourced'
  BY <1>12 DEF Researching!Visit, Sourced, Checked, Researching!CheckUrl, Researching!IsHttp
<1>13. ASSUME tool = "web_fetch", stage = "get", Len(requested) < Hops,
              \E from \in at : requested' = Append(requested, from),
              UNCHANGED <<tool, queries, sources, blocks, found, looked>>,
              stage' \in {"over", "get"}, \A url \in at' : Researching!CheckUrl(url)
       PROVE  Sourced'
  BY <1>13, ResearchAssumption DEF Sourced, Checked, Researching!CheckUrl, Researching!IsHttp
<1>14. CASE Researching!Get
  BY <1>13, <1>14 DEF Researching!Get, Researching!Uses, Researching!Step, Sourced, Checked
<1>15. ASSUME NEW url, Researching!Redirect(url) PROVE Sourced'
  BY <1>13, <1>15 DEF Researching!Redirect, Sourced, Checked
<1> QED
  BY <1>1, <1>2, <1>3, <1>4, <1>5, <1>6, <1>7, <1>8, <1>9, <1>10, <1>11, <1>12, <1>14, <1>15
  DEF Researching!Next

\* Source n is the first result that no source before it tells of, what the model reads
\* under [n] is of it, and no page is asked for that the check refuses.
THEOREM SourcesAreNumbered == Spec => []ReportsAreSourced
<1>1. Sourced => ReportsAreSourced
  BY DEF Sourced, Numbered, Checked, ReportsAreSourced, Researching!ReportsAreSourced
<1> QED
  BY <1>1, SourcedFirst, SourcedStep, PTL DEF Spec
-----------------------------------------------------------------------------
(* Providers.  What is kept of a call while its fragments arrive is what was sent of   *)
(* it, and only all or none of it can be read as arguments; the next request repeats   *)
(* what was handed on, in order, unless an exception took the answer away.             *)

\* What was sent of the arguments of a call.
Received(i) == Streaming!First(i, sent[i])

\* Of each call no more is sent than there is.
Sent ==
    /\ plan \in Seq(Nat) /\ sent \in Seq(Nat)
    /\ Len(sent) <= Len(plan) /\ \A i \in 1..Len(sent) : sent[i] <= plan[i]
    /\ dialect \in {"anthropic", "openai"}
    /\ wire \in {"open", "ended", "cut", "raised"}
    /\ out = [said |-> out.said, calls |-> out.calls, end |-> out.end]

\* Of the block that is open all that was sent is kept, and nothing of another.
OneBlock ==
    /\ slots = <<>>
    /\ \/ current = {} /\ Len(out.calls) = Len(sent)
       \/ current = {Len(sent)} /\ Len(out.calls) = Len(sent) - 1 /\ json = Received(Len(sent))

\* Of each call, under its index.
ManySlots ==
    /\ current = {}
    /\ Len(slots) = Len(sent)
    /\ \A i \in 1..Len(slots) : slots[i] = Streaming!Assembled(i, Received(i))
    /\ wire = "open" => out.calls = <<>>

\* What was handed on has all or none of its arguments; of a stream that ended only a
\* block still open was not handed on.
HandedOn ==
    /\ \A k \in 1..Len(out.calls) : /\ out.calls[k] = Streaming!Assembled(k, Received(k))
                                    /\ sent[k] \in {0, plan[k]}
    /\ wire = "ended" => 1..Len(sent) \subseteq 1..Len(out.calls) \union current
    /\ out.end = IF wire = "ended" THEN Streaming!End ELSE <<>>

\* The last conjunct of CallsAreWhole.
Paired ==
    request # <<>> => \E a \in 1..Len(request) :
      /\ Streaming!Told("call", LAMBDA k : <<a, Len(request[a].parts) - Len(Streaming!Kept) + k>>)
      /\ \/ Streaming!Told("result", LAMBDA k : <<a + 1, k>>)
         \/ Streaming!Told("result", LAMBDA k : <<a + k, 1>>)

\* The inductive invariant.
Whole ==
    /\ Sent
    /\ dialect = "anthropic" => OneBlock
    /\ dialect = "openai" => ManySlots
    /\ HandedOn
    /\ wire = "open" => request = <<>>
    /\ Paired

LEMMA WholeFirst == Init => Whole
<1> SUFFICES ASSUME Init PROVE Whole
  OBVIOUS
<1>1. plan \in Seq(Nat)
  BY DEF Init, Streaming!Init
<1>2. /\ dialect \in {"anthropic", "openai"} /\ wire = "open" /\ request = <<>>
      /\ sent = <<>> /\ current = {} /\ slots = <<>>
      /\ out = [said |-> FALSE, calls |-> <<>>, end |-> <<>>]
  BY DEF Init, Streaming!Init, Streaming!Silence
<1>3. out.said = FALSE /\ out.calls = <<>> /\ out.end = <<>>
  BY <1>2
<1>4. Sent
  BY <1>1, <1>2, <1>3 DEF Sent
<1>5. HandedOn
  BY <1>2, <1>3 DEF HandedOn
<1>6. OneBlock /\ ManySlots
  BY <1>2, <1>3 DEF OneBlock, ManySlots
<1>7. Paired
  BY <1>2 DEF Paired
<1> QED
  BY <1>2, <1>4, <1>5, <1>6, <1>7 DEF Whole

(* The next request *)

\* An entry that says something, or nothing, and then tells of the calls.
Speaks(entry, calls) ==
    LET b == Len(entry.parts) - Len(calls)
    IN  /\ b \in Nat
        /\ \A p \in 1..b : entry.parts[p][1] \notin {"call", "result"}
        /\ \A k \in 1..Len(calls) : entry.parts[b + k] = <<"call", calls[k]>>

LEMMA PartsOf ==
  ASSUME NEW kind, NEW things
  PROVE  /\ Len(Streaming!Parts(kind, things)) = Len(things)
         /\ \A k \in 1..Len(things) : Streaming!Parts(kind, things)[k] = <<kind, things[k]>>
BY DEF Streaming!Parts

LEMMA ThreeInARow ==
  ASSUME NEW A, NEW B, NEW C
  PROVE  /\ Len(A \o B \o C) = Len(A) + Len(B) + Len(C)
         /\ \A p \in 1..Len(A) : (A \o B \o C)[p] = A[p]
         /\ \A p \in 1..Len(B) : (A \o B \o C)[Len(A) + p] = B[p]
         /\ \A p \in 1..Len(C) : (A \o B \o C)[Len(A) + Len(B) + p] = C[p]
OBVIOUS

LEMMA SpeechIsSpoken ==
  ASSUME NEW role, NEW one, NEW other, NEW s1, NEW s2, NEW calls,
         one \in {"text", "image"}, other \in {"text", "image"}
  PROVE  Speaks(Streaming!Entry(role, Streaming!Parts(one, s1) \o Streaming!Parts(other, s2)
                                        \o Streaming!Parts("call", calls)), calls)
<1> DEFINE A == Streaming!Parts(one, s1)
           B == Streaming!Parts(other, s2)
           C == Streaming!Parts("call", calls)
           all == A \o B \o C
<1>1. /\ Len(A) = Len(s1) /\ Len(B) = Len(s2) /\ Len(C) = Len(calls)
      /\ \A p \in 1..Len(s1) : A[p][1] = one
      /\ \A p \in 1..Len(s2) : B[p][1] = other
      /\ \A k \in 1..Len(calls) : C[k] = <<"call", calls[k]>>
  BY PartsOf
<1> HIDE DEF A, B, C
<1>2. /\ Len(all) = Len(A) + Len(B) + Len(C)
      /\ \A p \in 1..Len(A) : all[p] = A[p]
      /\ \A p \in 1..Len(B) : all[Len(A) + p] = B[p]
      /\ \A p \in 1..Len(C) : all[Len(A) + Len(B) + p] = C[p]
  BY ThreeInARow
<1>3. ASSUME NEW p \in 1..(Len(s1) + Len(s2)) PROVE all[p][1] \in {one, other}
  <2>1. CASE p <= Len(s1)
    BY <1>1, <1>2, <2>1
  <2>2. CASE p > Len(s1)
    <3>1. PICK q \in 1..Len(s2) : p = Len(s1) + q
      <4>1. p - Len(s1) \in 1..Len(s2) /\ p = Len(s1) + (p - Len(s1))
        BY <2>2
      <4> QED
        BY <4>1
    <3>2. all[p] = B[q]
      BY <1>1, <1>2, <3>1
    <3> QED
      BY <1>1, <3>1, <3>2
  <2>3. Len(s1) \in Nat /\ p \in Nat
    OBVIOUS
  <2>4. p <= Len(s1) \/ p > Len(s1)
    BY <2>3
  <2> QED
    BY <2>1, <2>2, <2>4
<1>4. \A k \in 1..Len(calls) : all[Len(s1) + Len(s2) + k] = <<"call", calls[k]>>
  BY <1>1, <1>2
<1>5. Speaks([role |-> role, parts |-> all], calls)
  <2> HIDE DEF all
  <2>1. Len(all) - Len(calls) = Len(s1) + Len(s2) /\ Len(s1) + Len(s2) \in Nat
    BY <1>1, <1>2
  <2>2. \A p \in 1..(Len(s1) + Len(s2)) : all[p][1] \notin {"call", "result"}
    BY <1>3
  <2> QED
    BY <1>4, <2>1, <2>2 DEF Speaks
<1> QED
  BY <1>5 DEF Streaming!Entry, A, B, C

LEMMA WireOfSpeech ==
  ASSUME NEW message, message.role # "tool"
  PROVE  /\ \E e : Streaming!AnthropicWire(message) = <<e>> /\ Speaks(e, message.calls)
         /\ \E e : Streaming!OpenAiWire(message) = <<e>> /\ Speaks(e, message.calls)
BY SpeechIsSpoken DEF Streaming!AnthropicWire, Streaming!OpenAiWire

\* What the entries from the third on are.
Answers(entries, calls) ==
    \/ /\ Len(entries) = 1 /\ Len(entries[1].parts) = Len(calls)
       /\ \A k \in 1..Len(calls) : entries[1].parts[k] = <<"result", calls[k]>>
    \/ /\ Len(entries) = Len(calls)
       /\ \A k \in 1..Len(calls) : entries[k].parts = <<<<"result", calls[k]>>>>

LEMMA WireOfResults ==
  ASSUME NEW message, message.role = "tool"
  PROVE  /\ Answers(Streaming!AnthropicWire(message), message.results)
         /\ Answers(Streaming!OpenAiWire(message), message.results)
<1>1. Answers(Streaming!AnthropicWire(message), message.results)
  BY PartsOf DEF Answers, Streaming!AnthropicWire, Streaming!Entry
<1>2. Answers(Streaming!OpenAiWire(message), message.results)
  BY DEF Answers, Streaming!OpenAiWire, Streaming!Entry
<1> QED
  BY <1>1, <1>2

\* A request is a system prompt or none, a question, an answer, and what follows it.
Ensues(rest, calls) ==
    \/ Answers(rest, calls)
    \/ calls = <<>> /\ rest = <<>>
    \/ calls = <<>> /\ \E third : rest = <<third>> /\ Speaks(third, <<>>)

LEMMA PayloadOf ==
  ASSUME NEW messages,
         messages[1].role # "tool", messages[1].calls = <<>>, messages[2].role # "tool",
         \/ Len(messages) = 2 /\ messages[2].calls = <<>>
         \/ /\ Len(messages) = 3
            /\ messages[3].role # "tool" /\ messages[3].calls = <<>> /\ messages[2].calls = <<>>
         \/ /\ Len(messages) = 3
            /\ messages[3].role = "tool" /\ messages[3].results = messages[2].calls
  PROVE  \E system, first, second, rest :
           /\ Streaming!Payload(messages) = system \o (<<first>> \o <<second>> \o rest)
           /\ system \in {<<>>, <<Streaming!Entry("system", <<>>)>>}
           /\ Speaks(first, <<>>) /\ Speaks(second, messages[2].calls)
           /\ Ensues(rest, messages[2].calls)
<1> DEFINE Joins(list) == \E first, second, rest :
               /\ Streaming!Joined(list) = <<first>> \o <<second>> \o rest
               /\ Speaks(first, <<>>) /\ Speaks(second, messages[2].calls)
               /\ Ensues(rest, messages[2].calls)
<1>1. ASSUME NEW list, Len(list) = Len(messages),
             \E e : list[1] = <<e>> /\ Speaks(e, messages[1].calls),
             \E e : list[2] = <<e>> /\ Speaks(e, messages[2].calls),
             Len(messages) = 3 /\ messages[3].role = "tool" =>
                Answers(list[3], messages[3].results),
             Len(messages) = 3 /\ messages[3].role # "tool" =>
                \E e : list[3] = <<e>> /\ Speaks(e, messages[3].calls)
      PROVE  Joins(list)
  <2>1. PICK first : list[1] = <<first>> /\ Speaks(first, <<>>)
    BY <1>1
  <2>2. PICK second : list[2] = <<second>> /\ Speaks(second, messages[2].calls)
    BY <1>1
  <2> DEFINE rest == IF Len(list) = 3 THEN list[3] ELSE <<>>
  <2>3. Ensues(rest, messages[2].calls)
    BY <1>1 DEF Ensues
  <2>4. Streaming!Joined(list) = <<first>> \o <<second>> \o rest
    BY <2>1, <2>2 DEF Streaming!Joined
  <2> QED
    BY <2>1, <2>2, <2>3, <2>4
<1>2. CASE dialect = "anthropic"
  <2> DEFINE list == [k \in 1..Len(messages) |-> Streaming!AnthropicWire(messages[k])]
  <2>1. Len(list) = Len(messages) /\ \A k \in 1..Len(messages) : list[k] = Streaming!AnthropicWire(messages[k])
    OBVIOUS
  <2>2. Streaming!Payload(messages) = <<>> \o Streaming!Joined(list)
    BY <1>2 DEF Streaming!Payload, Streaming!AnthropicPayload, Streaming!Joined
  <2>3. Joins(list)
    <3> HIDE DEF list, Joins
    <3> QED
      BY <1>1, <2>1, WireOfSpeech, WireOfResults
  <2> QED
    BY <2>2, <2>3
<1>3. CASE dialect # "anthropic"
  <2> DEFINE list == [k \in 1..Len(messages) |-> Streaming!OpenAiWire(messages[k])]
  <2>1. Len(list) = Len(messages) /\ \A k \in 1..Len(messages) : list[k] = Streaming!OpenAiWire(messages[k])
    OBVIOUS
  <2>2. Streaming!Payload(messages) = <<Streaming!Entry("system", <<>>)>> \o Streaming!Joined(list)
    BY <1>3 DEF Streaming!Payload, Streaming!OpenAiPayload
  <2>3. Joins(list)
    <3> HIDE DEF list, Joins
    <3> QED
      BY <1>1, <2>1, WireOfSpeech, WireOfResults
  <2> QED
    BY <2>2, <2>3
<1> QED
  BY <1>2, <1>3

LEMMA NextPayload ==
  ASSUME Whole, Streaming!NextRequest
  PROVE  \E system, first, second, rest :
           /\ request' = system \o (<<first>> \o <<second>> \o rest)
           /\ system \in {<<>>, <<Streaming!Entry("system", <<>>)>>}
           /\ Speaks(first, <<>>) /\ Speaks(second, Streaming!Asked)
           /\ Ensues(rest, Streaming!Asked)
<1> DEFINE question(images) == Streaming!Message("user", <<1>>, images, <<>>, <<>>)
           answer == Streaming!Message("assistant", Streaming!Said, <<>>, Streaming!Asked, <<>>)
           results == Streaming!Message("tool", <<>>, <<>>, <<>>, Streaming!Asked)
<1>1. PICK images : request' = Streaming!Payload(
                IF wire = "raised" THEN <<question(images), question(images)>>
                ELSE IF Streaming!Asked = <<>> THEN <<question(images), answer, question(images)>>
                ELSE <<question(images), answer, results>>)
  BY DEF Streaming!NextRequest
<1>2. wire = "raised" => Streaming!Asked = <<>>
  BY DEF Streaming!Kept, Streaming!Asked
<1>3. CASE wire = "raised"
  <2> DEFINE messages == <<question(images), question(images)>>
  <2>1. request' = Streaming!Payload(messages)
    BY <1>1, <1>3
  <2>2. /\ Len(messages) = 2 /\ messages[1].role # "tool" /\ messages[1].calls = <<>>
        /\ messages[2].role # "tool" /\ messages[2].calls = <<>>
    BY DEF Streaming!Message
  <2> HIDE DEF messages
  <2>3. \E system, first, second, rest :
           /\ Streaming!Payload(messages) = system \o (<<first>> \o <<second>> \o rest)
           /\ system \in {<<>>, <<Streaming!Entry("system", <<>>)>>}
           /\ Speaks(first, <<>>) /\ Speaks(second, messages[2].calls)
           /\ Ensues(rest, messages[2].calls)
    BY <2>2, PayloadOf
  <2> QED
    BY <1>2, <1>3, <2>1, <2>2, <2>3
<1>4. CASE wire # "raised" /\ Streaming!Asked = <<>>
  <2> DEFINE messages == <<question(images), answer, question(images)>>
  <2>1. request' = Streaming!Payload(messages)
    BY <1>1, <1>4
  <2>2. /\ Len(messages) = 3 /\ messages[1].role # "tool" /\ messages[1].calls = <<>>
        /\ messages[2].role # "tool" /\ messages[2].calls = Streaming!Asked
        /\ messages[3].role # "tool" /\ messages[3].calls = <<>>
    BY DEF Streaming!Message
  <2> HIDE DEF messages
  <2>3. \E system, first, second, rest :
           /\ Streaming!Payload(messages) = system \o (<<first>> \o <<second>> \o rest)
           /\ system \in {<<>>, <<Streaming!Entry("system", <<>>)>>}
           /\ Speaks(first, <<>>) /\ Speaks(second, messages[2].calls)
           /\ Ensues(rest, messages[2].calls)
    BY <1>4, <2>2, PayloadOf
  <2> QED
    BY <2>1, <2>2, <2>3
<1>5. CASE wire # "raised" /\ Streaming!Asked # <<>>
  <2> DEFINE messages == <<question(images), answer, results>>
  <2>1. request' = Streaming!Payload(messages)
    BY <1>1, <1>5
  <2>2. /\ Len(messages) = 3 /\ messages[1].role # "tool" /\ messages[1].calls = <<>>
        /\ messages[2].role # "tool" /\ messages[2].calls = Streaming!Asked
        /\ messages[3].role = "tool" /\ messages[3].results = Streaming!Asked
    BY DEF Streaming!Message
  <2> HIDE DEF messages
  <2>3. \E system, first, second, rest :
           /\ Streaming!Payload(messages) = system \o (<<first>> \o <<second>> \o rest)
           /\ system \in {<<>>, <<Streaming!Entry("system", <<>>)>>}
           /\ Speaks(first, <<>>) /\ Speaks(second, messages[2].calls)
           /\ Ensues(rest, messages[2].calls)
    BY <2>2, PayloadOf
  <2> QED
    BY <2>1, <2>2, <2>3
<1> QED
  BY <1>3, <1>4, <1>5

\* The calls are the last parts of the answer, and the results what follows it.
LEMMA PairedNext ==
  ASSUME Whole, Streaming!NextRequest
  PROVE  Paired'
<1>1. PICK system, first, second, rest :
           /\ request' = system \o (<<first>> \o <<second>> \o rest)
           /\ system \in {<<>>, <<Streaming!Entry("system", <<>>)>>}
           /\ Speaks(first, <<>>) /\ Speaks(second, Streaming!Asked)
           /\ Ensues(rest, Streaming!Asked)
  BY NextPayload
<1>2. UNCHANGED Streaming!Kept
  BY DEF Streaming!NextRequest, Streaming!Kept
<1>3. /\ Len(Streaming!Asked) = Len(Streaming!Kept)
      /\ \A k \in 1..Len(Streaming!Kept) : Streaming!Asked[k] = Streaming!Kept[k].index
  BY DEF Streaming!Asked
<1>4. PICK c \in {0, 1} :
         /\ Len(request') = c + 2 + Len(rest)
         /\ c = 1 => request'[1].parts = <<>>
         /\ request'[c + 1] = first /\ request'[c + 2] = second
         /\ \A k \in 1..Len(rest) : request'[c + 2 + k] = rest[k]
  <2> DEFINE tail == <<first>> \o <<second>> \o rest
  <2>1. /\ Len(tail) = 2 + Len(rest) /\ tail[1] = first /\ tail[2] = second
        /\ \A k \in 1..Len(rest) : tail[2 + k] = rest[k]
    OBVIOUS
  <2> HIDE DEF tail
  <2>2. request' = system \o tail
    BY <1>1 DEF tail
  <2>3. CASE system = <<>>
    <3>1. /\ Len(request') = Len(tail) /\ \A k \in 1..Len(tail) : request'[k] = tail[k]
      BY <2>2, <2>3
    <3> QED
      BY <2>1, <3>1
  <2>4. CASE system = <<Streaming!Entry("system", <<>>)>>
    <3>1. /\ Len(request') = 1 + Len(tail) /\ \A k \in 1..Len(tail) : request'[1 + k] = tail[k]
          /\ request'[1] = Streaming!Entry("system", <<>>)
      BY <2>2, <2>4
    <3>2. /\ Len(request') = 1 + 2 + Len(rest) /\ request'[1].parts = <<>>
          /\ request'[2] = first /\ request'[3] = second
      BY <2>1, <3>1 DEF Streaming!Entry
    <3>3. \A k \in 1..Len(rest) : request'[3 + k] = rest[k]
      <4>1. \A k \in 1..Len(rest) : 2 + k \in 1..Len(tail) /\ 1 + (2 + k) = 3 + k
        BY <2>1
      <4> QED
        BY <2>1, <3>1, <4>1
    <3> QED
      BY <3>2, <3>3
  <2> QED
    BY <1>1, <2>3, <2>4
<1> DEFINE b == Len(second.parts) - Len(Streaming!Kept)
<1>5. /\ b \in Nat /\ Len(second.parts) = b + Len(Streaming!Kept)
      /\ \A p \in 1..b : second.parts[p][1] \notin {"call", "result"}
      /\ \A k \in 1..Len(Streaming!Kept) : second.parts[b + k] = <<"call", Streaming!Kept[k].index>>
  <2>1. b = Len(second.parts) - Len(Streaming!Asked)
    BY <1>3
  <2>2. /\ b \in Nat
        /\ \A p \in 1..b : second.parts[p][1] \notin {"call", "result"}
        /\ \A k \in 1..Len(Streaming!Asked) : second.parts[b + k] = <<"call", Streaming!Asked[k]>>
    <3> HIDE DEF b
    <3> QED
      BY <1>1, <2>1 DEF Speaks
  <2>3. Len(second.parts) = b + Len(Streaming!Kept)
    BY <2>2
  <2> HIDE DEF b
  <2> QED
    BY <1>3, <2>2, <2>3
<1>6. \A p \in 1..Len(first.parts) : first.parts[p][1] \notin {"call", "result"}
  BY <1>1 DEF Speaks
<1> HIDE DEF b
\* What the entries are that have parts of a kind.
<1>7. ASSUME NEW e \in 1..Len(request')
      PROVE  \/ e = c /\ request'[e].parts = <<>>
             \/ e = c + 1 /\ request'[e] = first
             \/ e = c + 2 /\ request'[e] = second
             \/ \E k \in 1..Len(rest) : e = c + 2 + k /\ request'[e] = rest[k]
  <2>1. CASE e > c + 2
    <3>1. e - (c + 2) \in 1..Len(rest) /\ e = c + 2 + (e - (c + 2))
      BY <1>4, <2>1
    <3> QED
      BY <1>4, <3>1
  <2>2. CASE e <= c + 2
    BY <1>4, <2>2
  <2> QED
    BY <1>4, <2>1, <2>2
<1>8. \A k \in 1..Len(rest) : \A p \in 1..Len(rest[k].parts) : rest[k].parts[p][1] # "call"
  <2>1. CASE Answers(rest, Streaming!Asked)
    BY <1>3, <2>1 DEF Answers
  <2>2. CASE \E third : rest = <<third>> /\ Speaks(third, <<>>)
    BY <2>2 DEF Speaks
  <2> QED
    BY <1>1, <2>1, <2>2 DEF Ensues
<1>9. PICK a \in 1..Len(request') : a = c + 2
  BY <1>4
<1>10. Streaming!Told("call", LAMBDA k : <<a, Len(request[a].parts) - Len(Streaming!Kept) + k>>)'
  <2>1. a \in 1..Len(request') /\ request'[a] = second
        /\ Len(request'[a].parts) - Len(Streaming!Kept') = b
    BY <1>2, <1>4, <1>5, <1>9
  <2>2. ASSUME NEW e \in 1..Len(request'), NEW p \in 1..Len(request'[e].parts),
               request'[e].parts[p][1] = "call"
        PROVE  \E k \in 1..Len(Streaming!Kept') : <<a, b + k>> = <<e, p>>
    <3>1. e = a
      BY <1>6, <1>7, <1>8, <1>9, <2>2
    <3>2. p \in 1..(b + Len(Streaming!Kept)) /\ p \notin 1..b
      BY <1>5, <2>1, <2>2, <3>1
    <3>3. p - b \in 1..Len(Streaming!Kept) /\ b + (p - b) = p
      BY <1>5, <3>2
    <3> QED
      BY <1>2, <3>1, <3>3
  <2>3. ASSUME NEW k \in 1..Len(Streaming!Kept')
        PROVE  \E e \in 1..Len(request') : \E p \in 1..Len(request'[e].parts) :
                  <<a, b + k>> = <<e, p>> /\ request'[e].parts[p] = <<"call", Streaming!Kept'[k].index>>
    <3>1. b + k \in 1..Len(request'[a].parts)
      BY <1>2, <1>5, <2>1
    <3>2. request'[a].parts[b + k] = <<"call", Streaming!Kept'[k].index>>
      BY <1>2, <1>5, <2>1
    <3> QED
      BY <2>1, <3>1, <3>2
  <2> QED
    BY <2>1, <2>2, <2>3 DEF Streaming!Told
<1>11. \/ Streaming!Told("result", LAMBDA k : <<a + 1, k>>)'
       \/ Streaming!Told("result", LAMBDA k : <<a + k, 1>>)'
  <2>1. ASSUME NEW e \in 1..Len(request'), NEW p \in 1..Len(request'[e].parts),
               request'[e].parts[p][1] = "result"
        PROVE  \E k \in 1..Len(rest) : e = a + k /\ request'[e] = rest[k]
    <3>1. CASE request'[e] = second
      <4>1. p \notin 1..b
        BY <1>5, <2>1, <3>1
      <4>2. p - b \in 1..Len(Streaming!Kept) /\ b + (p - b) = p
        BY <1>5, <2>1, <3>1, <4>1
      <4>3. second.parts[p] = <<"call", Streaming!Kept[p - b].index>>
        BY <1>5, <4>2
      <4> QED
        BY <2>1, <3>1, <4>3
    <3>2. request'[e] # first /\ request'[e].parts # <<>>
      BY <1>6, <2>1
    <3> QED
      BY <1>7, <1>9, <3>1, <3>2
  <2>2. CASE /\ Len(rest) = 1 /\ Len(rest[1].parts) = Len(Streaming!Asked)
             /\ \A k \in 1..Len(Streaming!Asked) : rest[1].parts[k] = <<"result", Streaming!Asked[k]>>
    <3>1. a + 1 \in 1..Len(request') /\ request'[a + 1] = rest[1]
      BY <1>4, <1>9, <2>2
    <3>2. ASSUME NEW e \in 1..Len(request'), NEW p \in 1..Len(request'[e].parts),
                 request'[e].parts[p][1] = "result"
          PROVE  \E k \in 1..Len(Streaming!Kept') : <<a + 1, k>> = <<e, p>>
      <4>1. e = a + 1
        BY <2>1, <2>2, <3>2
      <4>2. p \in 1..Len(Streaming!Kept')
        BY <1>2, <1>3, <2>2, <3>1, <4>1
      <4> QED
        BY <4>1, <4>2
    <3>3. \A k \in 1..Len(Streaming!Kept') : /\ k \in 1..Len(request'[a + 1].parts)
                                       /\ request'[a + 1].parts[k] = <<"result", Streaming!Kept'[k].index>>
      BY <1>2, <1>3, <2>2, <3>1
    <3>4. Streaming!Told("result", LAMBDA k : <<a + 1, k>>)'
      BY <3>1, <3>2, <3>3 DEF Streaming!Told
    <3> QED
      BY <3>4
  <2>3. CASE /\ Len(rest) = Len(Streaming!Asked)
             /\ \A k \in 1..Len(Streaming!Asked) : rest[k].parts = <<<<"result", Streaming!Asked[k]>>>>
    <3>1. \A k \in 1..Len(Streaming!Kept) : a + k \in 1..Len(request') /\ request'[a + k] = rest[k]
      BY <1>3, <1>4, <1>9, <2>3
    <3>2. ASSUME NEW e \in 1..Len(request'), NEW p \in 1..Len(request'[e].parts),
                 request'[e].parts[p][1] = "result"
          PROVE  \E k \in 1..Len(Streaming!Kept') : <<a + k, 1>> = <<e, p>>
      <4>1. PICK k \in 1..Len(rest) : e = a + k /\ request'[e] = rest[k]
        BY <2>1, <3>2
      <4>2. k \in 1..Len(Streaming!Kept') /\ p = 1
        <5>1. k \in 1..Len(Streaming!Kept') /\ rest[k].parts = <<<<"result", Streaming!Asked[k]>>>>
          BY <1>2, <1>3, <2>3, <4>1
        <5> QED
          BY <3>2, <4>1, <5>1
      <4> QED
        BY <4>1, <4>2
    <3>3. \A k \in 1..Len(Streaming!Kept') : /\ 1 \in 1..Len(request'[a + k].parts)
                                       /\ request'[a + k].parts[1] = <<"result", Streaming!Kept'[k].index>>
      <4> SUFFICES ASSUME NEW k \in 1..Len(Streaming!Kept')
                   PROVE  /\ 1 \in 1..Len(request'[a + k].parts)
                          /\ request'[a + k].parts[1] = <<"result", Streaming!Kept'[k].index>>
        OBVIOUS
      <4>1. request'[a + k].parts = <<<<"result", Streaming!Kept'[k].index>>>>
        BY <1>2, <1>3, <2>3, <3>1
      <4> QED
        BY <4>1
    <3>4. ASSUME NEW k \in 1..Len(Streaming!Kept')
          PROVE  \E e \in 1..Len(request') : \E p \in 1..Len(request'[e].parts) :
                   <<a + k, 1>> = <<e, p>> /\ request'[e].parts[p] = <<"result", Streaming!Kept'[k].index>>
      <4>1. a + k \in 1..Len(request')
        BY <1>2, <3>1
      <4> QED
        BY <3>3, <4>1
    <3>5. Streaming!Told("result", LAMBDA k : <<a + k, 1>>)'
      BY <3>2, <3>4 DEF Streaming!Told
    <3> QED
      BY <3>5
  <2>4. CASE /\ Streaming!Asked = <<>>
             /\ rest = <<>> \/ \E third : rest = <<third>> /\ Speaks(third, <<>>)
    <3>1. Streaming!Kept' = <<>> \/ Len(Streaming!Kept') = 0
      BY <1>2, <1>3, <2>4
    <3>2. \A k \in 1..Len(rest) : \A p \in 1..Len(rest[k].parts) : rest[k].parts[p][1] # "result"
      BY <2>4 DEF Speaks
    <3>3. \A e \in 1..Len(request') : \A p \in 1..Len(request'[e].parts) :
             request'[e].parts[p][1] # "result"
      BY <2>1, <3>2
    <3>4. Streaming!Told("result", LAMBDA k : <<a + 1, k>>)'
      BY <3>1, <3>3 DEF Streaming!Told
    <3> QED
      BY <3>4
  <2> QED
    BY <1>1, <2>2, <2>3, <2>4 DEF Ensues, Answers
<1> QED
  BY <1>10, <1>11 DEF Paired, Streaming!Told

(* The events *)

\* Nothing has been asked yet while the stream is open.
LEMMA PairedOpen ==
  ASSUME Whole, wire = "open", UNCHANGED request
  PROVE  /\ wire' = "open" => request' = <<>>
         /\ Paired'
BY DEF Whole, Paired

\* No more is handed on, and what was is not added to.
LEMMA HandedStays ==
  ASSUME HandedOn, wire = "open", wire' # "ended", out'.calls = out.calls, out'.end = out.end,
         plan' = plan, \A k \in 1..Len(out.calls) : sent'[k] = sent[k]
  PROVE  HandedOn'
<1>1. \A k \in 1..Len(out.calls) : Received(k)' = Received(k)
  BY DEF Received, Streaming!First
<1> QED
  BY <1>1 DEF HandedOn, Streaming!Assembled

\* What came of a call can be read only if it is all or nothing.
LEMMA AllOrNothing ==
  ASSUME Sent, NEW i \in 1..Len(sent), Streaming!Parses(Received(i))
  PROVE  sent[i] \in {0, plan[i]}
<1>1. /\ sent[i] \in Nat /\ plan \in Seq(Nat) /\ Len(Received(i)) = sent[i]
      /\ \A k \in 1..sent[i] : Received(i)[k] = <<i, k>>
  BY DEF Sent, Received, Streaming!First
<1>2. CASE Received(i) = <<>>
  BY <1>1, <1>2
<1>3. ASSUME NEW j \in 1..Len(plan), Received(i) = Streaming!Meant(j), sent[i] # 0
      PROVE  sent[i] = plan[i]
  <2>1. /\ plan[j] \in Nat /\ Len(Streaming!Meant(j)) = plan[j]
        /\ \A k \in 1..plan[j] : Streaming!Meant(j)[k] = <<j, k>>
    BY <1>1 DEF Streaming!Meant, Streaming!First
  <2>2. sent[i] = plan[j] /\ 1 \in 1..sent[i]
    BY <1>1, <1>3, <2>1
  <2>3. <<i, 1>> = <<j, 1>>
    BY <1>1, <1>3, <2>1, <2>2
  <2> QED
    BY <2>2, <2>3
<1> QED
  BY <1>2, <1>3 DEF Streaming!Parses

LEMMA NumbersOf ==
  ASSUME NEW numbers \in Seq(Nat), NEW i \in 1..Len(numbers)
  PROVE  numbers[i] \in Nat
OBVIOUS

LEMMA OneMore ==
  ASSUME NEW m \in Nat, NEW i
  PROVE  Append([k \in 1..m |-> <<i, k>>], <<i, m + 1>>) = [k \in 1..(m + 1) |-> <<i, k>>]
OBVIOUS

LEMMA AnthropicEvent ==
  ASSUME Whole, wire = "open",
         \E i \in 1..MaxCalls : \/ Streaming!BlockStart(i) \/ Streaming!JsonDelta(i)
                                \/ Streaming!BlockStop(i)
  PROVE  Whole'
<1>1. PICK i \in 1..MaxCalls : \/ Streaming!BlockStart(i) \/ Streaming!JsonDelta(i)
                               \/ Streaming!BlockStop(i)
  OBVIOUS
<1>2. dialect = "anthropic" /\ UNCHANGED <<dialect, plan, slots, request>>
  BY <1>1 DEF Streaming!BlockStart, Streaming!JsonDelta, Streaming!BlockStop
<1>3. Sent /\ OneBlock /\ HandedOn
  BY <1>2 DEF Whole
<1>4. /\ plan \in Seq(Nat) /\ sent \in Seq(Nat) /\ Len(sent) \in Nat /\ Len(sent) <= Len(plan)
      /\ \A k \in 1..Len(sent) : sent[k] <= plan[k]
      /\ \A k \in 1..Len(sent) : sent[k] \in Nat
  BY <1>3 DEF Sent
<1>5. CASE Streaming!BlockStart(i)
  <2>1. /\ i = Len(sent) + 1 /\ i <= Len(plan) /\ current = {} /\ UNCHANGED <<out, wire>>
        /\ sent' = Append(sent, 0) /\ current' = {i} /\ json' = <<>>
    BY <1>5 DEF Streaming!BlockStart, Streaming!Begins
  <2>2. /\ sent' \in Seq(Nat) /\ Len(sent') = i /\ sent'[i] = 0
        /\ \A k \in 1..Len(sent) : sent'[k] = sent[k]
    BY <1>4, <2>1
  <2>3. \A k \in 1..i : sent'[k] <= plan[k]
    BY <1>4, <2>1, <2>2
  <2>4. Sent'
    BY <1>2, <1>3, <2>1, <2>2, <2>3 DEF Sent
  <2>5. json' = [k \in 1..sent'[i] |-> <<i, k>>]
    BY <2>1, <2>2
  <2>6. OneBlock'
    BY <1>2, <1>3, <1>4, <2>1, <2>2, <2>5 DEF OneBlock, Received, Streaming!First
  <2>7. HandedOn'
    <3>1. Len(out.calls) = Len(sent)
      <4>1. Len(sent) \notin {}
        OBVIOUS
      <4> QED
        BY <1>3, <2>1, <4>1 DEF OneBlock
    <3> QED
      BY <1>2, <1>3, <2>1, <2>2, <3>1, HandedStays
  <2> QED
    BY <1>2, <2>4, <2>6, <2>7, PairedOpen DEF Whole
<1>6. CASE Streaming!JsonDelta(i)
  <2>1. /\ i \in 1..Len(sent) /\ sent[i] < plan[i] /\ current = {i} /\ UNCHANGED <<out, current, wire>>
        /\ sent' = [sent EXCEPT ![i] = @ + 1] /\ json' = Append(json, <<i, sent[i] + 1>>)
    BY <1>6 DEF Streaming!JsonDelta, Streaming!Continues
  <2>2. /\ sent' \in Seq(Nat) /\ Len(sent') = Len(sent) /\ sent'[i] = sent[i] + 1
        /\ \A k \in 1..Len(sent) : k # i => sent'[k] = sent[k]
    BY <1>4, <2>1
  <2>3. \A k \in 1..Len(sent) : sent'[k] <= plan[k]
    <3>1. plan[i] \in Nat /\ sent[i] \in Nat
      <4>1. i \in 1..Len(plan)
        BY <1>4, <2>1
      <4>2. plan \in Seq(Nat)
        BY <1>4
      <4>3. plan[i] \in Nat
        BY <4>1, <4>2, NumbersOf
      <4> QED
        BY <1>4, <2>1, <4>3
    <3>2. sent'[i] <= plan[i]
      BY <2>1, <2>2, <3>1
    <3> QED
      BY <1>4, <2>2, <3>2
  <2>4. Sent'
    BY <1>2, <1>3, <2>1, <2>2, <2>3 DEF Sent
  <2>5. i = Len(sent) /\ json = [k \in 1..sent[i] |-> <<i, k>>] /\ Len(out.calls) = Len(sent) - 1
    BY <1>3, <2>1 DEF OneBlock, Received, Streaming!First
  <2>6. json' = [k \in 1..sent'[i] |-> <<i, k>>]
    <3>1. sent[i] \in Nat
      BY <1>4, <2>1
    <3> QED
      <4>1. json' = Append([k \in 1..sent[i] |-> <<i, k>>], <<i, sent[i] + 1>>)
        BY <2>1, <2>5
      <4>2. json' = [k \in 1..(sent[i] + 1) |-> <<i, k>>]
        BY <3>1, <4>1, OneMore
      <4> QED
        BY <2>2, <4>2
  <2>7. OneBlock'
    <3>1. slots' = <<>> /\ current' = {Len(sent')} /\ Len(sent') = i
      BY <1>2, <1>3, <2>1, <2>2, <2>5 DEF OneBlock
    <3>2. Len(out'.calls) = Len(sent') - 1
      BY <2>1, <2>2, <2>5
    <3> QED
      BY <2>6, <3>1, <3>2 DEF OneBlock, Received, Streaming!First
  <2>8. HandedOn'
    <3>1. \A k \in 1..Len(out.calls) : sent'[k] = sent[k]
      BY <1>4, <2>2, <2>5
    <3> QED
      BY <1>2, <1>3, <2>1, <3>1, HandedStays
  <2> QED
    BY <1>2, <2>4, <2>7, <2>8, PairedOpen DEF Whole
<1>7. CASE Streaming!BlockStop(i)
  <2>1. current = {i} /\ UNCHANGED <<sent, json>>
    BY <1>7 DEF Streaming!BlockStop
  <2>2. i = Len(sent) /\ json = Received(i) /\ Len(out.calls) = Len(sent) - 1
    BY <1>3, <2>1 DEF OneBlock
  <2>3. CASE Streaming!Parses(json)
    <3>1. /\ current' = {} /\ UNCHANGED wire
          /\ out' = [out EXCEPT !.calls = Append(@, Streaming!Assembled(i, json))]
      BY <1>7, <2>3 DEF Streaming!BlockStop
    <3>2. /\ out' = [said |-> out'.said, calls |-> out'.calls, end |-> out'.end]
          /\ out'.end = out.end
          /\ out'.calls = Append(out.calls, Streaming!Assembled(i, Received(i)))
      BY <1>3, <2>2, <3>1 DEF Sent
    <3>3. /\ Len(out'.calls) = i /\ out'.calls[i] = Streaming!Assembled(i, Received(i))
          /\ \A k \in 1..Len(out.calls) : out'.calls[k] = out.calls[k]
      BY <1>4, <2>2, <3>2
    <3>4. Sent'
      BY <1>2, <1>3, <2>1, <3>1, <3>2 DEF Sent
    <3>5. OneBlock'
      BY <1>2, <1>3, <2>1, <2>2, <3>1, <3>3 DEF OneBlock
    <3>6. sent[i] \in {0, plan[i]}
      <4>1. i \in 1..Len(sent) \/ Len(sent) = 0
        BY <1>4, <2>2
      <4>2. i \in 1..Len(sent)
        BY <1>1, <2>2, <4>1
      <4> QED
        BY <1>3, <2>2, <2>3, <4>2, AllOrNothing
    <3>7. \A k \in 1..i : /\ out'.calls[k] = Streaming!Assembled(k, Received(k))
                          /\ sent[k] \in {0, plan[k]}
      <4>1. ASSUME NEW k \in 1..i, k # i
            PROVE  /\ out'.calls[k] = Streaming!Assembled(k, Received(k))
                   /\ sent[k] \in {0, plan[k]}
        <5>1. k \in 1..Len(out.calls)
          BY <1>4, <2>2, <4>1
        <5> QED
          BY <1>3, <3>3, <5>1 DEF HandedOn
      <4> QED
        BY <3>3, <3>6, <4>1
    <3>8. HandedOn'
      <4>1. \A k : Received(k)' = Received(k)
        BY <2>1 DEF Received, Streaming!First
      <4> QED
        BY <1>2, <1>3, <2>1, <3>1, <3>2, <3>3, <3>7, <4>1 DEF HandedOn, Streaming!Assembled
    <3> QED
      BY <1>2, <3>4, <3>5, <3>8, PairedOpen DEF Whole
  <2>4. CASE ~Streaming!Parses(json)
    <3>1. wire' = "raised" /\ UNCHANGED <<out, current>>
      BY <1>7, <2>4 DEF Streaming!BlockStop
    <3>2. Sent' /\ OneBlock'
      BY <1>2, <1>3, <2>1, <3>1 DEF Sent, OneBlock, Received, Streaming!First
    <3>3. HandedOn'
      BY <1>2, <1>3, <2>1, <3>1, HandedStays
    <3> QED
      BY <1>2, <3>1, <3>2, <3>3, PairedOpen DEF Whole
  <2> QED
    BY <2>3, <2>4
<1> QED
  BY <1>1, <1>5, <1>6, <1>7

LEMMA OpenAiEvent ==
  ASSUME Whole, wire = "open",
         \E i \in 1..MaxCalls : Streaming!FirstFragment(i) \/ Streaming!NextFragment(i)
  PROVE  Whole'
<1>1. PICK i \in 1..MaxCalls : Streaming!FirstFragment(i) \/ Streaming!NextFragment(i)
  OBVIOUS
<1>2. dialect = "openai" /\ UNCHANGED <<dialect, plan, current, out, wire, request>>
  BY <1>1 DEF Streaming!FirstFragment, Streaming!NextFragment
<1>3. Sent /\ ManySlots /\ HandedOn
  BY <1>2 DEF Whole
<1>4. /\ plan \in Seq(Nat) /\ sent \in Seq(Nat) /\ Len(sent) \in Nat /\ Len(sent) <= Len(plan)
      /\ \A k \in 1..Len(sent) : sent[k] <= plan[k]
      /\ \A k \in 1..Len(sent) : sent[k] \in Nat
      /\ Len(slots) = Len(sent)
      /\ \A k \in 1..Len(slots) : slots[k] = [index |-> k, args |-> Received(k)]
  BY <1>3 DEF Sent, ManySlots, Streaming!Assembled
<1>5. HandedOn'
  BY <1>2, <1>3, HandedStays DEF ManySlots
<1>6. CASE Streaming!FirstFragment(i)
  <2>1. PICK m \in {0, 1} :
           /\ i = Len(sent) + 1 /\ i <= Len(plan) /\ m <= plan[i] /\ sent' = Append(sent, m)
           /\ slots' = Append(slots, [index |-> i, args |-> IF m = 0 THEN <<>> ELSE <<<<i, 1>>>>])
    BY <1>6 DEF Streaming!FirstFragment, Streaming!Begins, Streaming!Assembled
  <2>2. /\ sent' \in Seq(Nat) /\ Len(sent') = i /\ sent'[i] = m
        /\ \A k \in 1..Len(sent) : sent'[k] = sent[k]
    BY <1>4, <2>1
  <2>3. \A k \in 1..i : sent'[k] <= plan[k]
    BY <1>4, <2>1, <2>2
  <2>4. Sent'
    BY <1>2, <1>3, <2>1, <2>2, <2>3 DEF Sent
  <2>5. [k \in 1..m |-> <<i, k>>] = IF m = 0 THEN <<>> ELSE <<<<i, 1>>>>
    <3>1. CASE m = 0
      BY <3>1
    <3>2. CASE m = 1
      BY <3>2
    <3> QED
      BY <3>1, <3>2
  <2>6. /\ Len(slots') = i /\ slots'[i] = [index |-> i, args |-> [k \in 1..m |-> <<i, k>>]]
        /\ \A k \in 1..Len(slots) : slots'[k] = slots[k]
    <3>1. slots' = Append(slots, [index |-> i, args |-> [k \in 1..m |-> <<i, k>>]])
      BY <2>1, <2>5
    <3> QED
      BY <1>4, <2>1, <3>1
  <2>7. \A k \in 1..i : slots'[k] = [index |-> k, args |-> [f \in 1..sent'[k] |-> <<k, f>>]]
    <3>1. ASSUME NEW k \in 1..i, k # i
          PROVE  slots'[k] = [index |-> k, args |-> [f \in 1..sent'[k] |-> <<k, f>>]]
      <4>1. k \in 1..Len(slots) /\ k \in 1..Len(sent)
        BY <1>4, <2>1, <3>1
      <4>2. slots'[k] = [index |-> k, args |-> Received(k)] /\ sent'[k] = sent[k]
        BY <1>4, <2>2, <2>6, <4>1
      <4> QED
        BY <4>2 DEF Received, Streaming!First
    <3> QED
      BY <2>2, <2>6, <3>1
  <2>8. ManySlots'
    BY <1>2, <1>3, <2>2, <2>6, <2>7 DEF ManySlots, Streaming!Assembled, Received, Streaming!First
  <2> QED
    BY <1>2, <1>5, <2>4, <2>8, PairedOpen DEF Whole
<1>7. CASE Streaming!NextFragment(i)
  <2>1. /\ i \in 1..Len(sent) /\ sent[i] < plan[i] /\ sent' = [sent EXCEPT ![i] = @ + 1]
        /\ slots' = [k \in 1..Len(slots) |->
                        IF slots[k].index = i
                        THEN [index |-> i, args |-> Append(slots[k].args, <<i, sent[i] + 1>>)]
                        ELSE slots[k]]
    BY <1>7 DEF Streaming!NextFragment, Streaming!Continues, Streaming!Assembled
  <2>2. /\ sent' \in Seq(Nat) /\ Len(sent') = Len(sent) /\ sent'[i] = sent[i] + 1
        /\ \A k \in 1..Len(sent) : k # i => sent'[k] = sent[k]
    BY <1>4, <2>1
  <2>3. \A k \in 1..Len(sent) : sent'[k] <= plan[k]
    <3>1. plan[i] \in Nat /\ sent[i] \in Nat
      <4>1. i \in 1..Len(plan)
        BY <1>4, <2>1
      <4>2. plan \in Seq(Nat)
        BY <1>4
      <4>3. plan[i] \in Nat
        BY <4>1, <4>2, NumbersOf
      <4> QED
        BY <1>4, <2>1, <4>3
    <3>2. sent'[i] <= plan[i]
      BY <2>1, <2>2, <3>1
    <3> QED
      BY <1>4, <2>2, <3>2
  <2>4. Sent'
    BY <1>2, <1>3, <2>1, <2>2, <2>3 DEF Sent
  <2>5. Append(Received(i), <<i, sent[i] + 1>>) = [k \in 1..sent'[i] |-> <<i, k>>]
    BY <1>4, <2>1, <2>2 DEF Received, Streaming!First
  <2>6. ASSUME NEW k \in 1..Len(slots)
        PROVE  slots'[k] = [index |-> k, args |-> [f \in 1..sent'[k] |-> <<k, f>>]]
    <3>1. slots[k] = [index |-> k, args |-> Received(k)]
      BY <1>4
    <3>2. CASE k = i
      <4>1. slots'[k] = [index |-> k, args |-> Append(Received(i), <<i, sent[i] + 1>>)]
        <5>1. slots[k].index = i /\ slots[k].args = Received(i)
          BY <3>1, <3>2
        <5>2. slots'[k] = [index |-> i, args |-> Append(slots[k].args, <<i, sent[i] + 1>>)]
          <6> HIDE DEF Received
          <6> QED
            BY <2>1, <5>1
        <5> QED
          BY <3>2, <5>1, <5>2
      <4> QED
        BY <2>5, <3>2, <4>1
    <3>3. CASE k # i
      <4>1. slots'[k] = slots[k]
        BY <2>1, <3>1, <3>3
      <4>2. sent'[k] = sent[k]
        BY <1>4, <2>2, <3>3
      <4> QED
        BY <3>1, <4>1, <4>2 DEF Received, Streaming!First
    <3> QED
      BY <3>2, <3>3
  <2>7. Len(slots') = Len(slots)
    BY <1>4, <2>1
  <2>8. ManySlots'
    BY <1>2, <1>3, <1>4, <2>2, <2>6, <2>7 DEF ManySlots, Streaming!Assembled, Received, Streaming!First
  <2> QED
    BY <1>2, <1>5, <2>4, <2>8, PairedOpen DEF Whole
<1> QED
  BY <1>1, <1>6, <1>7

\* The rest of the events: the stream goes on, stops or raises.
LEMMA EndEvent ==
  ASSUME Whole, wire = "open",
         \/ Streaming!TextDelta \/ Streaming!MessageDelta \/ Streaming!Finish
         \/ Streaming!Refuse \/ Streaming!Cut
  PROVE  Whole'
<1>1. UNCHANGED <<dialect, plan, sent, current, json, slots, request>>
  BY DEF Streaming!TextDelta, Streaming!MessageDelta, Streaming!Finish, Streaming!Refuse,
         Streaming!Cut
<1>2. /\ Sent /\ HandedOn /\ dialect \in {"anthropic", "openai"} /\ out.end = <<>>
      /\ dialect = "anthropic" => OneBlock
      /\ dialect = "openai" => ManySlots
  BY DEF Whole, Sent, HandedOn
<1>3. ASSUME out' = [said |-> out'.said, calls |-> out'.calls, end |-> out'.end],
             wire' \in {"open", "ended", "cut", "raised"}
      PROVE  Sent'
  BY <1>1, <1>2, <1>3 DEF Sent
<1>4. \A k : Received(k)' = Received(k)
  BY <1>1 DEF Received, Streaming!First
<1>5. CASE Streaming!TextDelta
  <2>1. UNCHANGED wire /\ out' = [said |-> TRUE, calls |-> out.calls, end |-> out.end]
    BY <1>2, <1>5 DEF Streaming!TextDelta, Sent
  <2>2. out'.calls = out.calls /\ out'.end = out.end /\ out'.said = TRUE
    BY <2>1
  <2>3. Sent'
    BY <1>2, <1>3, <2>1, <2>2 DEF Sent
  <2>4. (OneBlock => OneBlock') /\ (ManySlots => ManySlots')
    BY <1>1, <1>4, <2>1, <2>2 DEF OneBlock, ManySlots, Streaming!Assembled
  <2>5. HandedOn'
    BY <1>1, <1>2, <2>1, <2>2, HandedStays
  <2> QED
    BY <1>1, <1>2, <2>3, <2>4, <2>5, PairedOpen DEF Whole
<1>6. CASE Streaming!MessageDelta
  <2>1. /\ dialect = "anthropic" /\ wire' = "ended"
        /\ out' = [said |-> out.said, calls |-> out.calls, end |-> out.end \o Streaming!End]
    BY <1>2, <1>6 DEF Streaming!MessageDelta, Sent
  <2>2. out'.calls = out.calls /\ out'.said = out.said /\ out'.end = Streaming!End
    BY <1>2, <2>1 DEF Streaming!End
  <2>3. Sent'
    BY <1>3, <2>1, <2>2
  <2>4. OneBlock /\ OneBlock'
    BY <1>1, <1>2, <1>4, <2>1, <2>2 DEF OneBlock
  <2>5. 1..Len(sent) \subseteq 1..Len(out.calls) \union current
    BY <2>4 DEF OneBlock
  <2>6. HandedOn'
    BY <1>1, <1>2, <1>4, <2>1, <2>2, <2>5 DEF HandedOn, Streaming!Assembled, Streaming!End
  <2> QED
    BY <1>1, <2>1, <2>3, <2>4, <2>6, PairedOpen DEF Whole
<1>7. CASE Streaming!Finish
  <2>1. PICK n \in 0..Len(slots) :
           /\ \A k \in 1..n : Streaming!Parses(slots[k].args)
           /\ out' = [said |-> out.said, calls |-> out.calls \o SubSeq(slots, 1, n),
                      end |-> IF n = Len(slots) THEN out.end \o Streaming!End ELSE out.end]
           /\ wire' = IF n = Len(slots) THEN "ended" ELSE "raised"
    BY <1>7 DEF Streaming!Finish
  <2>2. dialect = "openai" /\ ManySlots /\ out.calls = <<>>
    BY <1>2, <1>7 DEF Streaming!Finish, ManySlots
  <2>3. /\ out' = [said |-> out.said, calls |-> <<>> \o SubSeq(slots, 1, n),
                   end |-> IF n = Len(slots) THEN <<>> \o Streaming!End ELSE <<>>]
    BY <1>2, <2>1, <2>2 DEF Sent
  <2>4. /\ Len(out'.calls) = n /\ \A k \in 1..n : out'.calls[k] = slots[k]
        /\ out'.end = IF wire' = "ended" THEN Streaming!End ELSE <<>>
        /\ out' = [said |-> out'.said, calls |-> out'.calls, end |-> out'.end]
    <3>1. n \in Nat /\ n <= Len(slots)
      BY <2>1
    <3>2. Len(<<>> \o SubSeq(slots, 1, n)) = n
      BY <3>1
    <3>3. \A k \in 1..n : (<<>> \o SubSeq(slots, 1, n))[k] = slots[k]
      BY <3>1
    <3>4. <<>> \o Streaming!End = Streaming!End
      BY DEF Streaming!End
    <3>5. n = Len(slots) <=> wire' = "ended"
      BY <2>1
    <3>6. /\ out'.calls = <<>> \o SubSeq(slots, 1, n)
          /\ out'.end = IF n = Len(slots) THEN <<>> \o Streaming!End ELSE <<>>
          /\ out' = [said |-> out'.said, calls |-> out'.calls, end |-> out'.end]
      BY <2>3
    <3> QED
      BY <3>2, <3>3, <3>4, <3>5, <3>6
  <2>5. Sent'
    BY <1>3, <2>1, <2>4
  <2>6. ManySlots'
    BY <1>1, <1>4, <2>1, <2>2 DEF ManySlots, Streaming!Assembled
  <2>7. ASSUME NEW k \in 1..n
        PROVE  /\ out'.calls[k] = Streaming!Assembled(k, Received(k))
               /\ sent[k] \in {0, plan[k]}
    <3>1. k \in 1..Len(slots) /\ k \in 1..Len(sent)
      BY <2>1, <2>2 DEF ManySlots
    <3>2. slots[k] = Streaming!Assembled(k, Received(k))
      BY <2>2, <3>1 DEF ManySlots
    <3>3. Streaming!Parses(Received(k))
      BY <2>1, <3>2 DEF Streaming!Assembled
    <3> QED
      BY <1>2, <2>4, <3>1, <3>2, <3>3, AllOrNothing
  <2>8. wire' = "ended" => 1..Len(sent) \subseteq 1..n
    BY <2>1, <2>2 DEF ManySlots
  <2>9. HandedOn'
    BY <1>1, <1>4, <2>4, <2>7, <2>8 DEF HandedOn, Streaming!Assembled, Streaming!End
  <2> QED
    BY <1>1, <2>1, <2>2, <2>5, <2>6, <2>9, PairedOpen DEF Whole
<1>8. CASE Streaming!Refuse \/ Streaming!Cut
  <2>1. UNCHANGED out /\ wire' \in {"cut", "raised"}
    <3>1. CASE Streaming!Refuse
      BY <3>1 DEF Streaming!Refuse
    <3>2. CASE Streaming!Cut
      BY <3>2 DEF Streaming!Cut
    <3> QED
      BY <1>8, <3>1, <3>2
  <2>2. Sent'
    BY <1>2, <1>3, <2>1 DEF Sent
  <2>3. (OneBlock => OneBlock') /\ (ManySlots => ManySlots')
    BY <1>1, <1>4, <2>1 DEF OneBlock, ManySlots, Streaming!Assembled
  <2>4. HandedOn'
    BY <1>1, <1>2, <2>1, HandedStays
  <2> QED
    BY <1>1, <1>2, <2>1, <2>2, <2>3, <2>4, PairedOpen DEF Whole
<1> QED
  BY <1>5, <1>6, <1>7, <1>8

LEMMA WholeStep == Whole /\ [Next]_vars => Whole'
<1> SUFFICES ASSUME Whole, [Next]_vars PROVE Whole'
  OBVIOUS
<1>1. CASE Streaming!NextRequest
  <2>1. wire # "open" /\ UNCHANGED <<dialect, plan, sent, current, json, slots, out, wire>>
    BY <1>1 DEF Streaming!NextRequest
  <2>2. Sent' /\ (OneBlock => OneBlock') /\ (ManySlots => ManySlots') /\ HandedOn'
    BY <2>1 DEF Whole, Sent, OneBlock, ManySlots, HandedOn, Received, Streaming!First,
                Streaming!Assembled
  <2> QED
    BY <1>1, <2>1, <2>2, PairedNext DEF Whole
<1>2. CASE UNCHANGED streamVars
  <2>1. UNCHANGED <<dialect, plan, sent, current, json, slots, out, wire, request>>
    BY <1>2 DEF streamVars
  <2>0. UNCHANGED Streaming!Kept
    BY <2>1 DEF Streaming!Kept
  <2>2. /\ (Sent => Sent') /\ (OneBlock => OneBlock') /\ (ManySlots => ManySlots')
        /\ (HandedOn => HandedOn')
    BY <2>1 DEF Sent, OneBlock, ManySlots, HandedOn, Received, Streaming!First,
                Streaming!Assembled
  <2>3. Paired => Paired'
    <3> SUFFICES ASSUME Paired, request # <<>> PROVE Paired'
      BY <2>1 DEF Paired
    <3>1. PICK a \in 1..Len(request) :
             /\ Streaming!Told("call", LAMBDA k : <<a, Len(request[a].parts) - Len(Streaming!Kept) + k>>)
             /\ \/ Streaming!Told("result", LAMBDA k : <<a + 1, k>>)
                \/ Streaming!Told("result", LAMBDA k : <<a + k, 1>>)
      BY DEF Paired, Streaming!Told
    <3> DEFINE b == Len(request[a].parts) - Len(Streaming!Kept)
    <3>2. Streaming!Told("call", LAMBDA k : <<a, Len(request[a].parts) - Len(Streaming!Kept) + k>>)'
      <4>1. \A e \in 1..Len(request) : \A p \in 1..Len(request[e].parts) :
               request[e].parts[p][1] = "call" => \E k \in 1..Len(Streaming!Kept) : <<a, b + k>> = <<e, p>>
        BY <3>1 DEF Streaming!Told
      <4>2. \A k \in 1..Len(Streaming!Kept) :
               \E e \in 1..Len(request) : \E p \in 1..Len(request[e].parts) :
                  <<a, b + k>> = <<e, p>> /\ request[e].parts[p] = <<"call", Streaming!Kept[k].index>>
        BY <3>1 DEF Streaming!Told
      <4>3. Len(request'[a].parts) - Len(Streaming!Kept') = b
        BY <2>0, <2>1
      <4> HIDE DEF b
      <4>4. \A e \in 1..Len(request') : \A p \in 1..Len(request'[e].parts) :
               request'[e].parts[p][1] = "call" => \E k \in 1..Len(Streaming!Kept') : <<a, b + k>> = <<e, p>>
        BY <2>0, <2>1, <4>1
      <4>5. \A k \in 1..Len(Streaming!Kept') :
               \E e \in 1..Len(request') : \E p \in 1..Len(request'[e].parts) :
                  <<a, b + k>> = <<e, p>> /\ request'[e].parts[p] = <<"call", Streaming!Kept'[k].index>>
        BY <2>0, <2>1, <4>2
      <4> QED
        BY <4>3, <4>4, <4>5 DEF Streaming!Told
    <3> HIDE DEF b
    <3>3. CASE Streaming!Told("result", LAMBDA k : <<a + 1, k>>)
      <4>1. \A e \in 1..Len(request) : \A p \in 1..Len(request[e].parts) :
               request[e].parts[p][1] = "result" => \E k \in 1..Len(Streaming!Kept) : <<a + 1, k>> = <<e, p>>
        BY <3>3 DEF Streaming!Told
      <4>2. \A k \in 1..Len(Streaming!Kept) :
               \E e \in 1..Len(request) : \E p \in 1..Len(request[e].parts) :
                  <<a + 1, k>> = <<e, p>> /\ request[e].parts[p] = <<"result", Streaming!Kept[k].index>>
        BY <3>3 DEF Streaming!Told
      <4>3. Streaming!Told("result", LAMBDA k : <<a + 1, k>>)'
        BY <2>0, <2>1, <4>1, <4>2 DEF Streaming!Told
      <4> QED
        BY <2>1, <3>2, <4>3 DEF Paired, Streaming!Told
    <3>4. CASE Streaming!Told("result", LAMBDA k : <<a + k, 1>>)
      <4>1. \A e \in 1..Len(request) : \A p \in 1..Len(request[e].parts) :
               request[e].parts[p][1] = "result" => \E k \in 1..Len(Streaming!Kept) : <<a + k, 1>> = <<e, p>>
        BY <3>4 DEF Streaming!Told
      <4>2. \A k \in 1..Len(Streaming!Kept) :
               \E e \in 1..Len(request) : \E p \in 1..Len(request[e].parts) :
                  <<a + k, 1>> = <<e, p>> /\ request[e].parts[p] = <<"result", Streaming!Kept[k].index>>
        BY <3>4 DEF Streaming!Told
      <4>3. Streaming!Told("result", LAMBDA k : <<a + k, 1>>)'
        BY <2>0, <2>1, <4>1, <4>2 DEF Streaming!Told
      <4> QED
        BY <2>1, <3>2, <4>3 DEF Paired, Streaming!Told
    <3> QED
      BY <3>1, <3>3, <3>4 DEF Streaming!Told
  <2> QED
    BY <2>1, <2>2, <2>3 DEF Whole
<1>3. CASE Streaming!Next
  <2>1. CASE \E i \in 1..MaxCalls : \/ Streaming!BlockStart(i) \/ Streaming!JsonDelta(i)
                                    \/ Streaming!BlockStop(i)
    <3>1. wire = "open"
      BY <2>1 DEF Streaming!BlockStart, Streaming!JsonDelta, Streaming!BlockStop,
                  Streaming!Begins, Streaming!Continues
    <3> QED
      BY <2>1, <3>1, AnthropicEvent
  <2>2. CASE \E i \in 1..MaxCalls : Streaming!FirstFragment(i) \/ Streaming!NextFragment(i)
    <3>1. wire = "open"
      BY <2>2 DEF Streaming!FirstFragment, Streaming!NextFragment, Streaming!Begins,
                  Streaming!Continues
    <3> QED
      BY <2>2, <3>1, OpenAiEvent
  <2>3. CASE \/ Streaming!TextDelta \/ Streaming!MessageDelta \/ Streaming!Finish
             \/ Streaming!Refuse \/ Streaming!Cut
    <3>1. wire = "open"
      BY <2>3 DEF Streaming!TextDelta, Streaming!MessageDelta, Streaming!Finish,
                  Streaming!Refuse, Streaming!Cut
    <3> QED
      BY <2>3, <3>1, EndEvent
  <2> QED
    BY <1>1, <1>3, <2>1, <2>2, <2>3 DEF Streaming!Next
<1> QED
  BY <1>2, <1>3 DEF Next, vars, streamVars

\* However the fragments of any number of calls interleave and wherever the response
\* stops, a call handed on has all of its arguments, or none when the response stopped
\* before the first of them, and never part of them or another's; in the next request
\* each call of an answer is told with one result of its own: the streams of
\* anthropic.py and openai_compat.py.
THEOREM CallsStayWhole == Spec => []CallsAreWhole
<1>1. Whole => CallsAreWhole
  BY DEF Whole, HandedOn, Received, Paired, CallsAreWhole, Streaming!CallsAreWhole
<1> QED
  BY <1>1, WholeFirst, WholeStep, PTL DEF Spec
=============================================================================
