--------------------------- MODULE Gateway_proofs ---------------------------
(***************************************************************************)
(* The gateway and its agent loop, for any number of receivers, users and  *)
(* messages: the types, well-formed requests, one call for one yes, and    *)
(* the budget that concurrent turns share.                                 *)
(***************************************************************************)
EXTENDS Gateway, FiniteSetTheorems, SequenceTheorems, TLAPS

Turns == [pc : {"off", "check", "stream", "tools", "approve", "over"},
          of : SUBSET Session, calls : Seq(Call), asked : Nat, counted : BOOLEAN]
Messages == [role : {"none", "user", "assistant", "tool"}, n : Nat]
Histories == [last : Messages, sound : BOOLEAN]
Uses == [iterations : Nat, tokens : Nat]

Sane(x) == /\ x.pc = "off" <=> x.of = {}
           /\ Cardinality(x.of) <= 1
           /\ x.pc \in {"tools", "approve"} <=> x.calls # <<>>

LEMMA LoopParts ==
  LoopTypeOK <=> /\ turn \in [Turn -> Turns] /\ \A t \in Turn : Sane(turn[t])
                 /\ history \in [Session -> Histories]
                 /\ used \in [Session -> Uses]
  BY DEF LoopTypeOK, Turns, Sane, Histories, Messages, Uses

\* One activation of run_turn changes its own record.
LEMMA TurnSet ==
  ASSUME LoopTypeOK, NEW t \in Turn, NEW x \in Turns, Sane(x),
         turn' = [turn EXCEPT ![t] = x],
         history' \in [Session -> Histories], used' \in [Session -> Uses]
  PROVE  /\ LoopTypeOK'
         /\ turn'[t] = x
         /\ \A q \in Turn \ {t} : turn'[q] = turn[q]
<1>1. turn \in [Turn -> Turns] /\ \A q \in Turn : Sane(turn[q])
  BY LoopParts
<1>2. /\ turn' \in [Turn -> Turns] /\ turn'[t] = x
      /\ \A q \in Turn \ {t} : turn'[q] = turn[q]
  BY <1>1
<1>3. \A q \in Turn : Sane(turn'[q])
  BY <1>1, <1>2
<1>4. /\ history' \in [Session -> [last : [role : {"none", "user", "assistant", "tool"},
                                           n : Nat], sound : BOOLEAN]]
      /\ used' \in [Session -> [iterations : Nat, tokens : Nat]]
  BY DEF Histories, Messages, Uses
<1> QED
  BY <1>2, <1>3, <1>4 DEF LoopTypeOK, Turns, Sane

LEMMA SaysType ==
  ASSUME history \in [Session -> Histories], NEW s \in Session,
         NEW message \in Messages, Says(s, message)
  PROVE  /\ history' \in [Session -> Histories]
         /\ history'[s].last = message
         /\ history[s].sound /\ Follows(message, history[s].last) => history'[s].sound
         /\ \A u \in Session \ {s} : history'[u] = history[u]
<1> DEFINE new == [last |-> message,
                   sound |-> history[s].sound /\ Follows(message, history[s].last)]
<1>1. new \in Histories
  BY DEF Histories
<1>2. history' = [history EXCEPT ![s] = new]
  BY DEF Says
<1>3. new.last = message
  OBVIOUS
<1>4. history[s].sound /\ Follows(message, history[s].last) => new.sound
  OBVIOUS
<1> HIDE DEF new
<1> QED
  BY <1>1, <1>2, <1>3, <1>4

LEMMA RecordType ==
  ASSUME used \in [Session -> Uses], NEW s \in Session, NEW tokens \in Spend,
         Record(s, tokens)
  PROVE  /\ used' \in [Session -> Uses]
         /\ used'[s].iterations = used[s].iterations + 1
         /\ \A u \in Session \ {s} : used'[u] = used[u]
<1> DEFINE new == [used[s] EXCEPT !.iterations = @ + 1, !.tokens = @ + tokens]
<1>1. used[s] \in Uses /\ tokens \in Nat
  BY LoopAssumption
<1>2. /\ used[s].iterations + 1 \in Nat /\ used[s].tokens + tokens \in Nat
      /\ used[s] = [iterations |-> used[s].iterations, tokens |-> used[s].tokens]
  BY <1>1 DEF Uses
<1>4. new \in Uses /\ new.iterations = used[s].iterations + 1
  BY <1>2 DEF Uses
<1>3. used' = [used EXCEPT ![s] = new]
  BY DEF Record
<1> HIDE DEF new
<1> QED
  BY <1>3, <1>4

LEMMA Owner ==
  ASSUME NEW s \in Session
  PROVE  /\ Cardinality({s}) <= 1 /\ {s} # {} /\ {s} \in SUBSET Session
         /\ Cardinality({}) <= 1
  BY FS_Singleton, FS_EmptySet

\* A turn of s is somewhere: what it does there leaves the rest of the loop alone.
MovesTo(t, s, pc) ==
    /\ LoopTypeOK'
    /\ turn'[t].pc = pc /\ turn'[t].of = {s}
    /\ \A q \in Turn \ {t} : turn'[q] = turn[q]
    /\ \A u \in Session \ {s} : history'[u] = history[u] /\ used'[u] = used[u]

LEMMA NoTurnType ==
  /\ NoTurn \in Turns /\ Sane(NoTurn)
  /\ NoTurn.pc = "off" /\ NoTurn.of = {} /\ NoTurn.calls = <<>>
<1>1. <<>> \in Seq(Call) /\ {} \in SUBSET Session
  OBVIOUS
<1>2. NoTurn.pc = "off" /\ NoTurn.of = {} /\ NoTurn.calls = <<>>
  BY DEF NoTurn
<1>3. NoTurn \in Turns
  BY <1>1 DEF NoTurn, Turns
<1> QED
  BY <1>2, <1>3, FS_EmptySet DEF Sane

LEMMA BeginMoves ==
  ASSUME LoopTypeOK, NEW t \in Turn, NEW s \in Session, Begin(t, s)
  PROVE  /\ MovesTo(t, s, "check") /\ used' = used
         /\ history'[s].last = Message("user", 0)
         /\ history[s].sound /\ ~Asks(history[s].last) => history'[s].sound
<1> DEFINE x == [NoTurn EXCEPT !.pc = "check", !.of = {s}]
<1>1. NoTurn \in Turns
  BY NoTurnType
<1>2. x \in Turns /\ Sane(x) /\ x.pc = "check" /\ x.of = {s}
  BY <1>1, Owner, NoTurnType DEF Turns, Sane
<1>3. turn' = [turn EXCEPT ![t] = x] /\ Says(s, Message("user", 0)) /\ used' = used
  BY DEF Begin
<1> HIDE DEF x
<1>4. Message("user", 0) \in Messages
  BY DEF Message, Messages
<1>5. ~Asks(history[s].last) => Follows(Message("user", 0), history[s].last)
  BY DEF Follows, Message
<1> QED
  BY <1>2, <1>3, <1>4, <1>5, SaysType, TurnSet, LoopParts DEF MovesTo

LEMMA Gone ==
  ASSUME LoopTypeOK, NEW t \in Turn, NEW s \in Session, turn[t].of = {s},
         NEW pc \in {"check", "stream", "over"}, turn[t].calls = <<>>, Goes(t, pc),
         history' \in [Session -> Histories], used' \in [Session -> Uses],
         \A u \in Session \ {s} : history'[u] = history[u] /\ used'[u] = used[u]
  PROVE  MovesTo(t, s, pc)
<1> DEFINE x == [turn[t] EXCEPT !.pc = pc]
<1>1. turn[t] \in Turns
  BY LoopParts
<1>2. x \in Turns /\ Sane(x) /\ x.pc = pc /\ x.of = {s}
  BY <1>1, Owner DEF Turns, Sane
<1>3. turn' = [turn EXCEPT ![t] = x]
  BY DEF Goes
<1> HIDE DEF x
<1> QED
  BY <1>2, <1>3, TurnSet DEF MovesTo

LEMMA SpendNothingMoves ==
  ASSUME LoopTypeOK, NEW t \in Turn, NEW s \in Session, SpendNothing(t, s)
  PROVE  /\ MovesTo(t, s, "over") /\ used' = used /\ turn[t].of = {s}
         /\ turn[t].pc = "check"
         /\ history'[s].last = Message("assistant", 0)
         /\ history[s].sound /\ ~Asks(history[s].last) => history'[s].sound
<1>1. /\ turn[t].pc = "check" /\ turn[t].of = {s} /\ Goes(t, "over") /\ used' = used
      /\ Says(s, Message("assistant", 0))
  BY DEF SpendNothing
<1>2. turn[t].calls = <<>>
  BY <1>1, LoopParts DEF Sane
<1>3. Message("assistant", 0) \in Messages
  BY DEF Message, Messages
<1>4. ~Asks(history[s].last) => Follows(Message("assistant", 0), history[s].last)
  BY DEF Follows, Message
<1> QED
  BY <1>1, <1>2, <1>3, <1>4, SaysType, Gone, LoopParts

LEMMA RequestMoves ==
  ASSUME LoopTypeOK, NEW t \in Turn, NEW s \in Session, Request(t, s)
  PROVE  /\ MovesTo(t, s, "stream") /\ UNCHANGED <<history, used>>
         /\ turn[t].of = {s} /\ turn[t].pc = "check"
         /\ used[s].iterations < MaxIterations
<1>1. /\ turn[t].pc = "check" /\ turn[t].of = {s} /\ Goes(t, "stream")
      /\ UNCHANGED <<history, used>> /\ ~Exhausted(s)
  BY DEF Request
<1>2. turn[t].calls = <<>> /\ used[s] \in Uses
  BY <1>1, LoopParts DEF Sane
<1>3. used[s].iterations < MaxIterations
  BY <1>1, <1>2, LoopAssumption DEF Exhausted, Uses
<1> QED
  BY <1>1, <1>2, <1>3, Gone, LoopParts

LEMMA AnswerMoves ==
  ASSUME LoopTypeOK, NEW t \in Turn, NEW s \in Session, NEW calls \in Reply,
         Answer(t, s, calls)
  PROVE  /\ turn[t].pc = "stream" /\ turn[t].of = {s}
         /\ MovesTo(t, s, IF calls = <<>> THEN "over" ELSE "tools")
         /\ turn'[t].asked = Len(calls)
         /\ used'[s].iterations \in {used[s].iterations, used[s].iterations + 1}
         /\ history'[s].last = Message("assistant", Len(calls))
         /\ history[s].sound /\ ~Asks(history[s].last) => history'[s].sound
<1> DEFINE pc == IF calls = <<>> THEN "over" ELSE "tools"
<1>1. turn[t].pc = "stream" /\ turn[t].of = {s} /\ Says(s, Message("assistant", Len(calls)))
  BY DEF Answer
<1>2. PICK counted \in BOOLEAN :
         /\ IF counted THEN \E tokens \in Spend : Record(s, tokens) ELSE UNCHANGED used
         /\ turn' = [turn EXCEPT ![t].calls = calls, ![t].asked = Len(calls),
                                 ![t].counted = counted \/ calls = <<>>, ![t].pc = pc]
  BY DEF Answer
<1> DEFINE known == counted \/ calls = <<>>
           x == [turn[t] EXCEPT !.calls = calls, !.asked = Len(calls),
                                !.counted = known, !.pc = pc]
<1>3. /\ calls \in Seq(Call) /\ Len(calls) \in Nat
      /\ calls = <<>> <=> Len(calls) = 0
      /\ known \in BOOLEAN
      /\ pc \in {"over", "tools"}
      /\ pc = "tools" <=> calls # <<>>
  BY LoopAssumption
<1>4. turn[t] \in Turns
  BY LoopParts
<1>5. turn' = [turn EXCEPT ![t] = x]
  BY <1>2
<1> HIDE DEF pc, known
<1>6. /\ x \in Turns /\ x.pc = pc /\ x.of = {s} /\ x.calls = calls /\ x.asked = Len(calls)
  BY <1>1, <1>3, <1>4 DEF Turns
<1>7. Sane(x)
  BY <1>3, <1>6, Owner DEF Sane
<1>8. /\ used' \in [Session -> Uses]
      /\ used'[s].iterations \in {used[s].iterations, used[s].iterations + 1}
      /\ \A u \in Session \ {s} : used'[u] = used[u]
  BY <1>2, RecordType, LoopParts
<1>9. Message("assistant", Len(calls)) \in Messages
  BY <1>3 DEF Message, Messages
<1>10. ~Asks(history[s].last) => Follows(Message("assistant", Len(calls)), history[s].last)
  BY DEF Follows, Message
<1> HIDE DEF x
<1>11. /\ history' \in [Session -> Histories]
       /\ history'[s].last = Message("assistant", Len(calls))
       /\ history[s].sound /\ ~Asks(history[s].last) => history'[s].sound
       /\ \A u \in Session \ {s} : history'[u] = history[u]
  BY <1>1, <1>9, <1>10, SaysType, LoopParts
<1>12. LoopTypeOK' /\ turn'[t] = x /\ \A q \in Turn \ {t} : turn'[q] = turn[q]
  BY <1>5, <1>6, <1>7, <1>8, <1>11, TurnSet
<1>13. MovesTo(t, s, pc)
  BY <1>6, <1>8, <1>11, <1>12 DEF MovesTo
<1> QED
  BY <1>1, <1>3, <1>6, <1>8, <1>11, <1>12, <1>13 DEF pc

LEMMA ResultMoves ==
  ASSUME LoopTypeOK, NEW t \in Turn, NEW s \in Session, turn[t].of = {s},
         turn[t].pc \in {"tools", "approve"}, Result(t, s)
  PROVE  /\ used' = used
         /\ \/ /\ MovesTo(t, s, "check")
               /\ history'[s].last = Message("tool", turn[t].asked)
               /\ /\ history[s].sound /\ Asks(history[s].last)
                  /\ history[s].last = Message("assistant", turn[t].asked)
                  => history'[s].sound
            \/ /\ MovesTo(t, s, "tools") /\ turn'[t].asked = turn[t].asked
               /\ history' = history
<1> DEFINE left == Tail(turn[t].calls)
           x == [turn[t] EXCEPT !.calls = left,
                                !.asked = IF left = <<>> THEN 0 ELSE @,
                                !.counted = @ \/ left = <<>>,
                                !.pc = IF left = <<>> THEN "check" ELSE "tools"]
<1>1. /\ turn' = [turn EXCEPT ![t] = x] /\ used' = used
      /\ IF left = <<>> THEN Says(s, Message("tool", turn[t].asked)) ELSE UNCHANGED history
  BY DEF Result
<1>2. turn[t] \in Turns /\ turn[t].calls \in Seq(Call) /\ turn[t].calls # <<>>
  <2>1. turn[t] \in Turns /\ Sane(turn[t])
    BY LoopParts
  <2> QED
    BY <2>1 DEF Turns, Sane
<1>3. left \in Seq(Call) /\ turn[t].asked \in Nat /\ (turn[t].counted \/ left = <<>>) \in BOOLEAN
  <2>1. left \in Seq(Call)
    BY <1>2
  <2> QED
    BY <1>2, <2>1 DEF Turns
<1> HIDE DEF left
<1>4. /\ x \in Turns /\ x.of = {s} /\ x.calls = left
      /\ left = <<>> => x.pc = "check"
      /\ left # <<>> => x.pc = "tools" /\ x.asked = turn[t].asked
  BY <1>2, <1>3 DEF Turns
<1>5. Sane(x)
  BY <1>4, Owner DEF Sane
<1> HIDE DEF x
<1>6. CASE left = <<>>
  <2>1. Message("tool", turn[t].asked) \in Messages
    BY <1>3 DEF Message, Messages
  <2>2. Asks(history[s].last) /\ history[s].last = Message("assistant", turn[t].asked)
           => Follows(Message("tool", turn[t].asked), history[s].last)
    BY DEF Follows, Message
  <2>3. /\ history' \in [Session -> Histories]
        /\ history'[s].last = Message("tool", turn[t].asked)
        /\ history[s].sound /\ Follows(Message("tool", turn[t].asked), history[s].last)
              => history'[s].sound
        /\ \A u \in Session \ {s} : history'[u] = history[u]
    BY <1>1, <1>6, <2>1, SaysType, LoopParts
  <2>4. LoopTypeOK' /\ turn'[t] = x /\ \A q \in Turn \ {t} : turn'[q] = turn[q]
    BY <1>1, <1>4, <1>5, <2>3, TurnSet, LoopParts
  <2>5. MovesTo(t, s, "check")
    BY <1>1, <1>4, <1>6, <2>3, <2>4 DEF MovesTo
  <2> QED
    BY <1>1, <2>2, <2>3, <2>5
<1>7. CASE left # <<>>
  <2>1. LoopTypeOK' /\ turn'[t] = x /\ \A q \in Turn \ {t} : turn'[q] = turn[q]
    BY <1>1, <1>4, <1>5, <1>7, TurnSet, LoopParts
  <2>2. MovesTo(t, s, "tools")
    BY <1>1, <1>4, <1>7, <2>1 DEF MovesTo
  <2> QED
    BY <1>1, <1>4, <1>7, <2>1, <2>2
<1> QED
  BY <1>6, <1>7

LEMMA SeekMoves ==
  ASSUME LoopTypeOK, NEW t \in Turn, NEW s \in Session, turn[t].of = {s},
         SeekApproval(t)
  PROVE  /\ MovesTo(t, s, "approve") /\ UNCHANGED <<history, used>>
         /\ turn[t].pc = "tools" /\ turn'[t].asked = turn[t].asked
<1> DEFINE x == [turn[t] EXCEPT !.pc = "approve"]
<1>1. turn' = [turn EXCEPT ![t] = x] /\ turn[t].pc = "tools" /\ UNCHANGED <<history, used>>
  BY DEF SeekApproval, Goes
<1>2. turn[t] \in Turns /\ Sane(turn[t])
  BY LoopParts
<1>3. x \in Turns /\ Sane(x) /\ x.pc = "approve" /\ x.of = {s} /\ x.asked = turn[t].asked
  BY <1>1, <1>2 DEF Turns, Sane
<1> HIDE DEF x
<1> QED
  BY <1>1, <1>3, TurnSet, LoopParts DEF MovesTo

\* A turn is gone: its answer sent, or an exception raised out of it.
LEMMA EndMoves ==
  ASSUME LoopTypeOK, NEW t \in Turn, turn' = [turn EXCEPT ![t] = NoTurn],
         history' \in [Session -> Histories], used' \in [Session -> Uses]
  PROVE  /\ LoopTypeOK' /\ turn'[t] = NoTurn
         /\ \A q \in Turn \ {t} : turn'[q] = turn[q]
  BY NoTurnType, TurnSet

LEMMA RaisesMoves ==
  ASSUME LoopTypeOK, NEW t \in Turn, NEW s \in Session, Raises(t, s)
  PROVE  /\ LoopTypeOK' /\ turn'[t] = NoTurn /\ history' = history
         /\ turn[t].of = {s}
         /\ \A q \in Turn \ {t} : turn'[q] = turn[q]
         /\ \A u \in Session \ {s} : used'[u] = used[u]
         /\ \/ used' = used
            \/ turn[t].pc = "stream" /\ used'[s].iterations = used[s].iterations + 1
<1>1. /\ turn[t].of = {s} /\ turn' = [turn EXCEPT ![t] = NoTurn] /\ UNCHANGED history
      /\ \/ UNCHANGED used
         \/ turn[t].pc = "stream" /\ \E tokens \in Spend : Record(s, tokens)
  BY DEF Raises
<1>2. /\ used' \in [Session -> Uses]
      /\ \A u \in Session \ {s} : used'[u] = used[u]
      /\ \/ used' = used
         \/ turn[t].pc = "stream" /\ used'[s].iterations = used[s].iterations + 1
  BY <1>1, RecordType, LoopParts
<1> QED
  BY <1>1, <1>2, EndMoves, LoopParts

LEMMA AsideMoves ==
  ASSUME LoopTypeOK, NEW t \in Turn, NEW s \in Session, turn[t].pc = "off",
         turn' = [turn EXCEPT ![t].pc = "over", ![t].of = {s}],
         UNCHANGED <<history, used>>
  PROVE  MovesTo(t, s, "over")
<1> DEFINE x == [turn[t] EXCEPT !.pc = "over", !.of = {s}]
<1>1. turn[t] \in Turns /\ turn[t].calls = <<>>
  BY LoopParts DEF Sane
<1>2. x \in Turns /\ x.pc = "over" /\ x.of = {s} /\ x.calls = <<>>
  BY <1>1, Owner DEF Turns
<1>3. Sane(x)
  BY <1>2, Owner DEF Sane
<1>4. turn' = [turn EXCEPT ![t] = x]
  OBVIOUS
<1> HIDE DEF x
<1> QED
  BY <1>2, <1>3, <1>4, TurnSet, LoopParts DEF MovesTo

-----------------------------------------------------------------------------
(* The shape of the gateway's state *)

Working(r) == rcv[r].pc \in {"handle", "asking", "waiting"}
Rcvs == [pc : {"off", "get", "handle", "asking", "waiting", "dead"},
         msg : 0..Len(sent), answer : 0..Len(sent)]

\* A receiver's turn is where the receiver is, and of the user it handles.
Fits(r) == /\ rcv[r].pc \in {"off", "get", "dead"} <=> turn[r].pc = "off"
           /\ rcv[r].pc \in {"asking", "waiting"} => turn[r].pc = "approve"
           /\ Working(r) => rcv[r].msg # 0 /\ turn[r].of = {Of(r)}

SentOK == sent \in Seq([user : User, text : Text, during : BOOLEAN])
QueueOK == /\ queue \in Seq(1..Len(sent)) /\ batch \in Nat /\ next \in Nat
           /\ batch <= Len(queue) /\ next <= batch
           /\ kind # "telegram" => batch = 0
RecordsOK == /\ resent \in Nat /\ crashes \in Nat /\ paired \subseteq User
             /\ taken \subseteq 1..Len(sent) /\ tasks \subseteq 1..Len(sent)
             /\ disturbed \subseteq User
             /\ allowed \in Seq([user : User, by : 1..Len(sent)])
RcvOK == rcv \in [Receiver -> Rcvs] /\ \A r \in Receiver : Fits(r)
WaiterOK == /\ waiter \in [User -> SUBSET Receiver]
            /\ \A u \in User : \A r \in waiter[u] : rcv[r].pc = "waiting" /\ Of(r) = u
\* Telegram and Discord have one task, start() itself.
ServerOK == /\ server \in {"up", "down", "over"}
            /\ kind \notin Webhook =>
                  /\ server # "up" => \A r \in Receiver : rcv[r].pc = "off"
                  /\ \A r, q \in Receiver : rcv[r].pc # "off" /\ rcv[q].pc # "off" => r = q

Held == /\ LoopTypeOK /\ SentOK /\ QueueOK /\ RecordsOK /\ RcvOK /\ WaiterOK /\ ServerOK

LEMMA HeldIsTyped == Held => TypeOK
<1> SUFFICES ASSUME Held PROVE TypeOK
  OBVIOUS
<1> DEFINE on == {r \in Receiver : rcv[r].pc # "off"}
<1>1. kind \notin Webhook => Cardinality(on) <= 1
  <2> SUFFICES ASSUME kind \notin Webhook PROVE Cardinality(on) <= 1
    OBVIOUS
  <2>1. \A r, q \in on : r = q
    BY DEF Held, ServerOK
  <2>2. CASE on = {}
    BY <2>2, FS_EmptySet
  <2>3. CASE on # {}
    <3>1. PICK r \in on : TRUE
      BY <2>3
    <3>2. on = {r}
      BY <2>1, <3>1
    <3> HIDE DEF on
    <3> QED
      BY <3>2, FS_Singleton
  <2> QED
    BY <2>2, <2>3
<1> HIDE DEF on
<1> QED
  BY <1>1 DEF Held, SentOK, QueueOK, RecordsOK, RcvOK, WaiterOK, ServerOK, Fits, Rcvs,
     TypeOK, on

\* Messages keep their numbers when one more is sent.
LEMMA SeqGrows ==
  ASSUME NEW S, NEW T, S \subseteq T, NEW q \in Seq(S)
  PROVE  q \in Seq(T)
<1>1. Len(q) \in Nat /\ q \in [1..Len(q) -> S]
  OBVIOUS
<1>2. q \in [1..Len(q) -> T]
  BY <1>1
<1> QED
  BY <1>1, <1>2

\* Whom a receiver at work is working for.
LEMMA OfType ==
  ASSUME Held, NEW r \in Receiver, Working(r)
  PROVE  /\ rcv[r].msg \in 1..Len(sent) /\ Of(r) \in User
         /\ turn[r].of = {Of(r)} /\ turn[r].pc # "off"
<1>1. /\ rcv[r] \in Rcvs /\ rcv[r].msg # 0 /\ turn[r].of = {Of(r)}
      /\ turn[r].pc # "off" /\ Len(sent) \in Nat
  BY DEF Held, RcvOK, Fits, SentOK, Working
<1>2. rcv[r].msg \in 1..Len(sent)
  BY <1>1 DEF Rcvs
<1>3. sent[rcv[r].msg] \in [user : User, text : Text, during : BOOLEAN]
  BY <1>2, ElementOfSeq DEF Held, SentOK
<1> QED
  BY <1>1, <1>2, <1>3 DEF Of

\* One receiver's record changes.
LEMMA RcvSet ==
  ASSUME Held, NEW r \in Receiver, NEW x \in Rcvs, rcv' = [rcv EXCEPT ![r] = x],
         UNCHANGED sent, \A q \in Turn \ {r} : turn'[q] = turn[q],
         x.pc \in {"off", "get", "dead"} <=> turn'[r].pc = "off",
         x.pc \in {"asking", "waiting"} => turn'[r].pc = "approve",
         x.pc \in {"handle", "asking", "waiting"} =>
             x.msg # 0 /\ turn'[r].of = {sent[x.msg].user}
  PROVE  /\ RcvOK' /\ rcv'[r] = x
         /\ \A q \in Receiver \ {r} : rcv'[q] = rcv[q]
<1>1. rcv \in [Receiver -> Rcvs] /\ \A q \in Receiver : Fits(q)
  BY DEF Held, RcvOK
<1>2. /\ rcv' \in [Receiver -> Rcvs] /\ rcv'[r] = x
      /\ \A q \in Receiver \ {r} : rcv'[q] = rcv[q]
  BY <1>1
<1>3. Fits(r)'
  BY <1>2 DEF Fits, Working, Of
<1>4. ASSUME NEW q \in Receiver \ {r} PROVE Fits(q)'
  BY <1>1, <1>2, <1>4 DEF Fits, Working, Of, Receiver
<1>5. rcv' \in [Receiver -> Rcvs']
  BY <1>2 DEF Rcvs
<1> QED
  BY <1>2, <1>3, <1>4, <1>5 DEF RcvOK

\* A receiver that is on and stays on, and that nobody's answer is waited for by.
LEMMA WorkHeld ==
  ASSUME Held, NEW r \in Receiver, NEW x \in Rcvs, rcv' = [rcv EXCEPT ![r] = x],
         UNCHANGED <<kind, sent, server>>, LoopTypeOK',
         \A q \in Turn \ {r} : turn'[q] = turn[q],
         x.pc \in {"off", "get", "dead"} <=> turn'[r].pc = "off",
         x.pc \in {"asking", "waiting"} => turn'[r].pc = "approve",
         x.pc \in {"handle", "asking", "waiting"} =>
             x.msg # 0 /\ turn'[r].of = {sent[x.msg].user},
         rcv[r].pc # "off", x.pc # "off",
         QueueOK', RecordsOK', WaiterOK'
  PROVE  Held'
<1>1. RcvOK' /\ rcv'[r] = x /\ \A q \in Receiver \ {r} : rcv'[q] = rcv[q]
  BY RcvSet
<1>2. ServerOK'
  BY <1>1 DEF Held, ServerOK
<1> QED
  BY <1>1, <1>2 DEF Held, SentOK

LEMMA WaitersStay ==
  ASSUME Held, NEW r \in Receiver, rcv[r].pc # "waiting", UNCHANGED <<sent, waiter>>,
         \A q \in Receiver \ {r} : rcv'[q] = rcv[q]
  PROVE  WaiterOK'
<1>1. \A u \in User : waiter[u] \subseteq Receiver \ {r}
  BY DEF Held, WaiterOK
<1> QED
  BY <1>1 DEF Held, WaiterOK, Of

\* A receiver at work goes on in its turn.
LEMMA TurnHeld ==
  ASSUME Held, NEW r \in Receiver, rcv[r].pc = "handle", UNCHANGED <<rest, rcv, waiter>>,
         UNCHANGED historyVars, NEW pc, pc # "off", MovesTo(r, Of(r), pc)
  PROVE  Held'
<1>1. /\ Working(r) /\ rcv \in [Receiver -> Rcvs] /\ Receiver = Turn
  BY DEF Held, RcvOK, Working, Receiver
<1>2. /\ rcv[r].msg \in 1..Len(sent) /\ Of(r) \in User
  BY <1>1, OfType
<1>3. rcv' = [rcv EXCEPT ![r] = rcv[r]]
  BY <1>1
<1>4. QueueOK' /\ RecordsOK' /\ WaiterOK'
  BY DEF Held, QueueOK, RecordsOK, WaiterOK, rest, historyVars, Of
<1>5. /\ LoopTypeOK' /\ \A q \in Turn \ {r} : turn'[q] = turn[q]
      /\ turn'[r].pc # "off" /\ turn'[r].of = {Of(r)}
  BY DEF MovesTo
<1>6. /\ rcv[r] \in Rcvs /\ rcv[r].msg # 0 /\ turn'[r].of = {sent[rcv[r].msg].user}
      /\ UNCHANGED <<kind, sent, server>>
  BY <1>1, <1>2, <1>5 DEF rest, Of, Held, SentOK
<1>7. /\ rcv[r].pc \notin {"off", "get", "dead", "asking", "waiting"}
      /\ rcv[r].pc # "off"
  OBVIOUS
<1> QED
  BY <1>3, <1>4, <1>5, <1>6, <1>7, WorkHeld

\* A step of the loop is one of the user its receiver works for.
LEMMA AdvanceCases ==
  ASSUME Held, NEW r \in Receiver, Advances(r)
  PROVE  /\ rcv[r].pc = "handle" /\ UNCHANGED <<rest, rcv, waiter, historyVars>>
         /\ r \in Turn /\ Of(r) \in Session /\ turn[r].of = {Of(r)}
         /\ \/ SpendNothing(r, Of(r)) \/ Request(r, Of(r)) \/ RunSafe(r, Of(r))
            \/ \E calls \in Reply : Answer(r, Of(r), calls)
<1>1. rcv[r].pc = "handle" /\ UNCHANGED <<rest, rcv, waiter, historyVars>> /\ r \in Turn
  BY DEF Advances, Receiver
<1>2. Of(r) \in User /\ turn[r].of = {Of(r)}
  BY <1>1, OfType DEF Working
<1>3. PICK u \in User : \/ SpendNothing(r, u) \/ Request(r, u) \/ RunSafe(r, u)
                        \/ \E calls \in Reply : Answer(r, u, calls)
  BY DEF Advances
<1>4. turn[r].of = {u}
  BY <1>3 DEF SpendNothing, Request, RunSafe, Answer
<1>5. u = Of(r)
  BY <1>2, <1>4
<1> QED
  BY <1>1, <1>2, <1>3, <1>5 DEF User

LEMMA AdvancesHeld ==
  ASSUME Held, NEW r \in Receiver, Advances(r)
  PROVE  Held'
<1>1. /\ rcv[r].pc = "handle" /\ UNCHANGED <<rest, rcv, waiter>> /\ UNCHANGED historyVars
      /\ r \in Turn /\ Of(r) \in Session /\ turn[r].of = {Of(r)} /\ LoopTypeOK
  BY AdvanceCases DEF Held
<1>2. CASE SpendNothing(r, Of(r))
  BY <1>1, <1>2, SpendNothingMoves, TurnHeld
<1>3. CASE Request(r, Of(r))
  BY <1>1, <1>3, RequestMoves, TurnHeld
<1>4. CASE RunSafe(r, Of(r))
  <2>1. turn[r].pc \in {"tools", "approve"} /\ Result(r, Of(r))
    BY <1>4 DEF RunSafe
  <2> QED
    BY <1>1, <2>1, ResultMoves, TurnHeld
<1>5. ASSUME NEW calls \in Reply, Answer(r, Of(r), calls) PROVE Held'
  <2>1. MovesTo(r, Of(r), IF calls = <<>> THEN "over" ELSE "tools")
    BY <1>1, <1>5, AnswerMoves
  <2> QED
    BY <1>1, <2>1, TurnHeld
<1> QED
  BY <1>2, <1>3, <1>4, <1>5, AdvanceCases

LEMMA SeeksHeld ==
  ASSUME Held, NEW r \in Receiver, Seeks(r)
  PROVE  Held'
<1>1. /\ rcv[r].pc = "handle" /\ UNCHANGED <<rest, rcv, waiter>> /\ UNCHANGED historyVars
      /\ r \in Turn /\ LoopTypeOK /\ SeekApproval(r)
  BY DEF Seeks, Receiver, Held
<1>2. Of(r) \in Session /\ turn[r].of = {Of(r)}
  BY <1>1, OfType DEF Working, User
<1> QED
  BY <1>1, <1>2, SeekMoves, TurnHeld

LEMMA BlockHeld ==
  ASSUME Held, NEW r \in Receiver, Block(r)
  PROVE  Held'
<1>1. /\ rcv[r].pc = "handle" /\ UNCHANGED <<rest, rcv, waiter>> /\ UNCHANGED historyVars
      /\ r \in Turn /\ LoopTypeOK /\ turn[r].pc \in {"tools", "approve"}
      /\ Result(r, Of(r))
  BY DEF Block, Denied, Receiver, Held
<1>2. Of(r) \in Session /\ turn[r].of = {Of(r)}
  BY <1>1, OfType DEF Working, User
<1> QED
  BY <1>1, <1>2, ResultMoves, TurnHeld

\* A request or a stream is on its way: nothing else is going on.
LEMMA StreamWorks ==
  ASSUME Held, NEW r \in Receiver, turn[r].pc \in {"check", "stream", "tools", "over"}
  PROVE  /\ rcv[r].pc = "handle" /\ r \in Turn /\ Of(r) \in Session
         /\ turn[r].of = {Of(r)}
<1>1. rcv[r] \in Rcvs /\ Fits(r)
  BY DEF Held, RcvOK
<1>2. rcv[r].pc = "handle"
  BY <1>1 DEF Rcvs, Fits
<1> QED
  BY <1>2, OfType DEF Working, User, Receiver

LEMMA ProviderErrorHeld ==
  ASSUME Held, NEW r \in Receiver, ProviderError(r)
  PROVE  Held' /\ MovesTo(r, Of(r), "over")
<1>1. /\ rcv[r].pc = "handle" /\ r \in Turn /\ Of(r) \in Session /\ turn[r].of = {Of(r)}
      /\ UNCHANGED <<rest, rcv, waiter>> /\ UNCHANGED historyVars
      /\ UNCHANGED <<history, used>> /\ Goes(r, "over") /\ LoopTypeOK
  BY StreamWorks DEF ProviderError, Held
<1>2. turn[r].calls = <<>>
  BY <1>1, LoopParts DEF Sane, ProviderError
<1>3. MovesTo(r, Of(r), "over")
  BY <1>1, <1>2, Gone, LoopParts
<1> QED
  BY <1>1, <1>3, TurnHeld

LEMMA AskHeld ==
  ASSUME Held, NEW r \in Receiver, Ask(r)
  PROVE  Held'
<1> DEFINE x == [rcv[r] EXCEPT !.pc = "asking"]
<1>1. /\ rcv[r].pc = "handle" /\ turn[r].pc = "approve" /\ r \in Turn
      /\ UNCHANGED <<kind, sent, queue, next, batch, server, paired, seen, resent, crashes>>
      /\ UNCHANGED <<turn, history, used>> /\ UNCHANGED waiter
      /\ UNCHANGED <<taken, tasks, allowed, disturbed>>
      /\ rcv' = [rcv EXCEPT ![r] = x]
  BY DEF Ask, rest, loopVars, historyVars, Receiver
<1>2. rcv[r] \in Rcvs /\ rcv[r].msg # 0 /\ turn[r].of = {sent[rcv[r].msg].user}
  BY <1>1, OfType DEF Held, RcvOK, Working, Of
<1>3. /\ x \in Rcvs /\ x.pc = "asking" /\ x.msg = rcv[r].msg
      /\ \A q \in Receiver \ {r} : rcv'[q] = rcv[q]
  BY <1>1, <1>2 DEF Rcvs, Held, RcvOK
<1>4. WaiterOK'
  BY <1>1, <1>3, WaitersStay
<1>5. LoopTypeOK' /\ QueueOK' /\ RecordsOK'
  BY <1>1 DEF Held, LoopTypeOK, QueueOK, RecordsOK
<1> HIDE DEF x
<1> QED
  BY <1>1, <1>2, <1>3, <1>4, <1>5, WorkHeld

LEMMA WaitHeld ==
  ASSUME Held, NEW r \in Receiver, Wait(r)
  PROVE  Held'
<1> DEFINE x == [rcv[r] EXCEPT !.pc = "waiting", !.answer = 0]
<1>1. /\ rcv[r].pc = "asking" /\ r \in Turn
      /\ UNCHANGED <<kind, sent, queue, next, batch, server, paired, seen, resent, crashes>>
      /\ UNCHANGED <<turn, history, used>>
      /\ UNCHANGED <<taken, tasks, allowed, disturbed>>
      /\ waiter' = [waiter EXCEPT ![Of(r)] = {r}]
      /\ rcv' = [rcv EXCEPT ![r] = x]
  BY DEF Wait, rest, loopVars, historyVars, Receiver
<1>2. /\ rcv[r] \in Rcvs /\ rcv[r].msg # 0 /\ turn[r].of = {sent[rcv[r].msg].user}
      /\ turn[r].pc = "approve" /\ Len(sent) \in Nat /\ Of(r) \in User
  BY <1>1, OfType DEF Held, RcvOK, Fits, Working, Of, SentOK
<1>3. /\ x \in Rcvs /\ x.pc = "waiting" /\ x.msg = rcv[r].msg
  <2>1. 0 \in 0..Len(sent)
    BY <1>2
  <2> QED
    BY <1>2, <2>1 DEF Rcvs
<1>4. /\ rcv'[r] = x /\ \A q \in Receiver \ {r} : rcv'[q] = rcv[q]
  BY <1>1, <1>2 DEF Held, RcvOK
<1>5. WaiterOK'
  <2>1. waiter' \in [User -> SUBSET Receiver] /\ waiter'[Of(r)] = {r}
    BY <1>1, <1>2 DEF Held, WaiterOK
  <2>2. \A u \in User \ {Of(r)} : waiter'[u] = waiter[u] /\ waiter[u] \subseteq Receiver \ {r}
    BY <1>1, <1>2 DEF Held, WaiterOK
  <2>3. rcv'[r].pc = "waiting" /\ Of(r)' = Of(r)
    BY <1>1, <1>3, <1>4 DEF Of
  <2>4. \A u \in User \ {Of(r)} : \A q \in waiter'[u] : rcv'[q].pc = "waiting" /\ Of(q)' = u
    BY <1>1, <1>4, <2>2 DEF Held, WaiterOK, Of
  <2> QED
    BY <2>1, <2>3, <2>4 DEF WaiterOK
<1>6. LoopTypeOK' /\ QueueOK' /\ RecordsOK'
  BY <1>1 DEF Held, LoopTypeOK, QueueOK, RecordsOK
<1> HIDE DEF x
<1> QED
  BY <1>1, <1>2, <1>3, <1>5, <1>6, WorkHeld

\* What an answered or given up question leaves behind.
LEMMA HeardHeld ==
  ASSUME Held, NEW r \in Receiver, Heard(r), Result(r, Of(r)),
         UNCHANGED <<rest, taken, tasks, disturbed>>,
         allowed' \in Seq([user : User, by : 1..Len(sent)])
  PROVE  /\ Held' /\ rcv'[r] = [rcv[r] EXCEPT !.pc = "handle"]
         /\ rcv'[r].pc = "handle" /\ rcv[r].pc = "waiting" /\ turn[r].pc = "approve"
         /\ r \in Turn /\ Of(r) \in Session /\ turn[r].of = {Of(r)}
         /\ \A q \in Receiver \ {r} : rcv'[q] = rcv[q]
<1> DEFINE x == [rcv[r] EXCEPT !.pc = "handle"]
<1>1. /\ rcv[r].pc = "waiting" /\ r \in Turn
      /\ UNCHANGED <<kind, sent, queue, next, batch, server, paired, seen, resent, crashes>>
      /\ waiter' = [waiter EXCEPT ![Of(r)] = None]
      /\ rcv' = [rcv EXCEPT ![r] = x]
  BY DEF Heard, rest, Receiver
<1>2. /\ rcv[r] \in Rcvs /\ rcv[r].msg # 0 /\ turn[r].of = {Of(r)}
      /\ turn[r].pc = "approve" /\ Of(r) \in User /\ Of(r) = sent[rcv[r].msg].user
  BY <1>1, OfType DEF Held, RcvOK, Fits, Working, Of
<1>3. /\ x \in Rcvs /\ x.pc = "handle" /\ x.msg = rcv[r].msg
  BY <1>1, <1>2 DEF Rcvs
<1>4. /\ rcv'[r] = x /\ \A q \in Receiver \ {r} : rcv'[q] = rcv[q]
  BY <1>1, <1>2 DEF Held, RcvOK
<1>5. WaiterOK'
  <2>1. waiter' \in [User -> SUBSET Receiver] /\ waiter'[Of(r)] = {}
    BY <1>1, <1>2 DEF Held, WaiterOK, None
  <2>2. \A u \in User \ {Of(r)} : waiter'[u] = waiter[u] /\ waiter[u] \subseteq Receiver \ {r}
    BY <1>1, <1>2 DEF Held, WaiterOK
  <2> QED
    BY <1>1, <1>4, <2>1, <2>2 DEF Held, WaiterOK, Of
<1>6. QueueOK' /\ RecordsOK'
  BY <1>1 DEF Held, QueueOK, RecordsOK
<1>7. /\ LoopTypeOK' /\ \A q \in Turn \ {r} : turn'[q] = turn[q]
      /\ turn'[r].pc \in {"check", "tools"} /\ turn'[r].of = {Of(r)}
  BY <1>1, <1>2, ResultMoves DEF Held, MovesTo, User
<1>8. Held'
  <2> HIDE DEF x
  <2> QED
    BY <1>1, <1>2, <1>3, <1>5, <1>6, <1>7, WorkHeld
<1> QED
  BY <1>1, <1>2, <1>3, <1>4, <1>8 DEF User

LEMMA ApproveHeld ==
  ASSUME Held, NEW r \in Receiver, Approve(r)
  PROVE  Held'
<1>1. /\ Heard(r) /\ Result(r, Of(r)) /\ UNCHANGED <<rest, taken, tasks, disturbed>>
      /\ rcv[r].answer # 0 /\ rcv[r].pc = "waiting"
      /\ allowed' = Append(allowed, [user |-> Of(r), by |-> rcv[r].answer])
  BY DEF Approve, Heard
<1>2. Of(r) \in User /\ rcv[r].answer \in 1..Len(sent)
  BY <1>1, OfType DEF Held, RcvOK, Rcvs, Working, SentOK
<1>3. allowed \in Seq([user : User, by : 1..Len(sent)])
  BY DEF Held, RecordsOK
<1>4. [user |-> Of(r), by |-> rcv[r].answer] \in [user : User, by : 1..Len(sent)]
  BY <1>2
<1>5. allowed' \in Seq([user : User, by : 1..Len(sent)])
  BY <1>1, <1>3, <1>4, AppendProperties
<1> QED
  BY <1>1, <1>5, HeardHeld

LEMMA RefuseHeld ==
  ASSUME Held, NEW r \in Receiver, Refuse(r)
  PROVE  Held'
  BY HeardHeld DEF Refuse, Denied, historyVars, Held, RecordsOK

LEMMA OffType ==
  ASSUME SentOK, NEW pc \in {"off", "get", "dead"}
  PROVE  /\ [Off EXCEPT !.pc = pc] \in Rcvs
         /\ [Off EXCEPT !.pc = pc].pc = pc
<1>1. 0 \in 0..Len(sent)
  BY DEF SentOK
<1> QED
  BY <1>1 DEF Off, Rcvs

LEMMA SendReplyHeld ==
  ASSUME Held, NEW r \in Receiver, SendReply(r)
  PROVE  /\ Held' /\ turn'[r] = NoTurn /\ r \in Turn
         /\ \A q \in Turn \ {r} : turn'[q] = turn[q]
<1> DEFINE x == [Off EXCEPT !.pc = "get"]
<1>1. /\ rcv[r].pc = "handle" /\ r \in Turn /\ turn[r].pc = "over"
      /\ UNCHANGED <<kind, sent, queue, next, batch, server, paired, seen, resent, crashes>>
      /\ UNCHANGED <<history, used>> /\ UNCHANGED waiter
      /\ UNCHANGED <<taken, tasks, allowed, disturbed>>
      /\ rcv' = [rcv EXCEPT ![r] = x]
      /\ turn' = [turn EXCEPT ![r] = NoTurn]
  BY DEF SendReply, rest, historyVars, Receiver
<1>2. x \in Rcvs /\ x.pc = "get"
  BY OffType DEF Held
<1>3. /\ LoopTypeOK' /\ turn'[r] = NoTurn /\ \A q \in Turn \ {r} : turn'[q] = turn[q]
  BY <1>1, EndMoves, LoopParts DEF Held
<1>4. \A q \in Receiver \ {r} : rcv'[q] = rcv[q]
  BY <1>1 DEF Held, RcvOK
<1>5. WaiterOK'
  BY <1>1, <1>4, WaitersStay
<1>6. QueueOK' /\ RecordsOK'
  BY <1>1 DEF Held, QueueOK, RecordsOK
<1> HIDE DEF x
<1> QED
  BY <1>1, <1>2, <1>3, <1>5, <1>6, NoTurnType, WorkHeld

LEMMA HandlerRaisesHeld ==
  ASSUME Held, NEW r \in Receiver, HandlerRaises(r)
  PROVE  /\ Held' /\ r \in Turn /\ Of(r) \in Session
         /\ Raises(r, Of(r)) /\ disturbed' = disturbed \union {Of(r)}
<1> DEFINE x == [Off EXCEPT !.pc = IF kind \in Webhook THEN "dead" ELSE "off"]
<1>1. /\ rcv[r].pc \in {"asking", "handle"} /\ r \in Turn
      /\ UNCHANGED <<kind, sent, queue, next, batch, waiter, paired, seen, resent, crashes>>
      /\ UNCHANGED <<taken, tasks, allowed>>
      /\ disturbed' = disturbed \union {Of(r)}
      /\ rcv' = [rcv EXCEPT ![r] = x]
      /\ server' = IF kind \in Webhook THEN server ELSE "down"
      /\ Raises(r, Of(r))
  BY DEF HandlerRaises, Fails, Receiver
<1>2. /\ x \in Rcvs /\ x.pc \in {"off", "dead"}
      /\ kind \in Webhook => x.pc = "dead"
      /\ kind \notin Webhook => x.pc = "off"
  BY OffType DEF Held
<1>3. Of(r) \in User
  BY <1>1, OfType DEF Working
<1>4. /\ LoopTypeOK' /\ turn'[r] = NoTurn /\ \A q \in Turn \ {r} : turn'[q] = turn[q]
  BY <1>1, <1>3, RaisesMoves DEF Held, User
<1>5. \A q \in Receiver \ {r} : rcv'[q] = rcv[q]
  BY <1>1 DEF Held, RcvOK
<1>6. WaiterOK'
  BY <1>1, <1>5, WaitersStay
<1>7. QueueOK' /\ RecordsOK' /\ SentOK'
  BY <1>1, <1>3 DEF Held, QueueOK, RecordsOK, SentOK
<1> HIDE DEF x
<1>8. RcvOK' /\ rcv'[r] = x
  BY <1>1, <1>2, <1>4, NoTurnType, RcvSet
<1>9. ServerOK'
  <2>1. CASE kind \in Webhook
    BY <1>1, <2>1 DEF Held, ServerOK
  <2>2. CASE kind \notin Webhook
    <3>1. \A q \in Receiver \ {r} : rcv[q].pc = "off"
      BY <1>1, <2>2 DEF Held, ServerOK
    <3>2. \A q \in Receiver : rcv'[q].pc = "off"
      BY <1>2, <1>5, <1>8, <2>2, <3>1
    <3> QED
      BY <1>1, <2>2, <3>2 DEF ServerOK
  <2> QED
    BY <2>1, <2>2
<1> QED
  BY <1>1, <1>3, <1>4, <1>6, <1>7, <1>8, <1>9 DEF Held, User

\* The next message is taken off the queue.
LEMMA TakesQueue ==
  ASSUME Held, NEW r \in Receiver, NEW m \in 1..Len(sent), Takes(r, m),
         UNCHANGED <<kind, sent, batch>>
  PROVE  /\ QueueOK' /\ taken' = taken \union {m} /\ taken' \subseteq 1..Len(sent)
         /\ rcv[r].pc = "get" /\ r \in Turn /\ turn[r].pc = "off"
         /\ sent[m].user \in User /\ sent[m].text \in Text
<1>1. /\ queue \in Seq(1..Len(sent)) /\ batch \in Nat /\ next \in Nat
      /\ batch <= Len(queue) /\ next <= batch /\ Len(queue) \in Nat
      /\ kind # "telegram" => batch = 0
  BY DEF Held, QueueOK
<1>2. QueueOK'
  <2>1. CASE kind = "telegram"
    <3>1. next < batch /\ next' = next + 1 /\ queue' = queue
      BY <2>1 DEF Takes
    <3> QED
      BY <1>1, <2>1, <3>1 DEF QueueOK
  <2>2. CASE kind # "telegram"
    <3>1. queue # <<>> /\ queue' = Tail(queue) /\ next' = next
      BY <2>2 DEF Takes
    <3>2. queue' \in Seq(1..Len(sent)) /\ Len(queue') \in Nat
      BY <1>1, <3>1
    <3> QED
      BY <1>1, <2>2, <3>1, <3>2 DEF QueueOK
  <2> QED
    BY <2>1, <2>2
<1>3. rcv[r].pc = "get" /\ r \in Turn /\ turn[r].pc = "off" /\ taken' = taken \union {m}
  BY DEF Takes, Held, RcvOK, Fits, Receiver
<1>4. sent[m] \in [user : User, text : Text, during : BOOLEAN]
  BY ElementOfSeq DEF Held, SentOK
<1> QED
  BY <1>2, <1>3, <1>4 DEF Held, RecordsOK

LEMMA TakeAnswerHeld ==
  ASSUME Held, NEW r \in Receiver, NEW m \in 1..Len(sent), TakeAnswer(r, m)
  PROVE  /\ Held'
         /\ \E q \in Receiver : /\ rcv[q].pc = "waiting" /\ Of(q) = sent[m].user
                                /\ rcv' = [rcv EXCEPT ![q].answer = m]
<1>1. /\ Takes(r, m)
      /\ UNCHANGED <<turn, history, used>>
      /\ UNCHANGED <<kind, sent, batch, server, waiter, paired, seen, resent, crashes>>
      /\ UNCHANGED <<tasks, allowed, disturbed>>
  BY DEF TakeAnswer, loopVars
<1>2. QueueOK' /\ taken' \subseteq 1..Len(sent) /\ sent[m].user \in User
  BY <1>1, TakesQueue
<1>3. PICK q \in Open(sent[m].user) : rcv' = [rcv EXCEPT ![q].answer = m]
  BY DEF TakeAnswer
<1>4. q \in Receiver /\ q \in Turn /\ rcv[q].pc = "waiting" /\ Of(q) = sent[m].user
  BY <1>2, <1>3 DEF Open, Held, WaiterOK, Receiver
<1> DEFINE x == [rcv[q] EXCEPT !.answer = m]
<1>5. /\ rcv[q] \in Rcvs /\ rcv[q].msg # 0 /\ turn[q].of = {sent[rcv[q].msg].user}
      /\ turn[q].pc = "approve"
  BY <1>4, OfType DEF Held, RcvOK, Fits, Working, Of
<1>6. x \in Rcvs /\ x.pc = "waiting" /\ x.msg = rcv[q].msg
  <2>1. m \in 0..Len(sent)
    BY DEF Held, SentOK
  <2> QED
    BY <1>4, <1>5, <2>1 DEF Rcvs
<1>7. rcv' = [rcv EXCEPT ![q] = x]
  BY <1>3
<1> HIDE DEF x
<1>8. rcv'[q] = x /\ \A p \in Receiver \ {q} : rcv'[p] = rcv[p]
  BY <1>4, <1>7 DEF Held, RcvOK
<1>9. WaiterOK'
  BY <1>1, <1>4, <1>6, <1>8 DEF Held, WaiterOK, Of
<1>10. RecordsOK' /\ LoopTypeOK'
  BY <1>1, <1>2 DEF Held, RecordsOK, LoopTypeOK
<1>11. Held'
  BY <1>1, <1>2, <1>4, <1>5, <1>6, <1>7, <1>9, <1>10, WorkHeld
<1> QED
  BY <1>3, <1>4, <1>11

\* A message is handled: by a turn, or aside.
LEMMA HandlesHeld ==
  ASSUME Held, NEW r \in Receiver, NEW m \in 1..Len(sent), Handles(r, m),
         NEW pc, pc # "off", MovesTo(r, sent[m].user, pc), server' = server,
         paired' \subseteq User, tasks' \subseteq 1..Len(sent), disturbed' \subseteq User
  PROVE  Held'
<1> DEFINE x == [pc |-> "handle", msg |-> m, answer |-> 0]
<1>1. /\ Takes(r, m)
      /\ UNCHANGED <<kind, sent, batch, server, waiter, seen, resent, crashes, allowed>>
      /\ rcv' = [rcv EXCEPT ![r] = x]
  BY DEF Handles
<1>2. /\ QueueOK' /\ taken' \subseteq 1..Len(sent) /\ sent[m].user \in User
      /\ rcv[r].pc = "get" /\ r \in Turn
  BY <1>1, TakesQueue
<1>3. x \in Rcvs /\ x.pc = "handle" /\ x.msg = m /\ m # 0
  <2>1. m \in 0..Len(sent) /\ 0 \in 0..Len(sent) /\ m # 0
    BY DEF Held, SentOK
  <2> QED
    BY <2>1 DEF Rcvs
<1>4. \A q \in Receiver \ {r} : rcv'[q] = rcv[q]
  BY <1>1 DEF Held, RcvOK
<1>5. WaiterOK'
  BY <1>1, <1>2, <1>4, WaitersStay
<1>6. RecordsOK'
  BY <1>1, <1>2 DEF Held, RecordsOK
<1>7. /\ LoopTypeOK' /\ \A q \in Turn \ {r} : turn'[q] = turn[q]
      /\ turn'[r].pc # "off" /\ turn'[r].of = {sent[m].user}
  BY DEF MovesTo
<1> HIDE DEF x
<1> QED
  BY <1>1, <1>2, <1>3, <1>5, <1>6, <1>7, WorkHeld

LEMMA TakeAsideHeld ==
  ASSUME Held, NEW r \in Receiver, NEW m \in 1..Len(sent), TakeAside(r, m)
  PROVE  Held' /\ MovesTo(r, sent[m].user, "over") /\ r \in Turn /\ turn[r].pc = "off"
<1>1. /\ Handles(r, m) /\ paired' \in {paired, paired \union {sent[m].user}}
      /\ turn' = [turn EXCEPT ![r].pc = "over", ![r].of = {sent[m].user}]
      /\ UNCHANGED <<history, used, tasks, disturbed>>
  BY DEF TakeAside
<1>2. Takes(r, m) /\ UNCHANGED <<kind, sent, batch, server>>
  BY <1>1 DEF Handles
<1>3. sent[m].user \in User /\ turn[r].pc = "off" /\ r \in Turn
  BY <1>2, TakesQueue
<1>4. MovesTo(r, sent[m].user, "over")
  BY <1>1, <1>3, AsideMoves DEF Held, User
<1>5. paired' \subseteq User /\ tasks' \subseteq 1..Len(sent) /\ disturbed' \subseteq User
  BY <1>1, <1>3 DEF Held, RecordsOK
<1> QED
  BY <1>1, <1>2, <1>3, <1>4, <1>5, HandlesHeld

LEMMA TakeTaskHeld ==
  ASSUME Held, NEW r \in Receiver, NEW m \in 1..Len(sent), TakeTask(r, m)
  PROVE  Held' /\ r \in Turn /\ turn[r].pc = "off" /\ sent[m].user \in Session
<1>1. /\ Handles(r, m) /\ Begin(r, sent[m].user) /\ tasks' = tasks \union {m}
      /\ disturbed' \subseteq disturbed \union {sent[m].user} /\ UNCHANGED paired
  BY DEF TakeTask
<1>2. Takes(r, m) /\ UNCHANGED <<kind, sent, batch, server>>
  BY <1>1 DEF Handles
<1>3. sent[m].user \in User /\ turn[r].pc = "off" /\ r \in Turn
  BY <1>2, TakesQueue
<1>4. MovesTo(r, sent[m].user, "check")
  BY <1>1, <1>3, BeginMoves DEF Held, User
<1>5. paired' \subseteq User /\ tasks' \subseteq 1..Len(sent) /\ disturbed' \subseteq User
  BY <1>1, <1>3 DEF Held, RecordsOK
<1> QED
  BY <1>1, <1>2, <1>3, <1>4, <1>5, HandlesHeld DEF User

\* start() runs, or is over: a receiver begins or ends, and no turn is touched.
LEMMA SwitchHeld ==
  ASSUME Held, NEW r \in Receiver, rcv[r].pc \in {"off", "get"},
         NEW pc \in {"off", "get"}, rcv' = [rcv EXCEPT ![r].pc = pc],
         UNCHANGED <<loopVars, historyVars, kind, sent, waiter, paired, seen, resent, crashes>>,
         QueueOK', server' \in {"up", "down", "over"},
         kind \notin Webhook => /\ \A q \in Receiver \ {r} : rcv[q].pc = "off"
                                /\ server' # "up" => pc = "off"
  PROVE  Held'
<1> DEFINE x == [rcv[r] EXCEPT !.pc = pc]
<1>1. /\ UNCHANGED <<turn, history, used>> /\ UNCHANGED <<taken, tasks, allowed, disturbed>>
      /\ rcv[r] \in Rcvs /\ turn[r].pc = "off" /\ r \in Turn
  BY DEF loopVars, historyVars, Held, RcvOK, Fits, Receiver
<1>2. x \in Rcvs /\ x.pc = pc
  BY <1>1 DEF Rcvs
<1>3. rcv' = [rcv EXCEPT ![r] = x]
  OBVIOUS
<1> HIDE DEF x
<1>4. RcvOK' /\ rcv'[r] = x /\ \A q \in Receiver \ {r} : rcv'[q] = rcv[q]
  BY <1>1, <1>2, <1>3, RcvSet
<1>5. WaiterOK'
  BY <1>4, WaitersStay
<1>6. ServerOK'
  BY <1>2, <1>4 DEF ServerOK
<1> QED
  BY <1>1, <1>4, <1>5, <1>6 DEF Held, LoopTypeOK, SentOK, RecordsOK

LEMMA StartHeld ==
  ASSUME Held, NEW r \in Receiver, Start(r)
  PROVE  Held'
<1>1. /\ server = "down" /\ rcv[r].pc = "off" /\ rcv' = [rcv EXCEPT ![r].pc = "get"]
      /\ server' \in {"up", "down"}
      /\ kind \notin Webhook => server' = "up"
      /\ batch' = next /\ next' = next
      /\ queue' = IF kind = "discord" THEN <<>> ELSE queue
      /\ UNCHANGED <<loopVars, historyVars, kind, sent, waiter, paired, seen, resent, crashes>>
  BY DEF Start
<1>2. QueueOK'
  <2>1. /\ queue \in Seq(1..Len(sent)) /\ next \in Nat /\ batch \in Nat
        /\ next <= batch /\ batch <= Len(queue) /\ Len(queue) \in Nat
        /\ kind # "telegram" => batch = 0
    BY DEF Held, QueueOK
  <2>2. CASE kind = "discord"
    <3>1. queue' = <<>> /\ Len(queue') = 0 /\ next = 0 /\ queue' \in Seq(1..Len(sent))
      BY <1>1, <2>1, <2>2
    <3> QED
      BY <1>1, <2>1, <3>1 DEF QueueOK
  <2>3. CASE kind # "discord"
    BY <1>1, <2>1, <2>3 DEF QueueOK
  <2> QED
    BY <2>2, <2>3
<1>3. kind \notin Webhook => \A q \in Receiver \ {r} : rcv[q].pc = "off"
  BY <1>1 DEF Held, ServerOK
<1> QED
  BY <1>1, <1>2, <1>3, SwitchHeld

LEMMA DisconnectHeld ==
  ASSUME Held, NEW r \in Receiver, Disconnect(r)
  PROVE  Held'
<1>1. /\ kind = "discord" /\ rcv[r].pc = "get" /\ rcv' = [rcv EXCEPT ![r].pc = "off"]
      /\ server' \in {"down", "over"} /\ UNCHANGED <<queue, next, batch>>
      /\ UNCHANGED <<loopVars, historyVars, kind, sent, waiter, paired, seen, resent, crashes>>
  BY DEF Disconnect
<1>2. QueueOK'
  BY <1>1 DEF Held, QueueOK
<1>3. \A q \in Receiver \ {r} : rcv[q].pc = "off"
  BY <1>1 DEF Held, ServerOK, Webhook
<1> QED
  BY <1>1, <1>2, <1>3, SwitchHeld

LEMMA CrashHeld ==
  ASSUME Held, Crash
  PROVE  Held'
<1>1. /\ crashes' = crashes + 1 /\ server' = "down" /\ rcv' = [r \in Receiver |-> Off]
      /\ turn' = [r \in Receiver |-> NoTurn]
      /\ history' = [u \in User |-> NoHistory]
      /\ used' = [u \in User |-> [iterations |-> 0, tokens |-> 0]]
      /\ waiter' = [u \in User |-> None]
      /\ queue' = IF kind = "telegram" THEN queue ELSE <<>>
      /\ next' = 0 /\ batch' = 0 /\ disturbed' = {}
      /\ UNCHANGED <<kind, sent, paired, resent, taken, tasks, allowed>>
  BY DEF Crash
<1>2. LoopTypeOK'
  <2>1. NoHistory \in Histories
    BY DEF NoHistory, Histories, Messages
  <2>2. [iterations |-> 0, tokens |-> 0] \in Uses
    BY DEF Uses
  <2>3. /\ turn' \in [Turn -> Turns] /\ \A t \in Turn : Sane(turn'[t])
        /\ history' \in [Session -> Histories] /\ used' \in [Session -> Uses]
    BY <1>1, <2>1, <2>2, NoTurnType DEF Receiver, User
  <2> QED
    BY <2>3 DEF LoopTypeOK, Turns, Sane, Histories, Messages, Uses
<1>3. QueueOK'
  <2>1. queue' \in Seq(1..Len(sent)) /\ Len(queue') \in Nat
    <3>1. queue \in Seq(1..Len(sent)) /\ <<>> \in Seq(1..Len(sent))
      BY DEF Held, QueueOK
    <3> QED
      BY <1>1, <3>1, LenProperties
  <2> QED
    BY <1>1, <2>1 DEF QueueOK
<1>4. RecordsOK' /\ SentOK'
  BY <1>1 DEF Held, RecordsOK, SentOK
<1>5. Off \in Rcvs /\ Off.pc = "off"
  <2>1. 0 \in 0..Len(sent)
    BY DEF Held, SentOK
  <2> QED
    BY <2>1 DEF Off, Rcvs
<1>6. RcvOK'
  <2>1. rcv' \in [Receiver -> Rcvs'] /\ \A r \in Receiver : rcv'[r].pc = "off"
    BY <1>1, <1>5 DEF Rcvs
  <2>2. \A r \in Receiver : turn'[r].pc = "off"
    BY <1>1, NoTurnType
  <2> QED
    BY <2>1, <2>2 DEF RcvOK, Fits, Working
<1>7. WaiterOK'
  BY <1>1 DEF WaiterOK, None
<1>8. ServerOK'
  BY <1>1, <1>5 DEF ServerOK
<1> QED
  BY <1>2, <1>3, <1>4, <1>6, <1>7, <1>8 DEF Held

LEMMA SendHeld ==
  ASSUME Held, NEW u \in User, NEW text \in Text, Send(u, text)
  PROVE  /\ Held' /\ Len(sent') = Len(sent) + 1
         /\ \A k \in 1..Len(sent) : sent'[k] = sent[k]
<1> DEFINE n == Len(sent)
           m == [user |-> u, text |-> text, during |-> Open(u) # {}]
<1>1. /\ sent' = Append(sent, m)
      /\ queue' = IF kind = "discord" /\ server # "up" THEN queue
                  ELSE Append(queue, n + 1)
      /\ UNCHANGED <<turn, history, used>> /\ UNCHANGED <<taken, tasks, allowed, disturbed>>
      /\ UNCHANGED <<kind, next, batch, server, rcv, waiter, paired, resent, crashes>>
  BY DEF Send, loopVars, historyVars
<1>2. m \in [user : User, text : Text, during : BOOLEAN]
  OBVIOUS
<1> HIDE DEF m
<1>3. /\ sent' \in Seq([user : User, text : Text, during : BOOLEAN]) /\ n \in Nat
      /\ Len(sent') = n + 1 /\ \A k \in 1..n : sent'[k] = sent[k]
  BY <1>1, <1>2, AppendProperties DEF Held, SentOK
<1>4. 1..n \subseteq 1..Len(sent') /\ 0..n \subseteq 0..Len(sent') /\ n + 1 \in 1..Len(sent')
  BY <1>3
<1>5. QueueOK'
  <2>1. queue \in Seq(1..Len(sent')) /\ batch <= Len(queue) /\ batch \in Nat
    BY <1>4, SeqGrows DEF Held, QueueOK
  <2>2. queue' \in Seq(1..Len(sent')) /\ batch <= Len(queue')
    <3>1. CASE queue' = queue
      BY <2>1, <3>1
    <3>2. CASE queue' = Append(queue, n + 1)
      BY <1>4, <2>1, <3>2, AppendProperties
    <3> QED
      BY <1>1, <3>1, <3>2
  <2> QED
    BY <1>1, <2>2 DEF Held, QueueOK
<1>6. RecordsOK'
  <2>1. allowed \in Seq([user : User, by : 1..Len(sent')])
    <3>1. [user : User, by : 1..n] \subseteq [user : User, by : 1..Len(sent')]
      BY <1>4
    <3> QED
      BY <3>1, SeqGrows DEF Held, RecordsOK
  <2> QED
    BY <1>1, <1>4, <2>1 DEF Held, RecordsOK
<1>7. ASSUME NEW r \in Receiver, Working(r) PROVE Of(r)' = Of(r)
  BY <1>1, <1>3, <1>7, OfType DEF Of
<1>8. RcvOK'
  <2>1. Rcvs \subseteq Rcvs'
    BY <1>4 DEF Rcvs
  <2>2. \A r \in Receiver : Fits(r)'
    BY <1>1, <1>7 DEF Held, RcvOK, Fits, Working
  <2> QED
    BY <1>1, <2>1, <2>2 DEF Held, RcvOK
<1>9. WaiterOK'
  BY <1>1, <1>7 DEF Held, WaiterOK, Working
<1> QED
  BY <1>1, <1>3, <1>5, <1>6, <1>8, <1>9 DEF Held, LoopTypeOK, SentOK, ServerOK

\* The service acts on its queue.
LEMMA ServiceHeld ==
  ASSUME Held, UNCHANGED <<turn, history, used>>, UNCHANGED <<kind, sent, server, rcv, waiter>>,
         QueueOK', RecordsOK'
  PROVE  Held'
<1>1. LoopTypeOK' /\ SentOK' /\ ServerOK'
  BY DEF Held, LoopTypeOK, SentOK, ServerOK
<1>2. \A r \in Receiver : Of(r)' = Of(r)
  BY DEF Of
<1>3. RcvOK' /\ WaiterOK'
  BY <1>2 DEF Held, RcvOK, Rcvs, Fits, Working, WaiterOK
<1> QED
  BY <1>1, <1>3 DEF Held

LEMMA ResendHeld ==
  ASSUME Held, NEW m \in 1..Len(sent), Resend(m)
  PROVE  Held' /\ resent' # 0
<1>1. /\ kind \in Webhook /\ queue' = Append(queue, m) /\ resent' = resent + 1
      /\ UNCHANGED <<turn, history, used>> /\ UNCHANGED <<taken, tasks, allowed, disturbed>>
      /\ UNCHANGED <<kind, sent, next, batch, server, rcv, waiter, paired, crashes>>
  BY DEF Resend, loopVars, historyVars
<1>2. QueueOK'
  <2>1. queue' \in Seq(1..Len(sent)) /\ Len(queue') = Len(queue) + 1 /\ Len(queue) \in Nat
    BY <1>1, AppendProperties DEF Held, QueueOK
  <2> QED
    BY <1>1, <2>1 DEF Held, QueueOK
<1>3. RecordsOK' /\ resent' # 0
  BY <1>1 DEF Held, RecordsOK
<1> QED
  BY <1>1, <1>2, <1>3, ServiceHeld

LEMMA PollHeld ==
  ASSUME Held, Poll
  PROVE  /\ Held' /\ next' = 0 /\ next \in Nat /\ Len(queue') = Len(queue) - next
         /\ \A k \in 1..Len(queue') : queue'[k] = queue[next + k]
<1>1. /\ kind = "telegram" /\ next = batch
      /\ queue' = SubSeq(queue, next + 1, Len(queue))
      /\ batch' = Len(queue) - next /\ next' = 0
      /\ UNCHANGED <<turn, history, used>> /\ UNCHANGED <<taken, tasks, allowed, disturbed>>
      /\ UNCHANGED <<kind, sent, server, rcv, waiter, paired, resent, crashes>>
  BY DEF Poll, loopVars, historyVars
<1>2. /\ queue \in Seq(1..Len(sent)) /\ next \in Nat /\ next <= Len(queue)
      /\ Len(queue) \in Nat
  BY <1>1 DEF Held, QueueOK
<1>3. /\ queue' \in Seq(1..Len(sent)) /\ Len(queue') = Len(queue) - next
      /\ \A k \in 1..Len(queue') : queue'[k] = queue[next + k]
  BY <1>1, <1>2, SubSeqProperties
<1>4. QueueOK'
  BY <1>1, <1>2, <1>3 DEF QueueOK
<1>5. RecordsOK'
  BY <1>1 DEF Held, RecordsOK
<1> QED
  BY <1>1, <1>2, <1>3, <1>4, <1>5, ServiceHeld

LEMMA InitHeld == Init => Held
<1> SUFFICES ASSUME Init PROVE Held
  OBVIOUS
<1>1. LoopTypeOK
  <2>1. NoHistory \in Histories
    BY DEF NoHistory, Histories, Messages
  <2>2. [iterations |-> 0, tokens |-> 0] \in Uses
    BY DEF Uses
  <2> QED
    BY <2>1, <2>2, NoTurnType, LoopParts DEF Init, LoopInit
<1>2. SentOK /\ QueueOK /\ RecordsOK /\ WaiterOK /\ Len(sent) = 0
  BY DEF Init, SentOK, QueueOK, RecordsOK, WaiterOK, None
<1>3. Off \in Rcvs /\ Off.pc = "off"
  BY <1>2 DEF Off, Rcvs
<1>4. \A r \in Receiver : rcv[r].pc = "off" /\ turn[r].pc = "off"
  BY <1>3, NoTurnType DEF Init, LoopInit, Receiver
<1>5. RcvOK
  BY <1>3, <1>4 DEF Init, RcvOK, Fits, Working
<1> QED
  BY <1>1, <1>2, <1>4, <1>5 DEF Held, ServerOK, Init

LEMMA HeldStep == Held /\ [Next]_vars => Held'
<1> SUFFICES ASSUME Held, [Next]_vars PROVE Held'
  OBVIOUS
<1>1. CASE UNCHANGED vars
  <2>1. QueueOK' /\ RecordsOK'
    BY <1>1 DEF vars, chatVars, historyVars, Held, QueueOK, RecordsOK
  <2> QED
    BY <1>1, <2>1, ServiceHeld DEF vars, loopVars, chatVars
<1> QED
  BY <1>1, SendHeld, ResendHeld, PollHeld, CrashHeld, StartHeld, DisconnectHeld,
     TakeAnswerHeld, TakeAsideHeld, TakeTaskHeld, AdvancesHeld, SeeksHeld, BlockHeld,
     AskHeld, WaitHeld, ApproveHeld, RefuseHeld, SendReplyHeld, ProviderErrorHeld,
     HandlerRaisesHeld
  DEF Next, Receive, Proceed

LEMMA Shape == Spec => []Held
  BY InitHeld, HeldStep, PTL DEF Spec

\* The gateway's state stays well formed: receivers and turns agree, a waiter is the
\* future of a question of that user, and a polling or socket adapter is one task.
THEOREM TypeCorrect == Spec => []TypeOK
  BY Shape, HeldIsTyped, PTL

-----------------------------------------------------------------------------
(* Well-formed requests.  A user's history is sound, and waits for results just  *)
(* while one turn of the user's is amid its calls; other receivers are handling  *)
(* at most messages that never reached the agent.                                *)

Amid(t) == turn[t].pc \in {"tools", "approve"}

Calm(u) ==
    /\ history[u].sound
    /\ Asks(history[u].last) => \E t \in Turn : turn[t].of = {u} /\ Amid(t)
    /\ \A t \in Turn : turn[t].of = {u} /\ turn[t].pc # "over" =>
          /\ Amid(t) => /\ Asks(history[u].last)
                        /\ history[u].last = Message("assistant", turn[t].asked)
          /\ \A q \in Turn \ {t} : turn[q].of = {u} => turn[q].pc = "over"

Calms == \A u \in User \ disturbed : Calm(u)

\* A turn of another user does not disturb the calm.
LEMMA CalmBeside ==
  ASSUME NEW u \in User, Calm(u), history'[u] = history[u],
         \A q \in Turn : \/ turn'[q] = turn[q]
                         \/ turn[q].of # {u} /\ turn'[q].of # {u}
  PROVE  Calm(u)'
<1>1. history'[u].sound
  BY DEF Calm
<1>2. Asks(history'[u].last) => \E t \in Turn : turn'[t].of = {u} /\ Amid(t)'
  BY DEF Calm, Amid
<1>3. ASSUME NEW t \in Turn, turn'[t].of = {u}, turn'[t].pc # "over"
      PROVE  /\ Amid(t)' => /\ Asks(history'[u].last)
                            /\ history'[u].last = Message("assistant", turn'[t].asked)
             /\ \A q \in Turn \ {t} : turn'[q].of = {u} => turn'[q].pc = "over"
  <2>1. turn'[t] = turn[t]
    BY <1>3
  <2> QED
    BY <1>3, <2>1 DEF Calm, Amid
<1> QED
  BY <1>1, <1>2, <1>3 DEF Calm

\* Before its answer came a turn has nothing to wait for.
LEMMA CalmBefore ==
  ASSUME NEW u \in User, Calm(u), NEW t \in Turn, turn[t].of = {u},
         turn[t].pc \in {"check", "stream"}
  PROVE  history[u].sound /\ ~Asks(history[u].last)
  BY DEF Calm, Amid

\* A turn moves: what it leaves in the history is what it is waiting for.
LEMMA CalmTurn ==
  ASSUME NEW u \in User, Calm(u), NEW t \in Turn, turn[t].of = {u}, turn[t].pc # "over",
         turn'[t].of = {u}, \A q \in Turn \ {t} : turn'[q] = turn[q],
         history'[u].sound,
         Asks(history'[u].last) => Amid(t)',
         Amid(t)' => /\ Asks(history'[u].last)
                     /\ history'[u].last = Message("assistant", turn'[t].asked)
  PROVE  Calm(u)'
<1>1. \A q \in Turn \ {t} : turn'[q].of = {u} => turn'[q].pc = "over"
  BY DEF Calm
<1> QED
  BY <1>1 DEF Calm

LEMMA MessageIs ==
  ASSUME NEW role, NEW n
  PROVE  /\ Message(role, n).role = role /\ Message(role, n).n = n
         /\ Asks(Message(role, n)) <=> role = "assistant" /\ n > 0
  BY DEF Message, Asks

\* One user's turn moves, or begins.
LEMMA CalmsMove ==
  ASSUME Calms, NEW t \in Turn, NEW s \in User, NEW pc, MovesTo(t, s, pc),
         turn[t].of \in {{s}, {}}, disturbed \subseteq disturbed',
         s \notin disturbed' => Calm(s)'
  PROVE  Calms'
<1> SUFFICES ASSUME NEW u \in User, u \notin disturbed', u # s PROVE Calm(u)'
  BY DEF Calms
<1>1. /\ Calm(u) /\ history'[u] = history[u] /\ turn'[t].of = {s}
      /\ \A q \in Turn \ {t} : turn'[q] = turn[q]
  BY DEF Calms, MovesTo, User
<1>2. turn[t].of # {u} /\ turn'[t].of # {u}
  BY <1>1
<1> QED
  BY <1>1, <1>2, CalmBeside

LEMMA ResultCalm ==
  ASSUME Held, Calms, NEW t \in Turn, NEW s \in User, turn[t].of = {s},
         turn[t].pc \in {"tools", "approve"}, Result(t, s), disturbed' = disturbed
  PROVE  Calms'
<1>1. \/ /\ MovesTo(t, s, "check")
         /\ history'[s].last = Message("tool", turn[t].asked)
         /\ /\ history[s].sound /\ Asks(history[s].last)
            /\ history[s].last = Message("assistant", turn[t].asked)
            => history'[s].sound
      \/ /\ MovesTo(t, s, "tools") /\ turn'[t].asked = turn[t].asked
         /\ history' = history
  BY ResultMoves DEF Held, User
<1>2. ASSUME s \notin disturbed PROVE Calm(s)'
  <2>1. /\ Calm(s) /\ history[s].sound /\ Asks(history[s].last)
        /\ history[s].last = Message("assistant", turn[t].asked)
    BY <1>2 DEF Calms, Calm, Amid
  <2>2. CASE MovesTo(t, s, "check") /\ history'[s].sound
             /\ history'[s].last = Message("tool", turn[t].asked)
    <3>1. ~Asks(history'[s].last) /\ ~Amid(t)'
      BY <2>2, MessageIs DEF MovesTo, Amid
    <3> QED
      BY <2>1, <2>2, <3>1, CalmTurn DEF MovesTo
  <2>3. CASE MovesTo(t, s, "tools") /\ turn'[t].asked = turn[t].asked /\ history' = history
    <3>1. Amid(t)'
      BY <2>3 DEF MovesTo, Amid
    <3> QED
      BY <2>1, <2>3, <3>1, CalmTurn DEF MovesTo
  <2> QED
    BY <1>1, <2>1, <2>2, <2>3
<1> QED
  BY <1>1, <1>2, CalmsMove

LEMMA AdvancesCalm ==
  ASSUME Held, Calms, NEW r \in Receiver, Advances(r)
  PROVE  Calms'
<1>0. PICK s : s = Of(r)
  OBVIOUS
<1>1. /\ r \in Turn /\ s \in Session /\ s \in User /\ turn[r].of = {s} /\ LoopTypeOK
      /\ disturbed' = disturbed
  BY <1>0, AdvanceCases DEF Held, User, historyVars
<1>2. CASE SpendNothing(r, s)
  <2>1. /\ MovesTo(r, s, "over") /\ turn[r].pc = "check"
        /\ history'[s].last = Message("assistant", 0)
        /\ history[s].sound /\ ~Asks(history[s].last) => history'[s].sound
    BY <1>1, <1>2, SpendNothingMoves
  <2>2. ASSUME s \notin disturbed PROVE Calm(s)'
    <3>1. Calm(s) /\ history[s].sound /\ ~Asks(history[s].last)
      BY <1>1, <2>1, <2>2, CalmBefore DEF Calms
    <3>2. ~Asks(history'[s].last) /\ ~Amid(r)'
      BY <2>1, MessageIs DEF MovesTo, Amid
    <3> QED
      BY <1>1, <2>1, <3>1, <3>2, CalmTurn DEF MovesTo
  <2> QED
    BY <1>1, <2>1, <2>2, CalmsMove
<1>3. CASE Request(r, s)
  <2>1. MovesTo(r, s, "stream") /\ turn[r].pc = "check" /\ history' = history
    BY <1>1, <1>3, RequestMoves
  <2>2. ASSUME s \notin disturbed PROVE Calm(s)'
    <3>1. Calm(s) /\ history[s].sound /\ ~Asks(history[s].last)
      BY <1>1, <2>1, <2>2, CalmBefore DEF Calms
    <3>2. ~Amid(r)'
      BY <2>1 DEF MovesTo, Amid
    <3> QED
      BY <1>1, <2>1, <3>1, <3>2, CalmTurn DEF MovesTo
  <2> QED
    BY <1>1, <2>1, <2>2, CalmsMove
<1>4. CASE RunSafe(r, s)
  BY <1>1, <1>4, ResultCalm DEF RunSafe
<1>5. ASSUME NEW calls \in Reply, Answer(r, s, calls) PROVE Calms'
  <2>1. /\ turn[r].pc = "stream"
        /\ MovesTo(r, s, IF calls = <<>> THEN "over" ELSE "tools")
        /\ turn'[r].asked = Len(calls)
    BY <1>1, <1>5, AnswerMoves
  <2>2. /\ history'[s].last = Message("assistant", Len(calls))
        /\ history[s].sound /\ ~Asks(history[s].last) => history'[s].sound
    BY <1>1, <1>5, AnswerMoves
  <2>3. Len(calls) \in Nat /\ (calls = <<>> <=> Len(calls) = 0)
    BY LoopAssumption
  <2>4. ASSUME s \notin disturbed PROVE Calm(s)'
    <3>1. Calm(s) /\ history[s].sound /\ ~Asks(history[s].last)
      BY <1>1, <2>1, <2>4, CalmBefore DEF Calms
    <3>2. Amid(r)' <=> Asks(history'[s].last)
      BY <2>1, <2>2, <2>3, MessageIs DEF MovesTo, Amid
    <3> QED
      BY <1>1, <2>1, <2>2, <3>1, <3>2, CalmTurn DEF MovesTo
  <2> QED
    BY <1>1, <2>1, <2>4, CalmsMove
<1> QED
  BY <1>0, <1>2, <1>3, <1>4, <1>5, AdvanceCases

LEMMA SeeksCalm ==
  ASSUME Held, Calms, NEW r \in Receiver, Seeks(r)
  PROVE  Calms'
<1>0. PICK s : s = Of(r)
  OBVIOUS
<1>1. /\ rcv[r].pc = "handle" /\ r \in Turn /\ SeekApproval(r) /\ disturbed' = disturbed
  BY DEF Seeks, Receiver, historyVars
<1>2. s \in Session /\ s \in User /\ turn[r].of = {s}
  BY <1>0, <1>1, OfType DEF Working, User
<1>3. /\ MovesTo(r, s, "approve") /\ history' = history /\ turn[r].pc = "tools"
      /\ turn'[r].asked = turn[r].asked
  BY <1>1, <1>2, SeekMoves DEF Held
<1>4. ASSUME s \notin disturbed PROVE Calm(s)'
  <2>1. /\ Calm(s) /\ history[s].sound /\ Asks(history[s].last)
        /\ history[s].last = Message("assistant", turn[r].asked)
    BY <1>1, <1>2, <1>3, <1>4 DEF Calms, Calm, Amid
  <2>2. Amid(r)'
    BY <1>3 DEF MovesTo, Amid
  <2> QED
    BY <1>1, <1>2, <1>3, <2>1, <2>2, CalmTurn DEF MovesTo
<1> QED
  BY <1>1, <1>2, <1>3, <1>4, CalmsMove

LEMMA ProviderErrorCalm ==
  ASSUME Held, Calms, NEW r \in Receiver, ProviderError(r)
  PROVE  Calms'
<1>0. PICK s : s = Of(r)
  OBVIOUS
<1>1. /\ r \in Turn /\ s \in User /\ turn[r].of = {s} /\ turn[r].pc = "stream"
      /\ MovesTo(r, s, "over") /\ history' = history /\ disturbed' = disturbed
  BY <1>0, StreamWorks, ProviderErrorHeld DEF ProviderError, User, historyVars
<1>2. ASSUME s \notin disturbed PROVE Calm(s)'
  <2>1. Calm(s) /\ history[s].sound /\ ~Asks(history[s].last)
    BY <1>1, <1>2, CalmBefore DEF Calms
  <2>2. ~Amid(r)'
    BY <1>1 DEF MovesTo, Amid
  <2> QED
    BY <1>1, <2>1, <2>2, CalmTurn DEF MovesTo
<1> QED
  BY <1>1, <1>2, CalmsMove

\* A turn that was over is gone, or a message is put aside.
LEMMA CalmsAround ==
  ASSUME Calms, NEW t \in Turn, history' = history, disturbed \subseteq disturbed',
         \A q \in Turn \ {t} : turn'[q] = turn[q],
         turn[t].pc = "over" \/ turn[t].of = {},
         turn'[t].pc = "over" \/ turn'[t].of = {}
  PROVE  Calms'
<1> SUFFICES ASSUME NEW u \in User, u \notin disturbed' PROVE Calm(u)'
  BY DEF Calms
<1>1. Calm(u) /\ {u} # {}
  BY DEF Calms
<1>2. Asks(history[u].last) => \E q \in Turn \ {t} : turn[q].of = {u} /\ Amid(q)
  BY <1>1 DEF Calm, Amid
<1>3. ASSUME NEW q \in Turn, turn'[q].of = {u}, turn'[q].pc # "over"
      PROVE  q # t /\ turn[q] = turn'[q]
  BY <1>1, <1>3
<1>4. ASSUME NEW q \in Turn, turn'[q].of = {u}, turn'[q].pc # "over"
      PROVE  /\ Amid(q)' => /\ Asks(history'[u].last)
                            /\ history'[u].last = Message("assistant", turn'[q].asked)
             /\ \A p \in Turn \ {q} : turn'[p].of = {u} => turn'[p].pc = "over"
  BY <1>1, <1>3, <1>4 DEF Calm, Amid
<1>5. Asks(history'[u].last) => \E q \in Turn : turn'[q].of = {u} /\ Amid(q)'
  BY <1>2 DEF Amid
<1> QED
  BY <1>1, <1>4, <1>5 DEF Calm

LEMMA SendReplyCalm ==
  ASSUME Held, Calms, NEW r \in Receiver, SendReply(r)
  PROVE  Calms'
<1>1. turn[r].pc = "over" /\ UNCHANGED <<history, disturbed>>
  BY DEF SendReply, historyVars
<1>2. /\ r \in Turn /\ turn'[r].of = {}
      /\ \A q \in Turn \ {r} : turn'[q] = turn[q]
  BY SendReplyHeld, NoTurnType
<1> QED
  BY <1>1, <1>2, CalmsAround

LEMMA TakeAsideCalm ==
  ASSUME Held, Calms, NEW r \in Receiver, NEW m \in 1..Len(sent), TakeAside(r, m)
  PROVE  Calms'
<1>1. MovesTo(r, sent[m].user, "over") /\ r \in Turn /\ turn[r].pc = "off"
  BY TakeAsideHeld
<1>2. turn[r].of = {}
  BY <1>1 DEF Held, LoopTypeOK
<1>3. UNCHANGED <<history, disturbed>>
  BY DEF TakeAside
<1> QED
  BY <1>1, <1>2, <1>3, CalmsAround DEF MovesTo

LEMMA TakeTaskCalm ==
  ASSUME Held, Calms, NEW r \in Receiver, NEW m \in 1..Len(sent), TakeTask(r, m)
  PROVE  Calms'
<1>0. PICK s : s = sent[m].user
  OBVIOUS
<1>1. /\ r \in Turn /\ turn[r].pc = "off" /\ s \in Session /\ s \in User /\ LoopTypeOK
      /\ Begin(r, s)
      /\ disturbed' = disturbed \union {x \in {s} : \E t \in Turn : turn[t].of = {s}}
  BY <1>0, TakeTaskHeld DEF Held, User, TakeTask
<1>2. /\ MovesTo(r, s, "check") /\ history'[s].last = Message("user", 0)
      /\ history[s].sound /\ ~Asks(history[s].last) => history'[s].sound
  BY <1>1, BeginMoves
<1>3. turn[r].of = {}
  BY <1>1 DEF LoopTypeOK
<1>4. ASSUME s \notin disturbed' PROVE Calm(s)'
  <2>1. Calm(s) /\ \A t \in Turn : turn[t].of # {s}
    BY <1>1, <1>4 DEF Calms
  <2>2. history'[s].sound /\ ~Asks(history'[s].last)
    BY <1>2, <2>1, MessageIs DEF Calm
  <2>3. \A t \in Turn \ {r} : turn'[t].of # {s}
    BY <1>2, <2>1 DEF MovesTo
  <2>4. ~Amid(r)'
    BY <1>2 DEF MovesTo, Amid
  <2> QED
    BY <2>2, <2>3, <2>4 DEF Calm
<1> QED
  BY <1>1, <1>2, <1>3, <1>4, CalmsMove

LEMMA HandlerRaisesCalm ==
  ASSUME Held, Calms, NEW r \in Receiver, HandlerRaises(r)
  PROVE  Calms'
<1>0. PICK s : s = Of(r)
  OBVIOUS
<1>1. /\ r \in Turn /\ s \in Session /\ Raises(r, s) /\ disturbed' = disturbed \union {s}
  BY <1>0, HandlerRaisesHeld
<1>2. /\ turn'[r].of = {} /\ history' = history /\ turn[r].of = {s}
      /\ \A q \in Turn \ {r} : turn'[q] = turn[q]
  BY <1>1, RaisesMoves, NoTurnType DEF Held
<1>3. ASSUME NEW u \in User, u \notin disturbed' PROVE Calm(u)'
  <2>1. Calm(u) /\ turn[r].of # {u} /\ turn'[r].of # {u}
    BY <1>1, <1>2, <1>3 DEF Calms
  <2> QED
    BY <1>2, <2>1, CalmBeside
<1> QED
  BY <1>3 DEF Calms

LEMMA HeardCalm ==
  ASSUME Held, Calms, NEW r \in Receiver, Approve(r) \/ Refuse(r)
  PROVE  Calms'
<1>0. PICK s : s = Of(r)
  OBVIOUS
<1>1. rcv[r].pc = "waiting" /\ Result(r, s) /\ disturbed' = disturbed /\ r \in Turn
  BY <1>0 DEF Approve, Refuse, Heard, Denied, historyVars, Receiver
<1>2. /\ s \in User /\ turn[r].of = {s} /\ turn[r].pc = "approve"
  BY <1>0, <1>1, OfType DEF Working, Held, RcvOK, Fits
<1> QED
  BY <1>1, <1>2, ResultCalm

LEMMA BlockCalm ==
  ASSUME Held, Calms, NEW r \in Receiver, Block(r)
  PROVE  Calms'
<1>0. PICK s : s = Of(r)
  OBVIOUS
<1>1. /\ rcv[r].pc = "handle" /\ turn[r].pc = "approve" /\ Result(r, s)
      /\ disturbed' = disturbed /\ r \in Turn
  BY <1>0 DEF Block, Denied, historyVars, Receiver
<1>2. s \in User /\ turn[r].of = {s}
  BY <1>0, <1>1, OfType DEF Working
<1> QED
  BY <1>1, <1>2, ResultCalm

LEMMA CalmsInit == Init => Calms
<1> SUFFICES ASSUME Init, NEW u \in User PROVE Calm(u)
  BY DEF Calms
<1>1. history[u] = NoHistory /\ \A t \in Turn : turn[t].of = {}
  BY NoTurnType DEF Init, LoopInit, User
<1>2. NoHistory.sound /\ ~Asks(NoHistory.last)
  BY DEF NoHistory, Asks
<1>3. {u} # {}
  OBVIOUS
<1> QED
  BY <1>1, <1>2, <1>3 DEF Calm

LEMMA CalmsCrash ==
  ASSUME Held, Crash
  PROVE  Calms'
<1> SUFFICES ASSUME NEW u \in User PROVE Calm(u)'
  BY DEF Calms
<1>1. history'[u] = NoHistory /\ \A t \in Turn : turn'[t].of = {}
  BY NoTurnType DEF Crash, Receiver
<1>2. NoHistory.sound /\ ~Asks(NoHistory.last)
  BY DEF NoHistory, Asks
<1>3. {u} # {}
  OBVIOUS
<1> QED
  BY <1>1, <1>2, <1>3 DEF Calm

LEMMA CalmsSame ==
  ASSUME Calms, UNCHANGED <<turn, history, disturbed>>
  PROVE  Calms'
  BY DEF Calms, Calm, Amid

LEMMA CalmsStep == Held /\ Calms /\ [Next]_vars => Calms'
<1> SUFFICES ASSUME Held, Calms, [Next]_vars PROVE Calms'
  OBVIOUS
<1>1. ASSUME NEW u \in User, NEW text \in Text, Send(u, text) PROVE Calms'
  BY <1>1, CalmsSame DEF Send, loopVars, historyVars
<1>2. ASSUME NEW m \in 1..Len(sent), Resend(m) PROVE Calms'
  BY <1>2, CalmsSame DEF Resend, loopVars, historyVars
<1>3. CASE Poll
  BY <1>3, CalmsSame DEF Poll, loopVars, historyVars
<1>4. ASSUME NEW r \in Receiver, Start(r) \/ Disconnect(r) PROVE Calms'
  BY <1>4, CalmsSame DEF Start, Disconnect, loopVars, historyVars
<1>5. ASSUME NEW r \in Receiver, NEW m \in 1..Len(sent), TakeAnswer(r, m) PROVE Calms'
  BY <1>5, CalmsSame DEF TakeAnswer, loopVars
<1>6. ASSUME NEW r \in Receiver, Ask(r) \/ Wait(r) PROVE Calms'
  BY <1>6, CalmsSame DEF Ask, Wait, loopVars, historyVars
<1>7. CASE UNCHANGED vars
  BY <1>7, CalmsSame DEF vars, loopVars, historyVars
<1> QED
  BY <1>1, <1>2, <1>3, <1>4, <1>5, <1>6, <1>7, CalmsCrash, TakeAsideCalm, TakeTaskCalm,
     AdvancesCalm, SeeksCalm, BlockCalm, HeardCalm, SendReplyCalm, ProviderErrorCalm,
     HandlerRaisesCalm
  DEF Next, Receive, Proceed

\* As long as no handler of a user raised and no second receiver ran a turn of the
\* user's at the same time, what a turn sends the provider is well formed.
THEOREM HistoriesAreSound == Spec => []RequestsWellFormed
<1>1. Calms => RequestsWellFormed
  <2> SUFFICES ASSUME Calms, NEW t \in Turn, NEW u \in User, turn[t].pc = "stream",
                      turn[t].of = {u}, u \notin disturbed
               PROVE  WellFormed(u)
    BY DEF RequestsWellFormed
  <2> QED
    BY CalmBefore DEF Calms, WellFormed
<1> QED
  BY <1>1, Shape, CalmsInit, CalmsStep, PTL DEF Spec

-----------------------------------------------------------------------------
(* The budget.  A request is made below the limit, and every stream under way   *)
(* may add one call to those recorded.                                          *)

Streams(u) == {t \in Turn : turn[t].pc = "stream" /\ turn[t].of = {u}}

Within(u) == used[u].iterations + Cardinality(Streams(u))
                <= MaxIterations + Cardinality(Turn) - 1

Budgeted == \A u \in User : Within(u)

LEMMA StreamsFinite ==
  ASSUME NEW u
  PROVE  /\ IsFiniteSet(Streams(u)) /\ Cardinality(Streams(u)) \in Nat
         /\ Cardinality(Streams(u)) <= Cardinality(Turn)
         /\ Cardinality(Turn) \in Nat /\ Cardinality(Turn) > 0
<1>1. Streams(u) \subseteq Turn
  BY DEF Streams
<1>2. /\ IsFiniteSet(Turn) /\ Cardinality(Turn) \in Nat /\ Cardinality(Turn) # 0
  BY GatewayAssumption, FS_CardinalityType, FS_EmptySet
<1> QED
  BY <1>1, <1>2, FS_Subset, FS_CardinalityType

LEMMA UsedType ==
  ASSUME LoopTypeOK, NEW u \in User
  PROVE  used[u].iterations \in Nat /\ MaxIterations \in Nat
  BY LoopParts, LoopAssumption DEF Uses, User

\* No stream begins and nothing is recorded.
LEMMA WithinStays ==
  ASSUME LoopTypeOK, NEW u \in User, Within(u), used'[u] = used[u],
         Streams(u)' \subseteq Streams(u)
  PROVE  Within(u)'
<1>1. Cardinality(Streams(u)') <= Cardinality(Streams(u))
  BY StreamsFinite, FS_Subset
<1>2. Cardinality(Streams(u)') \in Nat
  BY StreamsFinite, FS_Subset, FS_CardinalityType
<1> QED
  BY <1>1, <1>2, StreamsFinite, UsedType DEF Within

\* A stream ends, and may be recorded.
LEMMA WithinEnds ==
  ASSUME LoopTypeOK, NEW u \in User, Within(u), NEW t \in Streams(u),
         used'[u].iterations \in {used[u].iterations, used[u].iterations + 1},
         Streams(u)' \subseteq Streams(u) \ {t}
  PROVE  Within(u)'
<1>1. /\ IsFiniteSet(Streams(u) \ {t})
      /\ Cardinality(Streams(u) \ {t}) = Cardinality(Streams(u)) - 1
  BY StreamsFinite, FS_RemoveElement
<1>2. /\ Cardinality(Streams(u)') <= Cardinality(Streams(u) \ {t})
      /\ Cardinality(Streams(u)') \in Nat
  BY <1>1, FS_Subset, FS_CardinalityType
<1> QED
  BY <1>1, <1>2, StreamsFinite, UsedType DEF Within

\* A stream begins below the limit.
LEMMA WithinBegins ==
  ASSUME LoopTypeOK, NEW u \in User, used' = used, used[u].iterations < MaxIterations
  PROVE  Within(u)'
<1>1. /\ Cardinality(Streams(u)') \in Nat
      /\ Cardinality(Streams(u)') <= Cardinality(Turn)
  <2>1. Streams(u)' \subseteq Turn
    BY DEF Streams
  <2> QED
    BY <2>1, GatewayAssumption, FS_Subset, FS_CardinalityType
<1>2. /\ Within(u)' <=> used[u].iterations + Cardinality(Streams(u)')
                           <= MaxIterations + Cardinality(Turn) - 1
      /\ used[u].iterations \in Nat /\ MaxIterations \in Nat /\ Cardinality(Turn) \in Nat
  BY UsedType, StreamsFinite DEF Within
<1> QED
  BY <1>1, <1>2

\* A step of one turn: the streams of other users stay.
LEMMA BudgetMoves ==
  ASSUME LoopTypeOK, Budgeted, NEW t \in Turn, NEW s \in User,
         turn[t].of \in {{s}, {}}, turn'[t].of \in {{s}, {}},
         \A q \in Turn \ {t} : turn'[q] = turn[q],
         \A u \in User \ {s} : used'[u] = used[u],
         \/ turn'[t].pc # "stream" /\ used' = used
         \/ /\ turn'[t].pc # "stream" /\ t \in Streams(s)
            /\ used'[s].iterations \in {used[s].iterations, used[s].iterations + 1}
         \/ used' = used /\ used[s].iterations < MaxIterations
  PROVE  Budgeted'
<1>1. ASSUME NEW u \in User \ {s} PROVE Within(u)'
  <2>1. {u} # {s} /\ {u} # {}
    OBVIOUS
  <2>2. Streams(u)' \subseteq Streams(u)
    BY <2>1 DEF Streams
  <2> QED
    BY <2>2, WithinStays DEF Budgeted
<1>2. Within(s)'
  <2>1. CASE turn'[t].pc # "stream" /\ used' = used
    <3>1. Streams(s)' \subseteq Streams(s)
      BY <2>1 DEF Streams
    <3> QED
      BY <2>1, <3>1, WithinStays DEF Budgeted
  <2>2. CASE /\ turn'[t].pc # "stream" /\ t \in Streams(s)
             /\ used'[s].iterations \in {used[s].iterations, used[s].iterations + 1}
    <3>1. Streams(s)' \subseteq Streams(s) \ {t}
      BY <2>2 DEF Streams
    <3> QED
      BY <2>2, <3>1, WithinEnds DEF Budgeted
  <2>3. CASE used' = used /\ used[s].iterations < MaxIterations
    BY <2>3, WithinBegins
  <2> QED
    BY <2>1, <2>2, <2>3
<1> QED
  BY <1>1, <1>2 DEF Budgeted

LEMMA ResultBudget ==
  ASSUME Held, Budgeted, NEW t \in Turn, NEW s \in User, turn[t].of = {s},
         turn[t].pc \in {"tools", "approve"}, Result(t, s)
  PROVE  Budgeted'
<1>1. /\ used' = used /\ turn'[t].pc # "stream" /\ turn'[t].of = {s}
      /\ \A q \in Turn \ {t} : turn'[q] = turn[q]
  BY ResultMoves DEF MovesTo, Held, User
<1> QED
  BY <1>1, BudgetMoves DEF Held

LEMMA AdvancesBudget ==
  ASSUME Held, Budgeted, NEW r \in Receiver, Advances(r)
  PROVE  Budgeted'
<1>0. PICK s : s = Of(r)
  OBVIOUS
<1>1. /\ r \in Turn /\ s \in Session /\ s \in User /\ turn[r].of = {s} /\ LoopTypeOK
  BY <1>0, AdvanceCases DEF Held, User
<1>2. CASE SpendNothing(r, s)
  <2>1. /\ used' = used /\ turn'[r].pc # "stream" /\ turn'[r].of = {s}
        /\ \A q \in Turn \ {r} : turn'[q] = turn[q]
    BY <1>1, <1>2, SpendNothingMoves DEF MovesTo
  <2> QED
    BY <1>1, <2>1, BudgetMoves
<1>3. CASE Request(r, s)
  <2>1. /\ used' = used /\ used[s].iterations < MaxIterations /\ turn'[r].of = {s}
        /\ \A q \in Turn \ {r} : turn'[q] = turn[q]
    BY <1>1, <1>3, RequestMoves DEF MovesTo
  <2> QED
    BY <1>1, <2>1, BudgetMoves
<1>4. CASE RunSafe(r, s)
  BY <1>1, <1>4, ResultBudget DEF RunSafe
<1>5. ASSUME NEW calls \in Reply, Answer(r, s, calls) PROVE Budgeted'
  <2>1. /\ turn[r].pc = "stream" /\ turn'[r].pc # "stream" /\ turn'[r].of = {s}
        /\ used'[s].iterations \in {used[s].iterations, used[s].iterations + 1}
        /\ \A q \in Turn \ {r} : turn'[q] = turn[q]
        /\ \A u \in User \ {s} : used'[u] = used[u]
    BY <1>1, <1>5, AnswerMoves DEF MovesTo, User
  <2>2. r \in Streams(s)
    BY <1>1, <2>1 DEF Streams
  <2> QED
    BY <1>1, <2>1, <2>2, BudgetMoves
<1> QED
  BY <1>0, <1>2, <1>3, <1>4, <1>5, AdvanceCases

LEMMA HandlerRaisesBudget ==
  ASSUME Held, Budgeted, NEW r \in Receiver, HandlerRaises(r)
  PROVE  Budgeted'
<1>0. PICK s : s = Of(r)
  OBVIOUS
<1>1. r \in Turn /\ s \in Session /\ s \in User /\ Raises(r, s)
  BY <1>0, HandlerRaisesHeld DEF User
<1>2. /\ turn'[r].of = {} /\ turn'[r].pc # "stream" /\ turn[r].of = {s}
      /\ \A q \in Turn \ {r} : turn'[q] = turn[q]
      /\ \A u \in User \ {s} : used'[u] = used[u]
      /\ \/ used' = used
         \/ turn[r].pc = "stream" /\ used'[s].iterations = used[s].iterations + 1
  BY <1>1, RaisesMoves, NoTurnType DEF Held, User
<1>3. turn[r].pc = "stream" => r \in Streams(s)
  BY <1>1, <1>2 DEF Streams
<1> QED
  BY <1>1, <1>2, <1>3, BudgetMoves DEF Held

\* The steps that neither make nor end a request.
LEMMA BesideBudget ==
  ASSUME Held, Budgeted, used' = used, NEW t \in Turn,
         \A q \in Turn \ {t} : turn'[q] = turn[q], turn'[t].pc # "stream"
  PROVE  Budgeted'
<1>1. \A u \in User : Streams(u)' \subseteq Streams(u)
  BY DEF Streams
<1> QED
  BY <1>1, WithinStays DEF Budgeted, Held

LEMMA BudgetSame ==
  ASSUME Budgeted, UNCHANGED <<turn, used>>
  PROVE  Budgeted'
  BY DEF Budgeted, Within, Streams

LEMMA BudgetStart ==
  ASSUME \A u \in User : used[u].iterations = 0, \A t \in Turn : turn[t].pc = "off"
  PROVE  Budgeted
<1> SUFFICES ASSUME NEW u \in User PROVE Within(u)
  BY DEF Budgeted
<1>1. Streams(u) = {}
  BY DEF Streams
<1>2. Cardinality(Streams(u)) = 0
  BY <1>1, FS_EmptySet
<1> QED
  BY <1>2, StreamsFinite, LoopAssumption DEF Within

LEMMA BudgetCrash ==
  ASSUME Crash
  PROVE  Budgeted'
<1>1. (\A u \in User : used[u].iterations = 0)' /\ (\A t \in Turn : turn[t].pc = "off")'
  BY NoTurnType DEF Crash, Receiver
<1> SUFFICES ASSUME NEW u \in User PROVE Within(u)'
  BY DEF Budgeted
<1>2. Streams(u)' = {}
  BY <1>1 DEF Streams
<1>3. Cardinality(Streams(u)') = 0
  BY <1>2, FS_EmptySet
<1> QED
  BY <1>1, <1>3, StreamsFinite, LoopAssumption DEF Within

LEMMA BudgetInit == Init => Budgeted
  BY BudgetStart, NoTurnType DEF Init, LoopInit, User

LEMMA BudgetStep == Held /\ Budgeted /\ [Next]_vars => Budgeted'
<1> SUFFICES ASSUME Held, Budgeted, [Next]_vars PROVE Budgeted'
  OBVIOUS
<1>1. ASSUME NEW u \in User, NEW text \in Text, Send(u, text) PROVE Budgeted'
  BY <1>1, BudgetSame DEF Send, loopVars
<1>2. ASSUME NEW m \in 1..Len(sent), Resend(m) PROVE Budgeted'
  BY <1>2, BudgetSame DEF Resend, loopVars
<1>3. CASE Poll
  BY <1>3, BudgetSame DEF Poll, loopVars
<1>4. ASSUME NEW r \in Receiver, Start(r) \/ Disconnect(r) PROVE Budgeted'
  BY <1>4, BudgetSame DEF Start, Disconnect, loopVars
<1>5. ASSUME NEW r \in Receiver, NEW m \in 1..Len(sent), TakeAnswer(r, m) PROVE Budgeted'
  BY <1>5, BudgetSame DEF TakeAnswer, loopVars
<1>6. ASSUME NEW r \in Receiver, Ask(r) \/ Wait(r) PROVE Budgeted'
  BY <1>6, BudgetSame DEF Ask, Wait, loopVars
<1>7. ASSUME NEW r \in Receiver, NEW m \in 1..Len(sent), TakeAside(r, m) PROVE Budgeted'
  <2>1. used' = used /\ MovesTo(r, sent[m].user, "over") /\ r \in Turn
    BY <1>7, TakeAsideHeld DEF TakeAside
  <2> QED
    BY <2>1, BesideBudget DEF MovesTo
<1>8. ASSUME NEW r \in Receiver, NEW m \in 1..Len(sent), TakeTask(r, m) PROVE Budgeted'
  <2>0. PICK s : s = sent[m].user
    OBVIOUS
  <2>1. used' = used /\ MovesTo(r, s, "check") /\ r \in Turn
    BY <1>8, <2>0, TakeTaskHeld, BeginMoves DEF TakeTask, Held
  <2> QED
    BY <2>1, BesideBudget DEF MovesTo
<1>9. ASSUME NEW r \in Receiver, Seeks(r) PROVE Budgeted'
  <2>0. PICK s : s = Of(r)
    OBVIOUS
  <2>1. /\ r \in Turn /\ s \in Session /\ turn[r].of = {s} /\ SeekApproval(r)
    BY <1>9, <2>0, OfType DEF Seeks, Working, User, Receiver
  <2>2. used' = used /\ MovesTo(r, s, "approve")
    BY <2>1, SeekMoves DEF Held
  <2> QED
    BY <2>1, <2>2, BesideBudget DEF MovesTo
<1>10. ASSUME NEW r \in Receiver, Block(r) \/ Approve(r) \/ Refuse(r) PROVE Budgeted'
  <2>0. PICK s : s = Of(r)
    OBVIOUS
  <2>1. /\ Working(r) /\ Result(r, s) /\ r \in Turn
    BY <1>10, <2>0 DEF Block, Approve, Refuse, Denied, Heard, Working, Receiver
  <2>2. s \in User /\ turn[r].of = {s} /\ turn[r].pc = "approve"
    BY <1>10, <2>0, <2>1, OfType DEF Block, Approve, Refuse, Heard, Held, RcvOK, Fits
  <2> QED
    BY <2>1, <2>2, ResultBudget
<1>11. ASSUME NEW r \in Receiver, SendReply(r) PROVE Budgeted'
  BY <1>11, SendReplyHeld, NoTurnType, BesideBudget DEF SendReply
<1>12. ASSUME NEW r \in Receiver, ProviderError(r) PROVE Budgeted'
  <2>1. used' = used /\ MovesTo(r, Of(r), "over") /\ r \in Turn
    BY <1>12, ProviderErrorHeld DEF ProviderError, Receiver
  <2> QED
    BY <2>1, BesideBudget DEF MovesTo
<1>13. CASE UNCHANGED vars
  BY <1>13, BudgetSame DEF vars, loopVars
<1> QED
  BY <1>1, <1>2, <1>3, <1>4, <1>5, <1>6, <1>7, <1>8, <1>9, <1>10, <1>11, <1>12, <1>13,
     BudgetCrash, AdvancesBudget, HandlerRaisesBudget
  DEF Next, Receive, Proceed

\* Whichever turns share a session's budget, the calls recorded overrun it by less
\* than one for each receiver.
THEOREM BudgetIsShared == Spec => []BudgetHolds
<1>1. Held /\ Budgeted => BudgetHolds
  <2> SUFFICES ASSUME Held, Budgeted, NEW u \in User
               PROVE  used[u].iterations <= MaxIterations + Cardinality(Receiver) - 1
    BY DEF BudgetHolds
  <2>1. Within(u) /\ LoopTypeOK
    BY DEF Budgeted, Held
  <2> QED
    BY <2>1, StreamsFinite, UsedType DEF Within, Receiver
<1> QED
  BY <1>1, Shape, BudgetInit, BudgetStep, PTL DEF Spec

-----------------------------------------------------------------------------
(* Approvals.  As long as nothing is delivered twice and the process lives, a   *)
(* message is in one place: still to be taken, the answer of one question, a    *)
(* task, or the yes of one approved call.                                       *)

Answered(r) == rcv[r].pc = "waiting" /\ rcv[r].answer # 0
Untaken == (next + 1)..Len(queue)

\* An answer is of the user who was asked, and a call approved by a yes of its user.
Own == /\ \A r \in Receiver : Answered(r) => sent[rcv[r].answer].user = Of(r)
       /\ \A k \in 1..Len(allowed) : /\ sent[allowed[k].by].text = "yes"
                                     /\ sent[allowed[k].by].user = allowed[k].user

Fresh == /\ \A i \in Untaken : queue[i] \notin taken
         /\ \A i, j \in Untaken : queue[i] = queue[j] => i = j

Single ==
    /\ tasks \subseteq taken
    /\ \A k \in 1..Len(allowed) : allowed[k].by \in taken \ tasks
    /\ \A j, k \in 1..Len(allowed) : allowed[j].by = allowed[k].by => j = k
    /\ \A r \in Receiver : Answered(r) =>
          /\ rcv[r].answer \in taken \ tasks
          /\ \A k \in 1..Len(allowed) : allowed[k].by # rcv[r].answer
    /\ \A r, q \in Receiver :
          Answered(r) /\ Answered(q) /\ rcv[r].answer = rcv[q].answer => r = q

Once == resent = 0 /\ crashes = 0 => Fresh /\ Single

\* No question is answered by the step.
Fewer == \A r \in Receiver : Answered(r)' => Answered(r) /\ rcv'[r] = rcv[r]

LEMMA AnswerType ==
  ASSUME Held
  PROVE  /\ \A r \in Receiver : Answered(r) => rcv[r].answer \in 1..Len(sent)
         /\ \A k \in 1..Len(allowed) : allowed[k].by \in 1..Len(sent)
<1>1. ASSUME NEW r \in Receiver, Answered(r) PROVE rcv[r].answer \in 1..Len(sent)
  <2>1. rcv[r].answer \in 0..Len(sent) /\ rcv[r].answer # 0 /\ Len(sent) \in Nat
    BY <1>1 DEF Held, RcvOK, Rcvs, SentOK, Answered
  <2> QED
    BY <2>1
<1>2. ASSUME NEW k \in 1..Len(allowed) PROVE allowed[k].by \in 1..Len(sent)
  <2>1. allowed[k] \in [user : User, by : 1..Len(sent)]
    BY ElementOfSeq DEF Held, RecordsOK
  <2> QED
    BY <2>1
<1> QED
  BY <1>1, <1>2

LEMMA FewerAnswers ==
  ASSUME NEW r \in Receiver, \A q \in Receiver \ {r} : rcv'[q] = rcv[q], ~Answered(r)'
  PROVE  Fewer
  BY DEF Fewer, Answered

LEMMA OwnStays ==
  ASSUME Held, Own, Fewer, allowed' = allowed,
         \A k \in 1..Len(sent) : sent'[k] = sent[k]
  PROVE  Own'
<1>1. ASSUME NEW r \in Receiver, Answered(r)'
      PROVE  sent'[rcv'[r].answer].user = Of(r)'
  <2>1. Answered(r) /\ rcv'[r] = rcv[r]
    BY <1>1 DEF Fewer
  <2>2. rcv[r].answer \in 1..Len(sent) /\ rcv[r].msg \in 1..Len(sent)
    BY <2>1, AnswerType, OfType DEF Answered, Working
  <2> QED
    BY <2>1, <2>2 DEF Own, Of
<1>2. ASSUME NEW k \in 1..Len(allowed)
      PROVE  sent'[allowed[k].by].text = "yes" /\ sent'[allowed[k].by].user = allowed[k].user
  BY <1>2, AnswerType DEF Own
<1> QED
  BY <1>1, <1>2 DEF Own

LEMMA SingleStays ==
  ASSUME Single, Fewer, UNCHANGED <<tasks, allowed>>, taken \subseteq taken'
  PROVE  Single'
  BY DEF Single, Fewer

\* A message is taken off the queue: it is new.
LEMMA TakesFresh ==
  ASSUME Held, NEW r \in Receiver, NEW m \in 1..Len(sent), Takes(r, m), Fresh
  PROVE  Fresh' /\ m \notin taken /\ taken' = taken \union {m}
<1>1. /\ queue \in Seq(1..Len(sent)) /\ next \in Nat /\ Len(queue) \in Nat
      /\ next <= batch /\ batch \in Nat /\ batch <= Len(queue)
      /\ kind # "telegram" => batch = 0
      /\ taken' = taken \union {m}
  BY DEF Held, QueueOK, Takes
<1>2. CASE kind = "telegram"
  <2>1. next < batch /\ m = queue[next + 1] /\ next' = next + 1 /\ queue' = queue
    BY <1>2 DEF Takes
  <2>2. next + 1 \in Untaken /\ Untaken' \subseteq Untaken /\ next + 1 \notin Untaken'
    BY <1>1, <2>1 DEF Untaken
  <2> QED
    BY <1>1, <2>1, <2>2 DEF Fresh
<1>3. CASE kind # "telegram"
  <2>1. /\ queue # <<>> /\ m = queue[1] /\ queue' = Tail(queue) /\ next' = next /\ next = 0
        /\ Len(queue) # 0
    BY <1>1, <1>3 DEF Takes
  <2>2. /\ Len(queue') = Len(queue) - 1 /\ \A i \in 1..Len(queue') : queue'[i] = queue[i + 1]
    BY <1>1, <2>1, HeadTailProperties
  <2>3. 1 \in Untaken
    BY <1>1, <2>1 DEF Untaken
  <2>4. ASSUME NEW i \in Untaken'
        PROVE  i \in Nat /\ i + 1 \in Untaken /\ i + 1 # 1 /\ queue'[i] = queue[i + 1]
    BY <1>1, <2>1, <2>2, <2>4 DEF Untaken
  <2>5. m \notin taken
    BY <2>1, <2>3 DEF Fresh
  <2>6. ASSUME NEW i \in Untaken' PROVE queue'[i] \notin taken'
    <3>1. queue[i + 1] \notin taken /\ queue[i + 1] # m
      BY <2>1, <2>3, <2>4 DEF Fresh
    <3> QED
      BY <1>1, <2>4, <3>1
  <2>7. ASSUME NEW i \in Untaken', NEW j \in Untaken', queue'[i] = queue'[j]
        PROVE  i = j
    <3>1. i + 1 = j + 1
      BY <2>4, <2>7 DEF Fresh
    <3> QED
      BY <2>4, <3>1
  <2> QED
    BY <1>1, <2>5, <2>6, <2>7 DEF Fresh
<1> QED
  BY <1>2, <1>3

LEMMA OnceStays ==
  ASSUME Once, Fewer, UNCHANGED <<queue, next, resent, crashes, taken, tasks, allowed>>
  PROVE  Once'
  BY SingleStays DEF Once, Fresh, Untaken

LEMMA OneTakeAnswer ==
  ASSUME Held, Own, Once, NEW r \in Receiver, NEW m \in 1..Len(sent), TakeAnswer(r, m)
  PROVE  Own' /\ Once'
<1>1. /\ Takes(r, m) /\ UNCHANGED <<sent, waiter, resent, crashes, tasks, allowed>>
  BY DEF TakeAnswer
<1>2. PICK q \in Receiver : /\ rcv[q].pc = "waiting" /\ Of(q) = sent[m].user
                            /\ rcv' = [rcv EXCEPT ![q].answer = m]
  BY TakeAnswerHeld
<1>3. m # 0 /\ rcv \in [Receiver -> Rcvs]
  BY DEF Held, RcvOK, SentOK
<1>4. /\ Answered(q)' /\ rcv'[q].answer = m /\ Of(q)' = Of(q)
      /\ \A p \in Receiver \ {q} : rcv'[p] = rcv[p]
  BY <1>1, <1>2, <1>3 DEF Answered, Of, Rcvs
<1>5. \A p \in Receiver \ {q} : (Answered(p)' <=> Answered(p)) /\ Of(p)' = Of(p)
  BY <1>1, <1>4 DEF Answered, Of
<1>6. Own'
  BY <1>1, <1>2, <1>4, <1>5 DEF Own
<1>7. ASSUME resent' = 0, crashes' = 0 PROVE Fresh' /\ Single'
  <2>1. Fresh /\ Single
    BY <1>1, <1>7 DEF Once
  <2>2. Fresh' /\ m \notin taken /\ taken' = taken \union {m}
    BY <1>1, <2>1, TakesFresh
  <2>3. m \notin tasks /\ \A k \in 1..Len(allowed) : allowed[k].by # m
    BY <2>1, <2>2 DEF Single
  <2>4. \A p \in Receiver \ {q} : Answered(p) => rcv[p].answer # m
    BY <2>1, <2>2 DEF Single
  <2>5. \A p \in Receiver : Answered(p)' =>
          /\ rcv'[p].answer \in taken' \ tasks
          /\ \A k \in 1..Len(allowed) : allowed[k].by # rcv'[p].answer
    BY <1>4, <1>5, <2>1, <2>2, <2>3 DEF Single
  <2>6. \A p, x \in Receiver :
          Answered(p)' /\ Answered(x)' /\ rcv'[p].answer = rcv'[x].answer => p = x
    BY <1>4, <1>5, <2>1, <2>4 DEF Single
  <2>7. Single'
    BY <1>1, <2>1, <2>2, <2>5, <2>6 DEF Single
  <2> QED
    BY <2>2, <2>7
<1> QED
  BY <1>6, <1>7 DEF Once

\* A message that is handled, as a task or aside.
LEMMA OneHandles ==
  ASSUME Held, Own, Once, NEW r \in Receiver, NEW m \in 1..Len(sent), Handles(r, m),
         tasks' \in {tasks, tasks \union {m}}
  PROVE  Own' /\ Once'
<1>1. /\ Takes(r, m) /\ UNCHANGED <<sent, resent, crashes, allowed>>
      /\ rcv' = [rcv EXCEPT ![r] = [pc |-> "handle", msg |-> m, answer |-> 0]]
  BY DEF Handles
<1>2. ~Answered(r)' /\ \A q \in Receiver \ {r} : rcv'[q] = rcv[q]
  BY <1>1 DEF Held, RcvOK, Answered
<1>3. Fewer
  BY <1>2, FewerAnswers
<1>4. Own'
  BY <1>1, <1>3, OwnStays
<1>5. ASSUME resent' = 0, crashes' = 0 PROVE Fresh' /\ Single'
  <2>1. Fresh /\ Single
    BY <1>1, <1>5 DEF Once
  <2>2. Fresh' /\ m \notin taken /\ taken' = taken \union {m}
    BY <1>1, <2>1, TakesFresh
  <2>3. tasks' \subseteq taken' /\ tasks' \intersect taken \subseteq tasks
    BY <2>1, <2>2 DEF Single
  <2>4. \A k \in 1..Len(allowed) : allowed[k].by \in taken' \ tasks'
    BY <2>1, <2>2, <2>3 DEF Single
  <2>5. \A p \in Receiver : Answered(p)' =>
          /\ rcv'[p].answer \in taken' \ tasks'
          /\ \A k \in 1..Len(allowed) : allowed[k].by # rcv'[p].answer
    BY <1>3, <2>1, <2>2, <2>3 DEF Single, Fewer
  <2>6. \A p, x \in Receiver :
          Answered(p)' /\ Answered(x)' /\ rcv'[p].answer = rcv'[x].answer => p = x
    BY <1>3, <2>1 DEF Single, Fewer
  <2> QED
    BY <1>1, <2>1, <2>2, <2>3, <2>4, <2>5, <2>6 DEF Single
<1> QED
  BY <1>4, <1>5 DEF Once

LEMMA OneApprove ==
  ASSUME Held, Own, Once, NEW r \in Receiver, Approve(r)
  PROVE  Own' /\ Once'
<1> DEFINE a == [user |-> Of(r), by |-> rcv[r].answer]
           n == Len(allowed)
<1>1. /\ Answered(r) /\ sent[rcv[r].answer].text = "yes"
      /\ allowed' = Append(allowed, a)
      /\ rcv' = [rcv EXCEPT ![r].pc = "handle"]
      /\ UNCHANGED <<sent, queue, next, resent, crashes, taken, tasks>>
  BY DEF Approve, Heard, Answered, rest
<1>2. /\ Len(allowed') = n + 1 /\ n \in Nat /\ allowed'[n + 1] = a
      /\ \A k \in 1..n : allowed'[k] = allowed[k]
  BY <1>1, AppendProperties DEF Held, RecordsOK
<1>3. a.user = Of(r) /\ a.by = rcv[r].answer
  OBVIOUS
<1> HIDE DEF a
<1>4. ~Answered(r)' /\ \A q \in Receiver \ {r} : rcv'[q] = rcv[q]
  BY <1>1 DEF Held, RcvOK, Rcvs, Answered
<1>5. Fewer
  BY <1>4, FewerAnswers
<1>6. \A k \in 1..Len(allowed') : k \in 1..n \/ k = n + 1
  BY <1>2
<1>7. Own'
  <2>1. \A p \in Receiver : Answered(p)' => sent[rcv'[p].answer].user = Of(p)'
    BY <1>1, <1>5 DEF Own, Fewer, Of
  <2>2. sent[a.by].text = "yes" /\ sent[a.by].user = a.user
    BY <1>1, <1>3 DEF Own
  <2>3. \A k \in 1..Len(allowed') : /\ sent[allowed'[k].by].text = "yes"
                                    /\ sent[allowed'[k].by].user = allowed'[k].user
    BY <1>2, <1>6, <2>2 DEF Own
  <2> QED
    BY <1>1, <2>1, <2>3 DEF Own
<1>8. ASSUME resent' = 0, crashes' = 0 PROVE Fresh' /\ Single'
  <2>1. Fresh /\ Single
    BY <1>1, <1>8 DEF Once
  <2>2. Fresh'
    BY <1>1, <2>1 DEF Fresh, Untaken
  <2>3. a.by \in taken \ tasks /\ \A k \in 1..n : allowed[k].by # a.by
    BY <1>1, <1>3, <2>1 DEF Single
  <2>4. \A k \in 1..Len(allowed') : allowed'[k].by \in taken \ tasks
    BY <1>2, <1>6, <2>1, <2>3 DEF Single
  <2>5. \A j, k \in 1..Len(allowed') : allowed'[j].by = allowed'[k].by => j = k
    BY <1>2, <1>6, <2>1, <2>3 DEF Single
  <2>6. ASSUME NEW p \in Receiver, Answered(p)'
        PROVE  /\ rcv'[p].answer \in taken \ tasks
               /\ \A k \in 1..Len(allowed') : allowed'[k].by # rcv'[p].answer
    <3>1. Answered(p) /\ rcv'[p] = rcv[p] /\ p # r
      BY <1>4, <1>5, <2>6 DEF Fewer
    <3>2. a.by # rcv[p].answer
      BY <1>1, <1>3, <2>1, <3>1 DEF Single
    <3> QED
      BY <1>2, <1>6, <2>1, <3>1, <3>2 DEF Single
  <2>7. \A p, x \in Receiver :
          Answered(p)' /\ Answered(x)' /\ rcv'[p].answer = rcv'[x].answer => p = x
    BY <1>5, <2>1 DEF Single, Fewer
  <2> QED
    BY <1>1, <2>1, <2>2, <2>4, <2>5, <2>6, <2>7 DEF Single
<1> QED
  BY <1>7, <1>8 DEF Once

\* A message is new in the queue when it is sent.
LEMMA OneSend ==
  ASSUME Held, Own, Once, NEW u \in User, NEW text \in Text, Send(u, text)
  PROVE  Own' /\ Once'
<1> DEFINE n == Len(sent)
<1>1. /\ queue' = queue \/ queue' = Append(queue, n + 1)
      /\ UNCHANGED <<next, rcv, resent, crashes>>
      /\ UNCHANGED <<taken, tasks, allowed>>
  BY DEF Send, historyVars
<1>2. /\ n \in Nat /\ \A k \in 1..n : sent'[k] = sent[k]
      /\ queue \in Seq(1..n) /\ next \in Nat /\ next <= Len(queue) /\ Len(queue) \in Nat
      /\ taken \subseteq 1..n
  <2>1. \A k \in 1..n : sent'[k] = sent[k]
    BY SendHeld
  <2>2. /\ queue \in Seq(1..n) /\ batch \in Nat /\ next \in Nat /\ next <= batch
        /\ batch <= Len(queue) /\ taken \subseteq 1..n
    BY DEF Held, QueueOK, RecordsOK
  <2>3. n \in Nat /\ Len(queue) \in Nat
    BY <2>2 DEF Held, SentOK
  <2> HIDE DEF n
  <2> QED
    BY <2>1, <2>2, <2>3
<1>3. Fewer
  BY <1>1 DEF Fewer, Answered
<1>4. Own'
  BY <1>1, <1>2, <1>3, OwnStays
<1>5. ASSUME Fresh PROVE Fresh'
  <2>1. CASE queue' = queue
    BY <1>1, <1>5, <2>1 DEF Fresh, Untaken
  <2>2. CASE queue' = Append(queue, n + 1)
    <3> DEFINE l == Len(queue) + 1
    <3>1. /\ Len(queue') = l /\ queue'[l] = n + 1
          /\ \A k \in 1..Len(queue) : queue'[k] = queue[k] /\ queue[k] \in 1..n
      BY <1>2, <2>2, AppendProperties, ElementOfSeq
    <3>2. \A i \in Untaken' : i = l \/ (i \in Untaken /\ i \in 1..Len(queue))
      BY <1>1, <1>2, <3>1 DEF Untaken
    <3>3. n + 1 \notin 1..n
      BY <1>2
    <3> HIDE DEF l, n
    <3>4. ASSUME NEW i \in Untaken' PROVE queue'[i] \notin taken
      BY <1>2, <1>5, <3>1, <3>2, <3>3, <3>4 DEF Fresh
    <3>5. ASSUME NEW i \in Untaken', NEW j \in Untaken', queue'[i] = queue'[j]
          PROVE  i = j
      <4>1. CASE i = l \/ j = l
        BY <3>1, <3>2, <3>3, <3>5, <4>1
      <4>2. CASE i # l /\ j # l
        BY <1>5, <3>1, <3>2, <3>5, <4>2 DEF Fresh
      <4> QED
        BY <4>1, <4>2
    <3> QED
      BY <1>1, <3>4, <3>5 DEF Fresh
  <2> QED
    BY <1>1, <2>1, <2>2
<1>6. Once'
  BY <1>1, <1>3, <1>5, SingleStays DEF Once
<1> QED
  BY <1>4, <1>6

LEMMA OnePoll ==
  ASSUME Held, Own, Once, Poll
  PROVE  Own' /\ Once'
<1>1. /\ UNCHANGED <<sent, rcv, resent, crashes>> /\ UNCHANGED <<taken, tasks, allowed>>
  BY DEF Poll, historyVars
<1>2. /\ next' = 0 /\ next \in Nat /\ Len(queue') = Len(queue) - next
      /\ \A k \in 1..Len(queue') : queue'[k] = queue[next + k]
      /\ Len(queue) \in Nat
  BY PollHeld DEF Held, QueueOK
<1>3. Fewer
  BY <1>1 DEF Fewer, Answered
<1>4. Own'
  BY <1>1, <1>3, OwnStays
<1>5. ASSUME Fresh PROVE Fresh'
  <2>1. ASSUME NEW i \in Untaken'
        PROVE  i \in Nat /\ next + i \in Untaken /\ queue'[i] = queue[next + i]
    BY <1>2, <2>1 DEF Untaken
  <2>2. ASSUME NEW i \in Untaken', NEW j \in Untaken', queue'[i] = queue'[j]
        PROVE  i = j
    <3>1. next + i = next + j
      BY <2>1, <2>2, <1>5 DEF Fresh
    <3> QED
      BY <1>2, <2>1, <3>1
  <2>3. \A i \in Untaken' : queue'[i] \notin taken
    BY <1>5, <2>1 DEF Fresh
  <2> QED
    BY <1>1, <2>2, <2>3 DEF Fresh
<1> QED
  BY <1>1, <1>3, <1>4, <1>5, SingleStays DEF Once

LEMMA OneStart ==
  ASSUME Held, Own, Once, NEW r \in Receiver, Start(r)
  PROVE  Own' /\ Once'
<1>1. /\ rcv[r].pc = "off" /\ rcv' = [rcv EXCEPT ![r].pc = "get"]
      /\ next' = next /\ queue' \in {<<>>, queue}
      /\ UNCHANGED <<sent, resent, crashes>> /\ UNCHANGED <<taken, tasks, allowed>>
  BY DEF Start, historyVars
<1>2. ~Answered(r)' /\ \A q \in Receiver \ {r} : rcv'[q] = rcv[q]
  BY <1>1 DEF Held, RcvOK, Rcvs, Answered
<1>3. Fewer
  BY <1>2, FewerAnswers
<1>4. Own'
  BY <1>1, <1>3, OwnStays
<1>5. Untaken' \subseteq Untaken /\ \A i \in Untaken' : queue'[i] = queue[i]
  <2>1. CASE queue' = queue
    BY <1>1, <2>1 DEF Untaken
  <2>2. CASE queue' = <<>>
    <3>1. Untaken' = (next + 1)..0 /\ next \in Nat
      BY <1>1, <2>2 DEF Untaken, Held, QueueOK
    <3>2. Untaken' = {}
      BY <3>1
    <3> QED
      BY <3>2
  <2> QED
    BY <1>1, <2>1, <2>2
<1>6. Fresh => Fresh'
  BY <1>1, <1>5 DEF Fresh
<1> QED
  BY <1>1, <1>3, <1>4, <1>6, SingleStays DEF Once

\* A repeated delivery and a death of the process are set apart.
LEMMA OneResend ==
  ASSUME Held, Own, NEW m \in 1..Len(sent), Resend(m)
  PROVE  Own' /\ Once'
<1>1. UNCHANGED <<sent, rcv, allowed>> /\ resent' # 0
  BY ResendHeld DEF Resend, historyVars
<1>2. Fewer
  BY <1>1 DEF Fewer, Answered
<1> QED
  BY <1>1, <1>2, OwnStays DEF Once

LEMMA OneCrash ==
  ASSUME Held, Own, Crash
  PROVE  Own' /\ Once'
<1>1. UNCHANGED <<sent, allowed>> /\ crashes' # 0 /\ rcv' = [r \in Receiver |-> Off]
  BY DEF Crash, Held, RecordsOK
<1>2. \A r \in Receiver : rcv'[r].answer = 0
  BY <1>1 DEF Off
<1>3. Fewer
  BY <1>2 DEF Fewer, Answered
<1> QED
  BY <1>1, <1>3, OwnStays DEF Once

\* Everything else: no answer comes, and no message moves.
LEMMA OneElse ==
  ASSUME Held, Own, Once, NEW r \in Receiver, ~Answered(r)',
         \A q \in Receiver \ {r} : rcv'[q] = rcv[q],
         UNCHANGED <<sent, queue, next, resent, crashes, taken, tasks, allowed>>
  PROVE  Own' /\ Once'
<1>1. Fewer
  BY FewerAnswers
<1> QED
  BY <1>1, OwnStays, OnceStays

LEMMA OneSame ==
  ASSUME Held, Own, Once,
         UNCHANGED <<sent, queue, next, rcv, resent, crashes, taken, tasks, allowed>>
  PROVE  Own' /\ Once'
<1>1. Fewer
  BY DEF Fewer, Answered
<1> QED
  BY <1>1, OwnStays, OnceStays

LEMMA OneProceed ==
  ASSUME Held, Own, Once, NEW r \in Receiver,
         \/ Disconnect(r) \/ Advances(r) \/ Seeks(r) \/ Block(r) \/ Ask(r) \/ Wait(r)
         \/ Refuse(r) \/ SendReply(r) \/ ProviderError(r) \/ HandlerRaises(r)
  PROVE  Own' /\ Once'
<1>0. rcv \in [Receiver -> Rcvs]
  BY DEF Held, RcvOK
<1>1. CASE Advances(r) \/ Seeks(r) \/ Block(r) \/ ProviderError(r)
  BY <1>1, OneSame DEF Advances, Seeks, Block, ProviderError, rest, historyVars
<1>2. ASSUME \/ Disconnect(r) \/ Ask(r) \/ Wait(r) \/ Refuse(r) \/ SendReply(r)
             \/ HandlerRaises(r)
      PROVE  /\ UNCHANGED <<sent, queue, next, resent, crashes, taken, tasks, allowed>>
             /\ \A q \in Receiver \ {r} : rcv'[q] = rcv[q]
             /\ ~Answered(r)'
  <2>1. CASE Disconnect(r)
    BY <1>0, <2>1 DEF Disconnect, Answered, Rcvs, historyVars
  <2>2. CASE Ask(r)
    BY <1>0, <2>2 DEF Ask, Answered, Rcvs, rest, historyVars
  <2>3. CASE Wait(r)
    BY <1>0, <2>3 DEF Wait, Answered, Rcvs, rest, historyVars
  <2>4. CASE Refuse(r)
    BY <1>0, <2>4 DEF Refuse, Heard, Answered, Rcvs, rest, historyVars
  <2>5. CASE SendReply(r)
    BY <1>0, <2>5 DEF SendReply, Answered, Rcvs, rest, historyVars, Off
  <2>6. CASE HandlerRaises(r)
    BY <1>0, <2>6 DEF HandlerRaises, Fails, Answered, Rcvs, Off
  <2> QED
    BY <1>2, <2>1, <2>2, <2>3, <2>4, <2>5, <2>6
<1> QED
  BY <1>1, <1>2, OneElse

LEMMA OneStep == Held /\ Own /\ Once /\ [Next]_vars => (Own /\ Once)'
<1> SUFFICES ASSUME Held, Own, Once, [Next]_vars PROVE Own' /\ Once'
  OBVIOUS
<1>1. ASSUME NEW r \in Receiver, NEW m \in 1..Len(sent), TakeAside(r, m) \/ TakeTask(r, m)
      PROVE  Own' /\ Once'
  BY <1>1, OneHandles DEF TakeAside, TakeTask
<1>2. CASE UNCHANGED vars
  BY <1>2, OneSame DEF vars, chatVars, historyVars
<1> QED
  BY <1>1, <1>2, OneSend, OneResend, OnePoll, OneCrash, OneStart, OneTakeAnswer, OneApprove,
     OneProceed
  DEF Next, Receive, Proceed

LEMMA OneInit == Init => Own /\ Once
<1> SUFFICES ASSUME Init PROVE Own /\ Once
  OBVIOUS
<1>1. Untaken = {} /\ Len(allowed) = 0 /\ tasks = {}
  BY DEF Init, Untaken
<1>2. \A r \in Receiver : ~Answered(r)
  BY DEF Init, Answered, Off
<1> QED
  BY <1>1, <1>2 DEF Own, Once, Fresh, Single

\* A yes approves one call, of the user who wrote it, and is not a task besides, unless
\* it was delivered twice or the process died.
THEOREM YesIsSpent == Spec => []OneYesOneCall
<1>1. Own /\ Once => OneYesOneCall
  BY DEF Own, Once, Single, OneYesOneCall
<1> QED
  BY <1>1, Shape, OneInit, OneStep, PTL DEF Spec
=============================================================================
