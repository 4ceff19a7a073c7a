----------------------------- MODULE AgentLoop -----------------------------
(***************************************************************************)
(* core/loop.py: run_turn advances a conversation until the model gives a  *)
(* final answer or the budget is spent.  Every surface (terminal, gateway, *)
(* editor, scheduler) runs it over a history and a budget of its own       *)
(* choosing, so turns that share them interleave at every await: the       *)
(* stream, the approval, the tool.  The surface decides when a turn starts *)
(* and what approve() answers; Gateway is such a surface.                  *)
(***************************************************************************)
EXTENDS Integers, Sequences, FiniteSets

CONSTANTS
    Turn,           \* activations of run_turn
    Session,        \* each a history and a Budget
    Tool,           \* names of tools
    Reply,          \* the sequences of calls a model's answer may hold
    Spend,          \* the tokens an answer may cost
    MaxIterations,  \* Budget.max_iterations
    MaxTokens       \* Budget.max_tokens

\* A call: its tool, and that tool's risk, "danger" for an unknown one; whether its
\* name or arguments match _IRREVERSIBLE_HINTS; whether scan_command finds a blocker.
Call == [tool : Tool, risk : {"safe", "caution", "danger"}, irreversible : BOOLEAN,
         blocked : BOOLEAN]

ASSUME LoopAssumption ==
    /\ Reply \subseteq Seq(Call)
    /\ Spend \subseteq Nat
    /\ MaxIterations \in Nat /\ MaxTokens \in Nat

VARIABLES
    turn,      \* each activation: where it is, whose, the calls it has left
    history,   \* each session's messages
    used       \* each session's Budget

loopVars == <<turn, history, used>>

NoHistory == [last |-> [role |-> "none", n |-> 0], sound |-> TRUE]
NoTurn == [pc |-> "off", of |-> {}, calls |-> <<>>, asked |-> 0, counted |-> TRUE]

LoopInit ==
    /\ turn = [t \in Turn |-> NoTurn]
    /\ history = [s \in Session |-> NoHistory]
    /\ used = [s \in Session |-> [iterations |-> 0, tokens |-> 0]]
-----------------------------------------------------------------------------
(* The history: a message is who says it and how many calls or results it    *)
(* holds; of the messages so far, the last one and whether each before it    *)
(* had the successor a provider insists on.                                  *)

Message(role, n) == [role |-> role, n |-> n]

Asks(message) == message.role = "assistant" /\ message.n > 0

\* Every assistant message with calls is followed at once by as many results, and
\* results follow nothing else.
Follows(message, last) == IF Asks(last) THEN message = Message("tool", last.n)
                                        ELSE message.role # "tool"

Says(s, message) ==
    history' = [history EXCEPT ![s] = [last |-> message,
                                       sound |-> @.sound /\ Follows(message, @.last)]]

\* Mutant: the last iteration is spent twice.
ExhaustedLate(s) == \/ used[s].iterations > MaxIterations
                    \/ used[s].tokens >= MaxTokens

\* Budget.exhausted
Exhausted(s) == \/ used[s].iterations >= MaxIterations
                \/ used[s].tokens >= MaxTokens

\* Budget.record
Record(s, tokens) == used' = [used EXCEPT ![s].iterations = @ + 1, ![s].tokens = @ + tokens]

Goes(t, pc) == turn' = [turn EXCEPT ![t].pc = pc]
-----------------------------------------------------------------------------
(* run_turn *)

\* A surface appends the user's message and awaits run_turn.
Begin(t, s) ==
    /\ turn' = [turn EXCEPT ![t] = [NoTurn EXCEPT !.pc = "check", !.of = {s}]]
    /\ Says(s, Message("user", 0))
    /\ UNCHANGED used

SpendNothing(t, s) ==
    /\ turn[t].pc = "check" /\ turn[t].of = {s}
    /\ Exhausted(s)
    /\ Says(s, Message("assistant", 0))
    /\ Goes(t, "over")
    /\ UNCHANGED used

\* The request is made from the history as it is now.
Request(t, s) ==
    /\ turn[t].pc = "check" /\ turn[t].of = {s}
    /\ ~Exhausted(s)
    /\ Goes(t, "stream")
    /\ UNCHANGED <<history, used>>

\* The stream ends.  A provider emits its usage with the stop reason: an answer whose
\* stream stopped before is used as it is, its calls as well, but not recorded.
Answer(t, s, calls) ==
    /\ turn[t].pc = "stream" /\ turn[t].of = {s}
    /\ Says(s, Message("assistant", Len(calls)))
    /\ \E counted \in BOOLEAN :
          /\ IF counted THEN \E tokens \in Spend : Record(s, tokens) ELSE UNCHANGED used
          /\ turn' = [turn EXCEPT ![t].calls = calls, ![t].asked = Len(calls),
                                  ![t].counted = counted \/ calls = <<>>,
                                  ![t].pc = IF calls = <<>> THEN "over" ELSE "tools"]

\* Mutant: a denied call leaves no result.
DeniedUnanswered(t, s) ==
    LET left == Tail(turn[t].calls)
    IN  /\ turn' = [turn EXCEPT ![t].calls = left,
                                ![t].asked = @ - 1,
                                ![t].counted = @ \/ left = <<>>,
                                ![t].pc = IF left = <<>> THEN "check" ELSE "tools"]
        /\ IF left = <<>> THEN Says(s, Message("tool", turn[t].asked - 1))
                          ELSE UNCHANGED history
        /\ UNCHANGED used

\* The first call has its result; after the last the results enter the history.
Result(t, s) ==
    LET left == Tail(turn[t].calls)
    IN  /\ turn' = [turn EXCEPT ![t].calls = left,
                                ![t].asked = IF left = <<>> THEN 0 ELSE @,
                                ![t].counted = @ \/ left = <<>>,
                                ![t].pc = IF left = <<>> THEN "check" ELSE "tools"]
        /\ IF left = <<>> THEN Says(s, Message("tool", turn[t].asked))
                          ELSE UNCHANGED history
        /\ UNCHANGED used

\* tools.run, which turns a tool's exception into its result.
RunSafe(t, s) ==
    /\ turn[t].pc = "tools" /\ turn[t].of = {s}
    /\ Head(turn[t].calls).risk = "safe"
    /\ Result(t, s)

\* await self.approve(call, risk)
SeekApproval(t) ==
    /\ turn[t].pc = "tools"
    /\ Head(turn[t].calls).risk # "safe"
    /\ Goes(t, "approve")
    /\ UNCHANGED <<history, used>>

Denied(t, s) == Result(t, s)

\* An exception of the provider, the approval or the sinks ends run_turn and
\* leaves the history as it is; the usage may have been recorded.
Raises(t, s) ==
    /\ turn[t].of = {s}
    /\ turn' = [turn EXCEPT ![t] = NoTurn]
    /\ \/ UNCHANGED used
       \/ turn[t].pc = "stream" /\ \E tokens \in Spend : Record(s, tokens)
    /\ UNCHANGED history
-----------------------------------------------------------------------------
(* security/risk.py *)

\* Mutant: a grant is looked at first.
ClassifyGranted(call, granted) ==
    IF call.blocked THEN "block" ELSE IF granted THEN "auto" ELSE "confirm"

\* RiskEngine.classify, for a call run_turn asks about: only a tool that was
\* granted for the session, in a call that is not irreversible, is not asked for.
Classify(call, granted) ==
    IF call.blocked THEN "block"
    ELSE IF granted /\ ~call.irreversible THEN "auto" ELSE "confirm"
-----------------------------------------------------------------------------
LoopTypeOK ==
    /\ turn \in [Turn -> [pc : {"off", "check", "stream", "tools", "approve", "over"},
                         of : SUBSET Session, calls : Seq(Call), asked : Nat, counted : BOOLEAN]]
    /\ \A t \in Turn : /\ turn[t].pc = "off" <=> turn[t].of = {}
                       /\ Cardinality(turn[t].of) <= 1
                       /\ turn[t].pc \in {"tools", "approve"} <=> turn[t].calls # <<>>
    /\ history \in [Session -> [last : [role : {"none", "user", "assistant", "tool"}, n : Nat],
                               sound : BOOLEAN]]
    /\ used \in [Session -> [iterations : Nat, tokens : Nat]]

\* A provider accepts the history of s.
WellFormed(s) == history[s].sound /\ ~Asks(history[s].last)
=============================================================================
