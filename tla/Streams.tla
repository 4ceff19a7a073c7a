------------------------------ MODULE Streams ------------------------------
(***************************************************************************)
(* providers/anthropic.py and openai_compat.py: the events of a streamed   *)
(* completion, put together into the text, the calls, the usage and the    *)
(* stop reason run_turn consumes.  The wire is external: the model makes   *)
(* some calls, whose arguments come in fragments, block after block        *)
(* ("anthropic") or interleaved under an index ("openai").  The response   *)
(* may stop anywhere: with a stop reason, as at the limit of its length,   *)
(* with none, or with the connection.  The request that follows tells the  *)
(* calls and their results back.                                           *)
(***************************************************************************)
EXTENDS Integers, Sequences

CONSTANTS
    MaxCalls,      \* bound: calls of one answer
    MaxFragments   \* bound: fragments of one call's arguments

VARIABLES
    dialect,  \* of the provider
    plan,     \* of each call the model makes, how many fragments its arguments have
    sent,     \* of each call begun, how many fragments were sent
    current,  \* anthropic: cur_tool, none or one
    json,     \* anthropic: cur_json
    slots,    \* openai: tools, in the order of their first fragments
    out,      \* what stream() has yielded: text, calls and the events of its end
    wire,     \* "open", "ended" (with a stop reason), "cut" (without), "raised"
    request   \* the entries of the next request's messages, if there was one

vars == <<dialect, plan, sent, current, json, slots, out, wire, request>>

Silence == [said |-> FALSE, calls |-> <<>>, end |-> <<>>]
End == <<"usage", "done">>

Init ==
    /\ dialect \in {"anthropic", "openai"}
    /\ plan \in UNION {[1..n -> 0..MaxFragments] : n \in 0..MaxCalls}
    /\ sent = <<>> /\ current = {} /\ json = <<>> /\ slots = <<>>
    /\ out = Silence /\ wire = "open" /\ request = <<>>

\* A call as it is handed on: which, and the fragments its arguments are read from.
Assembled(index, args) == [index |-> index, args |-> args]

Begins(i) == wire = "open" /\ i = Len(sent) + 1 /\ i <= Len(plan)
Continues(i) == wire = "open" /\ i \in 1..Len(sent) /\ sent[i] < plan[i]

\* The arguments of call i, and the first n fragments of them.
First(i, n) == [k \in 1..n |-> <<i, k>>]
Meant(i) == First(i, plan[i])

\* json.loads: nothing is read as {}, all the fragments of a call as its arguments;
\* some of them are no JSON, and raise.
Parses(args) == args = <<>> \/ \E i \in 1..Len(plan) : args = Meant(i)

TextDelta ==
    /\ wire = "open" /\ current = {} /\ ~out.said
    /\ out' = [out EXCEPT !.said = TRUE]
    /\ UNCHANGED <<dialect, plan, sent, current, json, slots, wire, request>>
-----------------------------------------------------------------------------
(* anthropic.py: one block at a time *)

\* Mutant: the fragments of the block before are kept.
BlockStartKeeping(i) ==
    /\ dialect = "anthropic" /\ current = {} /\ Begins(i)
    /\ sent' = Append(sent, 0)
    /\ current' = {i} /\ UNCHANGED json
    /\ UNCHANGED <<dialect, plan, slots, out, wire, request>>

BlockStart(i) ==
    /\ dialect = "anthropic" /\ current = {} /\ Begins(i)
    /\ sent' = Append(sent, 0)
    /\ current' = {i} /\ json' = <<>>
    /\ UNCHANGED <<dialect, plan, slots, out, wire, request>>

JsonDelta(i) ==
    /\ dialect = "anthropic" /\ current = {i} /\ Continues(i)
    /\ sent' = [sent EXCEPT ![i] = @ + 1]
    /\ json' = Append(json, <<i, sent[i] + 1>>)
    /\ UNCHANGED <<dialect, plan, current, slots, out, wire, request>>

\* content_block_stop, whatever came of the block: the call, or a JSONDecodeError.
BlockStop(i) ==
    /\ dialect = "anthropic" /\ current = {i} /\ wire = "open"
    /\ \/ /\ Parses(json)
          /\ out' = [out EXCEPT !.calls = Append(@, Assembled(i, json))]
          /\ current' = {} /\ UNCHANGED wire
       \/ /\ ~Parses(json)
          /\ wire' = "raised" /\ UNCHANGED <<out, current>>
    /\ UNCHANGED <<dialect, plan, sent, json, slots, request>>

\* message_delta, whatever came before: with a stop reason it is the end, and yields
\* the usage; without one it only counts tokens.
MessageDelta ==
    /\ dialect = "anthropic" /\ wire = "open"
    /\ out' = [out EXCEPT !.end = @ \o End]
    /\ wire' = "ended"
    /\ UNCHANGED <<dialect, plan, sent, current, json, slots, request>>
-----------------------------------------------------------------------------
(* openai_compat.py: fragments under an index *)

FirstFragment(i) ==
    /\ dialect = "openai" /\ Begins(i)
    /\ \E n \in {0, 1} :    \* the first delta may hold a fragment besides the name
          /\ n <= plan[i]
          /\ sent' = Append(sent, n)
          /\ slots' = Append(slots, Assembled(i, IF n = 0 THEN <<>> ELSE <<<<i, 1>>>>))
    /\ UNCHANGED <<dialect, plan, current, json, out, wire, request>>

NextFragment(i) ==
    /\ dialect = "openai" /\ Continues(i)
    /\ sent' = [sent EXCEPT ![i] = @ + 1]
    /\ slots' = [k \in 1..Len(slots) |->
                    IF slots[k].index = i
                    THEN Assembled(i, Append(slots[k].args, <<i, sent[i] + 1>>))
                    ELSE slots[k]]
    /\ UNCHANGED <<dialect, plan, current, json, out, wire, request>>

\* The chunk with a finish_reason, whatever came before, hands on the slots up to the
\* first whose arguments raise a JSONDecodeError; or all of them, the usage and the
\* reason.  The tokens a provider tells after it come too late for the usage.
Finish ==
    /\ dialect = "openai" /\ wire = "open"
    /\ \E n \in 0..Len(slots) :
          /\ \A k \in 1..n : Parses(slots[k].args)
          /\ n < Len(slots) => ~Parses(slots[n + 1].args)
          /\ out' = [said |-> out.said, calls |-> out.calls \o SubSeq(slots, 1, n),
                     end |-> IF n = Len(slots) THEN out.end \o End ELSE out.end]
          /\ wire' = IF n = Len(slots) THEN "ended" ELSE "raised"
    /\ UNCHANGED <<dialect, plan, sent, current, json, slots, request>>
-----------------------------------------------------------------------------
\* There is no key, or the response is an error: a ProviderError before any event.
Refuse ==
    /\ wire = "open" /\ out = Silence /\ sent = <<>>
    /\ wire' = "raised"
    /\ UNCHANGED <<dialect, plan, sent, current, json, slots, out, request>>

\* The response ends without a stop reason, or the connection breaks, which raises.
Cut ==
    /\ wire = "open"
    /\ wire' \in {"cut", "raised"}
    /\ UNCHANGED <<dialect, plan, sent, current, json, slots, out, request>>
-----------------------------------------------------------------------------
(* _payload: the messages of the next request *)

Message(role, text, images, calls, results) ==
    [role |-> role, text |-> text, images |-> images, calls |-> calls, results |-> results]

\* An entry is whose it is and its content blocks, calls or result, each with what
\* it is of.
Entry(role, parts) == [role |-> role, parts |-> parts]
Parts(kind, things) == [k \in 1..Len(things) |-> <<kind, things[k]>>]

AnthropicWire(message) ==
    IF message.role = "tool" THEN <<Entry("user", Parts("result", message.results))>>
    ELSE <<Entry(message.role, Parts("image", message.images)
                    \o Parts("text", message.text) \o Parts("call", message.calls))>>

OpenAiWire(message) ==
    IF message.role = "tool"
    THEN [k \in 1..Len(message.results) |-> Entry("tool", <<<<"result", message.results[k]>>>>)]
    ELSE <<Entry(message.role, Parts("text", message.text)
                    \o Parts("image", message.images) \o Parts("call", message.calls))>>

\* The messages are two or three.
Joined(lists) == lists[1] \o lists[2] \o IF Len(lists) = 3 THEN lists[3] ELSE <<>>

\* The system prompt is a field of its own here, an entry there.
AnthropicPayload(messages) == Joined([k \in 1..Len(messages) |-> AnthropicWire(messages[k])])

OpenAiPayload(messages) ==
    <<Entry("system", <<>>)>> \o Joined([k \in 1..Len(messages) |-> OpenAiWire(messages[k])])

Payload(messages) ==
    IF dialect = "anthropic" THEN AnthropicPayload(messages) ELSE OpenAiPayload(messages)

Said == IF out.said THEN <<1>> ELSE <<>>

\* What was yielded before stream() raised is in no answer.
Kept == IF wire = "raised" THEN <<>> ELSE out.calls
Asked == [k \in 1..Len(Kept) |-> Kept[k].index]

\* run_turn: the answer follows the question, and the results follow the answer, or a
\* second question does if there is nothing to run, or no answer at all, as stream()
\* raised.
NextRequest ==
    /\ wire # "open" /\ request = <<>>
    /\ \E images \in {<<>>, <<1>>} :
          LET question == Message("user", <<1>>, images, <<>>, <<>>)
              answer == Message("assistant", Said, <<>>, Asked, <<>>)
              results == Message("tool", <<>>, <<>>, <<>>, Asked)
          IN  request' = Payload(IF wire = "raised" THEN <<question, question>>
                                 ELSE IF Asked = <<>> THEN <<question, answer, question>>
                                 ELSE <<question, answer, results>>)
    /\ UNCHANGED <<dialect, plan, sent, current, json, slots, out, wire>>

Next ==
    \/ Refuse \/ TextDelta \/ MessageDelta \/ Finish \/ Cut \/ NextRequest
    \/ \E i \in 1..MaxCalls : \/ BlockStart(i) \/ JsonDelta(i) \/ BlockStop(i)
                              \/ FirstFragment(i) \/ NextFragment(i)

Spec == Init /\ [][Next]_vars
-----------------------------------------------------------------------------
\* The parts of a kind that the request has are one for each call, in this order.
Told(kind, Place(_)) ==
    /\ \A e \in 1..Len(request) : \A p \in 1..Len(request[e].parts) :
          request[e].parts[p][1] = kind => \E k \in 1..Len(Kept) : Place(k) = <<e, p>>
    /\ \A k \in 1..Len(Kept) :
          \E e \in 1..Len(request) : \E p \in 1..Len(request[e].parts) :
              Place(k) = <<e, p>> /\ request[e].parts[p] = <<kind, Kept[k].index>>

\* The calls handed on are the model's in order, each with all the arguments that were
\* sent of it and no other's: either all the model meant, or, when the response stopped
\* before the first fragment of them, none; however the fragments interleave and
\* wherever the response stops.  A stream that ends has handed on every call that was
\* begun but one whose block is still open, and its usage once; no other tells usage.
\* In the next request each call of the answer is told with one result of its own, in
\* the order of the calls and with nothing between the calls and the results, which are
\* one entry or each have one; after an exception there are none.
CallsAreWhole ==
    /\ \A k \in 1..Len(out.calls) : /\ out.calls[k] = Assembled(k, First(k, sent[k]))
                                    /\ sent[k] \in {0, plan[k]}
    /\ wire = "ended" => 1..Len(sent) \subseteq 1..Len(out.calls) \union current
    /\ out.end = IF wire = "ended" THEN End ELSE <<>>
    /\ request # <<>> => \E a \in 1..Len(request) :
          /\ Told("call", LAMBDA k : <<a, Len(request[a].parts) - Len(Kept) + k>>)
          /\ Told("result", LAMBDA k : <<a + 1, k>>) \/ Told("result", LAMBDA k : <<a + k, 1>>)
=============================================================================
