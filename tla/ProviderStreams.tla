------------------------- MODULE ProviderStreams --------------------------
(***************************************************************************)
(* What a provider streams, frame by frame, and what the gateway makes of  *)
(* each frame: the pass-through of Chat Completions (internal/providers    *)
(* sse.go, tool_fingerprint.go), of Responses and of Messages              *)
(* (internal/gateway responses.go, messages.go), and the translations of   *)
(* Anthropic's stream (anthropic.go) and of a Chat Completions stream into *)
(* Responses events (responses_chat.go).                                   *)
(*                                                                         *)
(* A provider sends its frames in any order that its interface has, and    *)
(* may break off or send a bad frame at any point: "bad" stands for each   *)
(* kind of frame that the code refuses.  Usage is left out, but for the    *)
(* one that is refused when the client has the whole reply.                *)
(***************************************************************************)
EXTENDS Conversations

CONSTANT MaxCalls      \* tool calls of one reply: 256 in the code

ASSUME MaxCallsAssumption == MaxCalls \in Nat \ {0}

Indices == 0..(MaxCalls - 1)

NoBlock == -1

\* A stream under way.
NewStream ==
    [status |-> "open",
     text |-> "none",      \* "empty" when all text so far is empty
     started |-> FALSE,    \* the first frame has come
     finished |-> FALSE,   \* a finish reason has come
     block |-> NoBlock,    \* the tool block that the provider has open
     calls |-> [i \in Indices |-> NoCall],   \* toolStreams, or calls
     current |-> NoCall,   \* currentName and currentInput
     made |-> [i \in Indices |-> NoCall],    \* the calls as the provider made them
     prints |-> <<>>,      \* ToolCallFingerprints
     sound |-> TRUE]       \* the last usage had no more cached tokens than tokens

Frame(kind) == [kind |-> kind, index |-> 0, call |-> NoCall]
ToolFrame(kind, i, call) == [kind |-> kind, index |-> i, call |-> call]

\* Pieces of arguments.
ArgsOf(x) == [NoCall EXCEPT !.args = <<x>>]

Arrived(calls, i) == calls[i] # NoCall

\* Responses: progress, and a response with at most one call, which may be a
\* custom call.
ResponsesFrames ==
    {Frame(k) : k \in {"progress", "bad", "failed", "completed"}}
    \cup {ToolFrame(k, 0, Call(<<x>>)) : k \in {"completed", "completedCustom"}, x \in Args}

\* Chat Completions: a call's id and name and its arguments, in any order,
\* each once.
ChatFrames(s) ==
    {Frame(k) : k \in {"text", "empty", "finish", "done", "bad"}}
    \cup {ToolFrame("tool", i, Call(<<>>)) : i \in {i \in Indices : ~s.made[i].named}}
    \cup {ToolFrame("tool", i, ArgsOf(x)) :
             i \in {i \in Indices : s.made[i].args = <<>>}, x \in Args}

\* Into Responses events: with a usage, or one whose cached tokens cannot be.
TranslatedFrames(s) == ChatFrames(s) \cup {Frame(k) : k \in {"usage", "badUsage"}}

\* Anthropic: a start, one block at a time, and a stop.  The arguments of a
\* call come with its start or in deltas; the start may announce an empty
\* object before the deltas.
MessageFrames(s) ==
    IF ~s.started THEN {Frame("start"), Frame("bad")}
    ELSE IF s.block # NoBlock
    THEN {Frame("bad")}
         \cup {Frame(k) : k \in IF s.made[s.block].args = <<>> THEN {} ELSE {"blockStop"}}
         \cup {ToolFrame("tool", s.block, ArgsOf(x)) :
                  x \in {x \in Args : \A y \in Args : ~Contains(s.made[s.block].args, y)}}
    ELSE {Frame(k) : k \in {"text", "finish", "stop", "bad"}}
         \cup {ToolFrame("toolStart", i, Call(input)) :
                  i \in {i \in Indices : ~Arrived(s.made, i)
                                         /\ \A j \in 0..(i - 1) : Arrived(s.made, j)},
                  input \in {<<>>, <<Empty>>}}

-----------------------------------------------------------------------------
\* addToolDelta and finishToolDeltas: a call's pieces are hashed together.
addToolDelta(calls, f) ==
    [calls EXCEPT ![f.index] = [named |-> @.named \/ f.call.named,
                                args |-> @.args \o f.call.args]]

\* The calls that have arrived, in the order of their indices.
Arrivals(calls) ==
    FoldLeft(LAMBDA seen, i : IF Arrived(calls, i) THEN Append(seen, calls[i]) ELSE seen,
             <<>>, [n \in 1..MaxCalls |-> n - 1])

finishToolDeltas(s) == [s EXCEPT !.prints = Arrivals(s.calls)]

Ends(s, status) == [s EXCEPT !.status = status]

\* What the provider has sent once the frame is there.
Sent(s, f) ==
    [s EXCEPT !.made = addToolDelta(@, f),
              !.block = IF f.kind = "toolStart" THEN f.index
                        ELSE IF f.kind = "blockStop" THEN NoBlock ELSE @]

\* Mutant: the fingerprints are left unfinished when the stream ends.
MutPrintsForgotten(s, f) ==
    CASE f.kind = "bad" -> Ends(s, "provider_error")
      [] f.kind = "done" -> Ends(s, "success")
      [] f.kind = "tool" -> [s EXCEPT !.calls = addToolDelta(@, f)]
      [] OTHER -> s

\* OpenAICompatible.Stream and inspectSSEFrame.
inspectSSEFrame(s, f) ==
    CASE f.kind = "bad" -> Ends(s, "provider_error")
      [] f.kind = "done" -> Ends(finishToolDeltas(s), "success")
      [] f.kind = "tool" -> [s EXCEPT !.calls = addToolDelta(@, f)]
      [] OTHER -> s

\* Anthropic.Stream: the input that a block starts with is taken for the
\* first piece of its arguments.
inspectAnthropicFrame(s, f) ==
    CASE f.kind = "bad" -> Ends(s, "provider_error")
      [] f.kind = "start" -> [s EXCEPT !.started = TRUE]
      [] f.kind \in {"toolStart", "tool"} -> [s EXCEPT !.calls = addToolDelta(@, f)]
      [] f.kind = "text" -> [s EXCEPT !.text = "some"]
      [] f.kind = "stop" -> Ends(finishToolDeltas(s), "success")
      [] OTHER -> s

\* streamMessages: a call is counted when its block stops.
inspectMessagesFrame(s, f) ==
    CASE f.kind = "bad" -> Ends(s, "provider_error")
      [] f.kind = "start" -> [s EXCEPT !.started = TRUE]
      [] f.kind = "toolStart" -> [s EXCEPT !.current = f.call]
      [] f.kind = "tool" -> [s EXCEPT !.current.args = @ \o f.call.args]
      [] f.kind = "blockStop" ->
           IF s.current.named
           THEN [s EXCEPT !.prints = Append(@, s.current), !.current.named = FALSE] ELSE s
      [] f.kind = "stop" -> Ends(s, "success")
      [] OTHER -> s

\* inspectResponsesPayload: the input of a custom call is not looked at.
responsesPrint(custom, call) == IF custom THEN [call EXCEPT !.args = <<>>] ELSE call

inspectResponsesPayload(custom, calls) ==
    [n \in DOMAIN calls |-> responsesPrint(custom, calls[n])]

\* streamResponses: "bad" is a completed event that cannot be read.
inspectResponsesFrame(s, f) ==
    CASE f.kind = "bad" -> Ends(s, "transport_error")
      [] f.kind = "failed" -> Ends(s, "provider_error")
      [] f.kind \in {"completed", "completedCustom"} ->
           Ends([s EXCEPT !.prints = inspectResponsesPayload(f.kind = "completedCustom",
                                         IF f.call = NoCall THEN <<>> ELSE <<f.call>>)],
                "success")
      [] OTHER -> s

-----------------------------------------------------------------------------
\* Mutant: the calls have indices from zero on, whatever they are.
MutAnyCall(calls) ==
    \A i \in Indices : Arrived(calls, i) => \A j \in 0..(i - 1) : Arrived(calls, j)

\* completeChatReply: the calls have indices from zero on, and are whole.
Completable(calls) ==
    /\ \A i \in Indices : Arrived(calls, i) => Whole(calls[i])
    /\ \A i \in Indices : Arrived(calls, i) => \A j \in 0..(i - 1) : Arrived(calls, j)

\* The client gets a response that ends the stream.
Completed(s) == s.finished /\ Completable(s.calls)

\* translateChatStream: text goes on at once, calls when all is there.  The
\* response that ends the stream is inspected after it is written.
translateChatFrame(s, f) ==
    CASE f.kind = "bad" -> Ends(s, "provider_error")
      [] f.kind = "text" -> [s EXCEPT !.text = "some"]
      [] f.kind = "empty" -> [s EXCEPT !.text = IF @ = "none" THEN "empty" ELSE @]
      [] f.kind = "tool" -> [s EXCEPT !.calls = addToolDelta(@, f)]
      [] f.kind = "finish" -> [s EXCEPT !.finished = TRUE]
      [] f.kind \in {"usage", "badUsage"} -> [s EXCEPT !.sound = f.kind = "usage"]
      [] f.kind = "done" ->
           IF Completed(s)
           THEN Ends(finishToolDeltas(s), IF s.sound THEN "success" ELSE "provider_error")
           ELSE Ends(s, "provider_error")

\* Mutant: the calls are numbered from zero.
MutCallIndex(s, n) == n - 1

\* The output_index at which the client is told of the n-th call, and the
\* output of the response that ends the stream: text comes before the calls.
callIndex(s, n) == IF s.text # "none" THEN n ELSE n - 1

Output(s) == (IF s.text = "some" THEN <<NoCall>> ELSE <<>>) \o s.prints
=============================================================================
