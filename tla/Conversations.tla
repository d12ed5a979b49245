-------------------------- MODULE Conversations ---------------------------
(***************************************************************************)
(* The two request translations: a Chat Completions conversation for       *)
(* Anthropic (internal/providers anthropic.go) and a Responses             *)
(* conversation for a Chat Completions backend (internal/gateway           *)
(* responses_chat.go), and what a finished reply looks like when the agent *)
(* sends it back with its next request.                                    *)
(*                                                                         *)
(* The text of an item is its place in the conversation, so that order can *)
(* be seen.  Options that a backend does not support are refused alike and *)
(* not told apart.                                                         *)
(***************************************************************************)
EXTENDS Integers, Sequences, SequencesExt

CONSTANT Args      \* the argument objects of tool calls

\* An input object that is announced empty, "{}".
Empty == "{}"

\* A tool call as far as it has arrived: its id and name, and the pieces of
\* its arguments.  What hashes or parses them joins the pieces: a piece
\* stands for all chunks of one object.
NoCall == [named |-> FALSE, args |-> <<>>]
Call(args) == [named |-> TRUE, args |-> args]
CallSet == [named : BOOLEAN, args : Seq(Args \cup {Empty})]

\* Joined, the pieces are one JSON object.
Whole(call) == call.named /\ Len(call.args) = 1

-----------------------------------------------------------------------------
\* An item of a conversation; answers names the call that an output is for.
Item(role) == [role |-> role, text |-> TRUE, calls |-> <<>>, answers |-> 0]

\* "function" stands for every role that the gateway does not know.
Roles == {"system", "developer", "user", "assistant", "tool", "function"}
ItemSet == [role : Roles, text : BOOLEAN, calls : Seq(CallSet), answers : Nat]

Refused == [ok |-> FALSE, turns |-> <<>>, known |-> {}]
Nothing == [ok |-> TRUE, turns |-> <<>>, known |-> {}]

\* A message of a request, and the items that its text was made of.
Turn(role, n) == [role |-> role, from |-> <<n>>]

Added(acc, turn) == [acc EXCEPT !.turns = Append(@, turn)]
Joined(acc, t, n) == [acc EXCEPT !.turns[t].from = Append(@, n)]

LastRole(acc) == IF acc.turns = <<>> THEN "none" ELSE Last(acc.turns).role

\* A conversation, item by item; a refused one stays refused.
Translate(step(_, _, _), items) ==
    FoldLeft(LAMBDA acc, n : IF acc.ok THEN step(acc, items[n], n) ELSE acc,
             Nothing, [n \in DOMAIN items |-> n])

-----------------------------------------------------------------------------
\* Chat Completions to Anthropic.  Call ids are unique in a conversation, and
\* an answer follows its call.
CallIds(item, n) == {10 * n + i : i \in DOMAIN item.calls}

AnthropicTurn(acc, item, n) ==
    LET Say(role) == Added(acc, Turn(role, n))
    IN  CASE item.role = "system" ->
               IF acc.turns = <<>> THEN Say("system")
               ELSE IF LastRole(acc) = "system" THEN Joined(acc, 1, n) ELSE Refused
          [] item.role = "user" -> Say("user")
          [] item.role = "assistant" ->
               IF (\A i \in DOMAIN item.calls : Whole(item.calls[i]))
                  /\ (item.text \/ item.calls # <<>>)
               THEN [Say("assistant") EXCEPT !.known = @ \cup CallIds(item, n)]
               ELSE Refused
          [] item.role = "tool" -> IF item.answers \in acc.known THEN Say("user") ELSE Refused
          [] OTHER -> Refused

\* The guidance is not a message of the request: one must be there beside it.
translateAnthropicRequest(items) ==
    LET out == Translate(AnthropicTurn, items)
    IN  IF LastRole(out) \in {"none", "system"} THEN Refused ELSE out

-----------------------------------------------------------------------------
\* Responses to Chat Completions: an item is a message, a call or an output.

\* Mutant: guidance that comes late joins the guidance at the start.
MutLateGuidance(acc, item, n) ==
    CASE item.role \in {"system", "developer"} ->
           IF acc.turns # <<>> /\ acc.turns[1].role = "system"
           THEN Joined(acc, 1, n) ELSE Added(acc, Turn("system", n))
      [] item.role = "user" /\ LastRole(acc) = "user" -> Joined(acc, Len(acc.turns), n)
      [] OTHER -> Added(acc, Turn(item.role, n))

ChatTurn(acc, item, n) ==
    IF item.role = "function" \/ (item.calls # <<>> /\ ~Whole(Head(item.calls))) THEN Refused
    ELSE CASE item.role \in {"system", "developer"} ->
                IF LastRole(acc) = "none" THEN Added(acc, Turn("system", n))
                ELSE IF LastRole(acc) = "system" THEN Joined(acc, 1, n) ELSE Refused
           [] item.role = "user" /\ LastRole(acc) = "user" -> Joined(acc, Len(acc.turns), n)
           [] OTHER -> Added(acc, Turn(item.role, n))

buildChatRequest(items) == Translate(ChatTurn, items)

-----------------------------------------------------------------------------
\* A finished reply, as the agent keeps it: one message in Chat Completions,
\* one item for the text and one for each call in Responses.
ChatReply(text, calls) == <<[Item("assistant") EXCEPT !.text = text, !.calls = calls]>>

ResponsesReply(text, calls) ==
    (IF text THEN <<Item("assistant")>> ELSE <<>>)
    \o [i \in DOMAIN calls |-> [Item("assistant") EXCEPT !.text = FALSE, !.calls = <<calls[i]>>]]

\* The request keeps the items in their order, has its guidance first and in
\* one piece, and no two user turns in a row.
InOrder(out) == FlattenSeq([t \in DOMAIN out.turns |-> out.turns[t].from])

KeepsOrder(items, out) == out.ok => InOrder(out) = [n \in DOMAIN items |-> n]

GuidanceFirst(out) ==
    out.ok => \A t \in DOMAIN out.turns : out.turns[t].role = "system" => t = 1
=============================================================================
