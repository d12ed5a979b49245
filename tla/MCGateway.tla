----------------------------- MODULE MCGateway -----------------------------
(***************************************************************************)
(* Instances of Gateway for TLC: what the agents of a behaviour do.        *)
(***************************************************************************)
EXTENDS Gateway

User == <<Item("user")>>

\* All conversations of up to three items.
AssistantCalls(text, made) == [Item("assistant") EXCEPT !.text = text, !.calls = <<made>>]
Outputs == {[Item("tool") EXCEPT !.answers = n] : n \in {11, 21}}

MessagesOf(roles) == {Item(r) : r \in roles} \cup Outputs

AnthropicItems ==
    MessagesOf({"system", "user", "assistant", "function"})
    \cup {AssistantCalls(text, Call(args)) :
             text \in BOOLEAN, args \in {<<"a">>, <<Empty, "a">>}}

ResponsesItems ==
    MessagesOf({"system", "developer", "user", "assistant", "function"})
    \cup {AssistantCalls(FALSE, Call(args)) : args \in {<<"a">>, <<>>}}

-----------------------------------------------------------------------------
Work(route, streams, callers, runs, calls) ==
    [route |-> route, streams |-> streams, callers |-> callers, runs |-> runs,
     prompts |-> {User}, calls |-> calls, results |-> 0, stops |-> 0,
     prunes |-> 0]

Talk(route, items) ==
    [Work(route, FALSE, {"c1"}, {"r1"}, 1) EXCEPT !.prompts = BoundedSeq(items, 3)]

MCWorkloads ==
    \* Each route, one call after the other.
    {Work(route, TRUE, {"c1"}, {"r1"}, 2) : route \in Routes}
    \cup {[Work(route, FALSE, {"c1"}, {"r1"}, 3) EXCEPT !.stops = 1] : route \in Routes}
    \cup {[Work("chat", FALSE, {"c1"}, {"r1"}, 3) EXCEPT !.stops = 1, !.prunes = 1]}
    \cup {Work("chat", FALSE, {"c1"}, {"r1"}, 4)}
    \* Two calls of a run at a time, and a restart, or a core beside it that prunes.
    \cup {[Work("chat", FALSE, Callers, {"r1"}, 3) EXCEPT !.stops = 1],
          [Work("chat", FALSE, Callers, {"r1"}, 2) EXCEPT !.prunes = 1]}
    \* More runs than a cache holds.
    \cup {Work("chat", FALSE, {"c1"}, Runs, 3)}
    \* Results of tools, reported once or twice, and the call after them.
    \cup {[Work("chat", FALSE, {"c1"}, {"r1"}, 1) EXCEPT !.results = 3, !.stops = 1],
          [Work("chat", FALSE, {"c1"}, Runs, 1) EXCEPT !.results = 3],
          [Work("chat", FALSE, Callers, {"r1"}, 0) EXCEPT !.results = 3, !.stops = 1]}
    \* Conversations.
    \cup {Talk("anthropic", AnthropicItems), Talk("translated", ResponsesItems)}

-----------------------------------------------------------------------------
\* What the code does and its documents do not say: one agent, a store that
\* never fails.
DisconnectWorkloads == {Work("responses", TRUE, {"c1"}, {"r1"}, 3)}
=============================================================================
