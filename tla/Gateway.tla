----------------------------- MODULE Gateway ------------------------------
(***************************************************************************)
(* A provider call through the gateway (internal/gateway chat.go,          *)
(* responses.go, messages.go, tool_results.go), from the checks for        *)
(* repetition to the end of the handler: Preflight, the provider's answer  *)
(* or stream, what the client is told of it, and what is recorded of it.   *)
(*                                                                         *)
(* The five routes differ in the translation and in small ways that        *)
(* matter: what they call an error, what they record first, and whether a  *)
(* client learns that its stream has failed.  Budgets, allowlists and the  *)
(* reservation are those of PolicyBudget: here Preflight just goes on, or  *)
(* does not.                                                               *)
(***************************************************************************)
EXTENDS ProviderStreams, Repetition

CONSTANTS
    Callers,       \* agents' requests under way
    HttpErrors,    \* status codes of failed provider requests
    ToolErrors,    \* tool, and error code, of failed tool results
    ResultIds,     \* tool_call_id of the results that are reported
    StoreFaults,   \* TRUE: reading or saving a row may fail
    Workloads      \* bound: what the agents of a behaviour do

Routes == {"chat", "anthropic", "responses", "translated", "messages"}

\* An agent speaks to one route, whole or streaming, with some conversations,
\* and does so many things of each kind, the core stopping now and then and another
\* one pruning.
ASSUME WorkloadAssumption ==
    Workloads \subseteq
        [route : Routes, streams : BOOLEAN, callers : SUBSET Callers, runs : SUBSET Runs,
         prompts : SUBSET Seq(ItemSet), calls : Nat, results : Nat, stops : Nat,
         prunes : Nat]
ASSUME SwitchAssumption == StoreFaults \in BOOLEAN

VARIABLES
    work,      \* the workload, less what is done
    call,      \* the handler of each caller
    \* History.
    streak,    \* the true sequence of each kind in each run
    reported,  \* tool results that have come in
    lost       \* sequences that the engine may have wrong

vars == <<work, call, repetition, streak, reported, lost>>

NoRequest == [items |-> <<>>, out |-> Nothing]
NoResult == [status |-> "none", code |-> None, fault |-> None, text |-> FALSE,
             prints |-> <<>>, made |-> <<>>, custom |-> FALSE]

Idle == [pc |-> "idle", run |-> None, request |-> NoRequest, kind |-> 1,
         row |-> NoRow, due |-> FALSE,    \* what a check has read, and the truth then
         stream |-> NewStream,
         told |-> "nothing",              \* what the client has of its answer
         result |-> NoResult,
         todo |-> <<>>,                   \* the kinds left to record
         pending |-> NoRow,               \* a count on its way to its row,
         late |-> FALSE]                  \* and another one is taken already

NoStreak == [value |-> None, print |-> None, n |-> 0]

TypeOK ==
    /\ CachesOK
    /\ \A c \in Callers :
        /\ call[c].pc \in {"idle", "check", "fill", "blocked", "policy", "ask", "stream",
                           "record", "save"}
        /\ call[c].pc # "idle" => call[c].run \in Runs
        /\ call[c].told \in {"nothing", "reply", "done", "refuted", "error", "cut"}
    /\ lost \subseteq KindSet \X Runs
    /\ reported \subseteq Runs \X ResultIds

Init ==
    /\ work \in Workloads
    /\ call = [c \in Callers |-> Idle]
    /\ RepetitionInit
    /\ streak = [k \in KindSet |-> [r \in Runs |-> NoStreak]]
    /\ reported = {} /\ lost = {}

-----------------------------------------------------------------------------
Becomes(c, new) == call' = [call EXCEPT ![c] = new]
Route == work.route

\* Another value, or the same once more.
Extend(s, value, print) ==
    [value |-> value, print |-> print, n |-> IF s.value = value THEN s.n + 1 ELSE 1]

\* The calls of a reply, one after the other.
Repeat(s, result) ==
    FoldLeft(LAMBDA t, n : Extend(t, <<result.custom, result.made[n]>>, result.prints[n]),
             s, [n \in DOMAIN result.prints |-> n])

Due(k, r) == streak[k][r].n >= Threshold

\* The handler d is about to save a count of the kind k.
Saving(d, k, r) == call[d].pc = "save" /\ call[d].run = r /\ Head(call[d].todo) = k

\* It has the newest one.
SavesNewest(d, k, r) == Saving(d, k, r) /\ ~call[d].late

\* A count is taken: what others are about to save is out of date.
Recorded(c, k, r, new) ==
    call' = [d \in Callers |-> IF d = c THEN new
                               ELSE [call[d] EXCEPT !.late = @ \/ Saving(d, k, r)]]

\* A run that is not in memory is counted from the start, whatever came before.
CountsAfresh(k, r) == ~Cached(k, r) /\ streak[k][r].n > 0

Lose(k, r, when) == lost' = IF when THEN lost \cup {<<k, r>>} ELSE lost

-----------------------------------------------------------------------------
\* The request.

Request(items) ==
    [items |-> items,
     out |-> CASE Route = "anthropic" -> translateAnthropicRequest(items)
               [] Route = "translated" -> buildChatRequest(items)
               [] OTHER -> Nothing]

\* A request that is accepted: well-formed, for a model that is configured,
\* with a key.  Any other one is answered with an error and leaves no trace.
Ask(c) ==
    /\ c \in work.callers /\ call[c].pc = "idle" /\ work.calls > 0
    /\ work' = [work EXCEPT !.calls = @ - 1]
    /\ \E r \in work.runs : \E items \in work.prompts :
        /\ Request(items).out.ok
        /\ Becomes(c, [Idle EXCEPT !.pc = "check", !.run = r, !.request = Request(items)])
    /\ UNCHANGED <<repetition, streak, reported, lost>>

\* Preflight: the next check, or the rest of the policy.
Pass(x) == IF x.kind < Len(Kinds) THEN [x EXCEPT !.pc = "check", !.kind = @ + 1]
           ELSE [x EXCEPT !.pc = "policy"]

Decide(x, count) ==
    IF count >= Threshold THEN [x EXCEPT !.pc = "blocked"] ELSE Pass(x)

\* repeatedToolError, repeatedProviderError, repeatedToolCall: in memory,
CheckCached(c) ==
    LET x == call[c]
        k == Kinds[x.kind]
    IN  /\ x.pc = "check" /\ Cached(k, x.run)
        /\ Becomes(c, Decide(x, cache[k][x.run].count))
        /\ UNCHANGED <<work, repetition, streak, reported, lost>>

\* or else in SQLite, where an error counts as no row;
CheckSaved(c) ==
    LET x == call[c]
        k == Kinds[x.kind]
        row == saved[k][x.run]
    IN  /\ x.pc = "check" /\ ~Cached(k, x.run)
        /\ \/ /\ Becomes(c, IF row.count = 0 THEN Pass(x)
                            ELSE [x EXCEPT !.pc = "fill", !.row = row, !.due = Due(k, x.run)])
              /\ Lose(k, x.run, \E d \in Callers : Saving(d, k, x.run))
           \/ /\ StoreFaults /\ row.count > 0
              /\ Becomes(c, Pass(x))
              /\ Lose(k, x.run, TRUE)
        /\ UNCHANGED <<work, repetition, streak, reported>>

\* and then in the cache.  By then the row may have changed, and the run may
\* have come and gone in the cache.
FillCache(c) ==
    LET x == call[c]
        k == Kinds[x.kind]
    IN  /\ x.pc = "fill"
        /\ Fill(k, x.run, x.row)
        /\ Lose(k, x.run, ~Cached(k, x.run) /\
                          (saved[k][x.run] # x.row \/ \E d \in Callers : Saving(d, k, x.run)))
        /\ Becomes(c, [Decide(x, x.row.count) EXCEPT !.row = NoRow, !.due = FALSE])
        /\ UNCHANGED <<work, saved, streak, reported>>

\* The other rules, and the reservation; an error refuses the call too.
Admit(c) ==
    /\ call[c].pc = "policy"
    /\ \/ Becomes(c, [call[c] EXCEPT !.pc = "ask", !.request = NoRequest])
       \/ Becomes(c, [call[c] EXCEPT !.pc = "blocked"])
    /\ UNCHANGED <<work, repetition, streak, reported, lost>>

\* finalizePolicyBlock, and the answer 403.
Block(c) ==
    /\ call[c].pc = "blocked"
    /\ Becomes(c, Idle)
    /\ UNCHANGED <<work, repetition, streak, reported, lost>>

-----------------------------------------------------------------------------
\* The provider's answer.

\* What is recorded of a result, in the order of the route.
Todo(result) ==
    LET calls == IF result.prints # <<>> THEN <<"tool_call">> ELSE <<>>
        outcome == IF result.status \in {"success", "provider_error", "transport_error"}
                   THEN <<"provider_error">> ELSE <<>>
    IN  IF Route \in {"chat", "anthropic"} THEN calls \o outcome ELSE outcome \o calls

\* The handler's deferred function takes over with a result.
Conclude(c, told, result) ==
    Becomes(c, [call[c] EXCEPT !.pc = "record", !.stream = NewStream, !.told = told,
                               !.result = result, !.todo = Todo(result)])

Failed(status, code, fault) == [NoResult EXCEPT !.status = status, !.code = code, !.fault = fault]
Cancelled == [NoResult EXCEPT !.status = "client_cancelled", !.fault = <<"cancelled">>]

\* The client leaves before the provider answers: messages does not look.
CancelledEarly ==
    IF Route = "messages" THEN Failed("transport_error", <<"transport">>, <<"cancelled">>) ELSE Cancelled

\* Messages has one code for all of them.
HttpCode(n) == IF Route = "messages" THEN <<"http", "any">> ELSE <<"http", n>>

NoAnswer(c) ==
    /\ call[c].pc = "ask"
    /\ \/ Conclude(c, "error", Failed("transport_error", <<"transport">>, <<"transport">>))
       \/ Conclude(c, "cut", CancelledEarly)
       \/ \E n \in HttpErrors :
            Conclude(c, "error", Failed("provider_error", HttpCode(n), <<"http", n>>))
    /\ UNCHANGED <<work, repetition, streak, reported, lost>>

\* The calls of a whole reply; the input of a custom call is not looked at.
Prints(custom, calls) ==
    IF Route = "responses" THEN inspectResponsesPayload(custom, calls) ELSE calls

Replies == {<<>>} \cup {<<Call(a)>> : a \in {<<>>} \cup {<<x>> : x \in Args}}

\* What may be recorded when the client is gone before a reply is written: only
\* the anthropic route looks, and takes it for an error of the provider.
Unread(reply) ==
    {reply}
    \cup IF Route = "anthropic"
         THEN {[reply EXCEPT !.status = "provider_error", !.code = <<"response">>,
                             !.fault = <<"cancelled">>]}
         ELSE {}

\* A whole reply: read, checked, translated, and given to the client.  A client
\* that leaves while it is read makes the reading fail.
WholeReply(c) ==
    /\ call[c].pc = "ask" /\ ~work.streams
    /\ \/ Conclude(c, "error", Failed("provider_error", <<"response">>, <<"response">>))
       \/ Conclude(c, "cut", Failed("provider_error", <<"response">>, <<"cancelled">>))
       \/ \E text \in BOOLEAN : \E calls \in Replies : \E custom \in {FALSE, Route = "responses"} :
            LET reply == [NoResult EXCEPT !.status = "success", !.text = text,
                              !.prints = Prints(custom, calls), !.made = calls, !.custom = custom]
            IN  /\ Route \in {"anthropic", "translated"} => \A n \in DOMAIN calls : Whole(calls[n])
                /\ \/ Conclude(c, "reply", reply)
                   \/ \E result \in Unread(reply) : Conclude(c, "cut", result)
    /\ UNCHANGED <<work, repetition, streak, reported, lost>>

-----------------------------------------------------------------------------
\* Streams.

Open(c) ==
    /\ call[c].pc = "ask" /\ work.streams
    /\ Becomes(c, [call[c] EXCEPT !.pc = "stream"])
    /\ UNCHANGED <<work, repetition, streak, reported, lost>>

Frames(s) ==
    CASE Route = "chat" -> ChatFrames(s)
      [] Route = "translated" -> TranslatedFrames(s)
      [] Route \in {"anthropic", "messages"} -> MessageFrames(s)
      [] Route = "responses" -> ResponsesFrames

Inspect(s, f) ==
    CASE Route = "chat" -> inspectSSEFrame(s, f)
      [] Route = "anthropic" -> inspectAnthropicFrame(s, f)
      [] Route = "responses" -> inspectResponsesFrame(s, f)
      [] Route = "translated" -> translateChatFrame(s, f)
      [] Route = "messages" -> inspectMessagesFrame(s, f)

StreamCode(s) == IF Route = "responses" /\ s.status = "provider_error" THEN <<"response">> ELSE <<"stream">>

\* Mutant: a stream that breaks off just ends.
MutSilentFailure == IF Route \in {"messages", "anthropic"} THEN "cut" ELSE "error"

\* What ends a stream that has failed: messages just ends it.
ErrorEvent == IF Route = "messages" THEN "cut" ELSE "error"

\* A stream that ends with the frame f, or without one.
Outcome(s, f) ==
    [NoResult EXCEPT !.status = s.status,
                     !.text = s.text = "some",
                     !.code = IF s.status = "success" THEN None ELSE StreamCode(s),
                     !.fault = IF s.status = "success" THEN None ELSE StreamCode(s),
                     !.prints = IF s.status = "success" THEN s.prints ELSE <<>>,
                     !.made = Arrivals(s.made),
                     !.custom = f.kind = "completedCustom"]

\* The client is gone when a frame is written: what the frame has finished
\* is counted all the same, except where the stream is translated to events;
\* there it may be taken for an error of the provider.
Unwritten(s, f) ==
    IF Route = "translated" THEN {Cancelled, Failed("provider_error", <<"stream">>, <<"cancelled">>)}
    ELSE IF s.status = "success"
    THEN {[Outcome(s, f) EXCEPT !.status = "client_cancelled", !.fault = <<"cancelled">>]}
    ELSE {Cancelled}

\* A response that the client has in full is refused, and an error follows it:
\* the provider has made the calls, and they are not counted.
Refuted(s, f) ==
    Route = "translated" /\ f.kind = "done" /\ Completed(s) /\ s.status # "success"

Refute(c, s, f) ==
    LET result == Outcome(s, f)
        r == call[c].run
    IN  /\ Conclude(c, "refuted", result)
        /\ IF s.prints = <<>> THEN UNCHANGED <<streak, lost>>
           ELSE /\ streak' = [streak EXCEPT !["tool_call"][r] =
                                 Repeat(@, [result EXCEPT !.prints = s.prints])]
                /\ Lose("tool_call", r, TRUE)

ReceiveFrame(c) ==
    /\ call[c].pc = "stream"
    /\ \E f \in Frames(call[c].stream) :
        LET s == Sent(Inspect(call[c].stream, f), f)
        IN  \/ /\ \/ s.status = "open" /\ Becomes(c, [call[c] EXCEPT !.stream = s])
                  \/ s.status = "success" /\ Conclude(c, "done", Outcome(s, f))
                  \/ /\ s.status \notin {"open", "success"} /\ ~Refuted(s, f)
                     /\ Conclude(c, ErrorEvent, Outcome(s, f))
                  \/ /\ s.status \in {"open", "success"} \/ Refuted(s, f)
                     /\ \E result \in Unwritten(s, f) : Conclude(c, "cut", result)
               /\ UNCHANGED <<streak, lost>>
            \/ Refuted(s, f) /\ Refute(c, s, f)
    /\ UNCHANGED <<work, repetition, reported>>

\* The provider breaks off, or a line is too long.
Cut(c) ==
    /\ call[c].pc = "stream"
    /\ LET status == IF Route = "translated" THEN "provider_error" ELSE "transport_error"
       IN  Conclude(c, ErrorEvent, Failed(status, <<"stream">>, <<"stream">>))
    /\ UNCHANGED <<work, repetition, streak, reported, lost>>

\* The client leaves, and the stream is read no further.  Two routes look for
\* that only before they read: they find that the provider has broken off.
CutShort ==
    IF Route \in {"responses", "messages"}
    THEN {Cancelled, Failed("transport_error", <<"stream">>, <<"cancelled">>)}
    ELSE {Cancelled}

Leave(c) ==
    /\ call[c].pc = "stream"
    /\ \E result \in CutShort : Conclude(c, "cut", result)
    /\ UNCHANGED <<work, repetition, streak, reported, lost>>

-----------------------------------------------------------------------------
\* What is recorded, under the mutex and then in SQLite.

\* A custom call looks like any other call of its name.
Blurred(s, result) ==
    /\ Route = "responses"
    /\ s.print = Head(result.prints) /\ s.value # <<result.custom, Head(result.made)>>
    /\ result.custom \/ s.value[1]

RecordCalls(c) ==
    LET x == call[c]
        r == x.run
        s == streak["tool_call"][r]
        entry == RecordToolCalls(EntryOf("tool_call", r), x.result.prints)
    IN  /\ x.pc = "record" /\ x.todo # <<>> /\ Head(x.todo) = "tool_call"
        /\ Put("tool_call", r, entry)
        /\ Recorded(c, "tool_call", r, [x EXCEPT !.pc = "save", !.pending = Row(entry)])
        /\ streak' = [streak EXCEPT !["tool_call"][r] = Repeat(s, x.result)]
        /\ Lose("tool_call", r, CountsAfresh("tool_call", r) \/ Blurred(s, x.result))
    /\ UNCHANGED <<work, saved, reported>>

\* A client that has left is taken for an error of the provider, and messages
\* has one code for all HTTP errors.
Confused(result) ==
    \/ result.fault = <<"cancelled">>
    \/ Route = "messages" /\ result.fault # result.code

RecordOutcome(c) ==
    LET x == call[c]
        r == x.run
        entry == RecordProviderOutcome(EntryOf("provider_error", r), x.result.status,
                                       x.result.code)
    IN  /\ x.pc = "record" /\ x.todo # <<>> /\ Head(x.todo) = "provider_error"
        /\ Put("provider_error", r, entry)
        /\ Recorded(c, "provider_error", r, [x EXCEPT !.pc = "save", !.pending = Row(entry)])
        /\ streak' = [streak EXCEPT !["provider_error"][r] =
               IF x.result.status = "success" THEN NoStreak
               ELSE IF x.result.fault = <<"cancelled">> THEN @
               ELSE Extend(@, x.result.fault, x.result.code)]
        /\ Lose("provider_error", r, CountsAfresh("provider_error", r) \/ Confused(x.result))
    /\ UNCHANGED <<work, saved, reported>>

\* POST /v1/tool-results; a result that the entry has seen is not saved.
ReportResult(c) ==
    /\ c \in work.callers /\ call[c].pc = "idle" /\ work.results > 0
    /\ work' = [work EXCEPT !.results = @ - 1]
    /\ \E r \in work.runs : \E id \in ResultIds : \E result \in ToolErrors \cup {"success"} :
        LET old == EntryOf("tool_error", r)
            entry == RecordToolResult(old, id, result)
            again == <<r, id>> \in reported
        IN  /\ Put("tool_error", r, entry)
            /\ IF Contains(old.seen, id) THEN UNCHANGED call
               ELSE Recorded(c, "tool_error", r,
                        [Idle EXCEPT !.pc = "save", !.run = r, !.todo = <<"tool_error">>,
                                     !.pending = Row(entry)])
            /\ streak' = [streak EXCEPT !["tool_error"][r] =
                   IF again THEN @ ELSE IF result = "success" THEN NoStreak
                   ELSE Extend(@, result, result)]
            /\ Lose("tool_error", r, \/ CountsAfresh("tool_error", r)
                                     \/ again /\ ~Contains(old.seen, id)
                                     \/ old.count > 0 /\ old.value = None)
            /\ reported' = reported \cup {<<r, id>>}
    /\ UNCHANGED saved

\* A save that fails is not reported, and not tried again.
Save(c) ==
    LET x == call[c]
        k == Head(x.todo)
        newer == \E d \in Callers \ {c} : SavesNewest(d, k, x.run)
    IN  /\ x.pc = "save"
        /\ \/ /\ SaveRow(k, x.run, x.pending)
              /\ Lose(k, x.run, x.late /\ ~newer)
           \/ /\ StoreFaults /\ UNCHANGED saved
              /\ Lose(k, x.run, ~x.late)
        /\ Becomes(c, [x EXCEPT !.pc = "record", !.pending = NoRow, !.late = FALSE,
                                !.todo = Tail(@)])
    /\ UNCHANGED <<work, cache, order, streak, reported>>

\* The call is settled and logged (PolicyBudget, Delivery), and the handler
\* returns.
Return(c) ==
    /\ call[c].pc = "record" /\ call[c].todo = <<>>
    /\ Becomes(c, Idle)
    /\ UNCHANGED <<work, repetition, streak, reported, lost>>

\* The core stops and starts again.
Restart ==
    /\ work.stops > 0
    /\ work' = [work EXCEPT !.stops = @ - 1]
    /\ Forgotten
    /\ lost' = lost \cup {p \in KindSet \X Runs : \E c \in Callers : SavesNewest(c, p[1], p[2])}
    /\ call' = [c \in Callers |-> Idle]
    /\ UNCHANGED <<streak, reported>>

\* A core that starts prunes: after a restart, or beside one that serves.
Prune ==
    /\ work.prunes > 0
    /\ work' = [work EXCEPT !.prunes = @ - 1]
    /\ \E old \in SUBSET work.runs \ {{}} :
        /\ Pruned(old)
        /\ lost' = lost \cup {p \in KindSet \X old :
                                 /\ streak[p[1]][p[2]].n > 0
                                 /\ \A c \in Callers : ~SavesNewest(c, p[1], p[2])}
    /\ UNCHANGED <<call, streak, reported>>

-----------------------------------------------------------------------------
Preflight(c) == CheckCached(c) \/ CheckSaved(c) \/ FillCache(c) \/ Admit(c) \/ Block(c)
Provider(c) == NoAnswer(c) \/ WholeReply(c) \/ Open(c) \/ ReceiveFrame(c) \/ Cut(c) \/ Leave(c)
Record(c) == RecordCalls(c) \/ RecordOutcome(c) \/ Save(c) \/ Return(c)

Next ==
    \/ \E c \in Callers : Ask(c) \/ Preflight(c) \/ Provider(c) \/ Record(c) \/ ReportResult(c)
    \/ Restart \/ Prune

Spec == Init /\ [][Next]_vars

-----------------------------------------------------------------------------
\* Properties.

\* A check that ends refuses the call if it is due to be refused, and only then.
BlockedWhenDue(c) ==
    LET x == call[c]
        k == Kinds[x.kind]
        due == IF x.pc = "fill" THEN x.due ELSE Due(k, x.run)
    IN  (x.pc \in {"check", "fill"} /\ call[c] # call'[c]
         /\ call'[c].pc \in {"blocked", "check", "policy"}) =>
            \/ call'[c].pc = "blocked" <=> due
            \/ <<k, x.run>> \in lost'

\* A call is blocked for repetition when the run's last errors, or calls, were
\* the same so many times, and only then (Preflight), unless the engine may
\* have lost count: a save or a read failed, a save was overtaken or cut off by
\* a stop, a row was read before it changed, or pruned, a reply was refused that
\* the client has, a client that had left was taken for a provider's error, or
\* two things looked alike to the route.
BlocksWhenDue == [][\A c \in Callers : BlockedWhenDue(c)]_vars

\* "Restart restores from here" (repetition.go:75): when nobody is about to save
\* a count, its row is the truth, with the same exceptions.  The README, line 38,
\* has the sequences "reset on gateway restart": what a restart finds is used all
\* the same, as its first check fills the cache (FillCache).
RestartRestores ==
    \A k \in KindSet : \A r \in Runs :
        \/ <<k, r>> \in lost
        \/ \E c \in Callers : Saving(c, k, r)
        \/ saved[k][r].count = streak[k][r].n
           /\ (streak[k][r].n > 0 => saved[k][r].value = streak[k][r].print)

\* The client and the record agree: a reply that the client has in full, and no
\* error after it, is a success, and its tool calls are the ones that are
\* counted; a client that is still there is told when its answer has failed,
\* but for a stream of the messages route, which just ends ("A provider error
\* after stream headers are sent is emitted as a final structured SSE error",
\* docs/design/2026-09-16-virgil-architecture.md:55, is not true of it).
ClientAndRecordAgree ==
    \A c \in Callers :
        LET result == call[c].result
        IN  /\ call[c].told \in {"reply", "done"} =>
                /\ result.status = "success"
                /\ Len(result.prints) = Len(result.made)
                /\ \A n \in DOMAIN result.made :
                    result.prints[n] = result.made[n] \/ result.custom
            /\ (result.status \in {"provider_error", "transport_error"}
                /\ result.fault # <<"cancelled">> /\ ~(Route = "messages" /\ work.streams))
                    => call[c].told \in {"error", "refuted"}

\* A client that goes away is no error of the provider and does not count as one
\* ("Provider errors, client cancellation, dashboard errors, exporter failures,
\* and malformed requests do not become circuit breaks", docs/design/
\* 2026-09-23-local-circuit-breaker-design.md:174): a call is blocked for
\* provider errors only in a run whose provider has failed since it last
\* succeeded.
DisconnectsDoNotBlock ==
    [][\A c \in Callers :
          LET x == call[c]
          IN  x.pc \in {"check", "fill"} /\ Kinds[x.kind] = "provider_error"
              /\ call'[c].pc = "blocked" => streak["provider_error"][x.run].n > 0]_vars

\* What the gateway has handed out it takes back: an agent can send a reply
\* it has in full with its next request.  Two exceptions on the way to
\* Anthropic: a reply without text or calls, and arguments that follow an
\* input object which was announced empty.
Spoilt(result) == \E n \in DOMAIN result.made : Len(result.made[n].args) > 1

TakesBackItsReplies ==
    \A c \in Callers :
        LET result == call[c].result
            user == <<Item("user")>>
            sent(reply) == user \o reply \o user
        IN  call[c].told \in {"reply", "done"} =>
                /\ Route = "anthropic" =>
                    \/ translateAnthropicRequest(sent(ChatReply(result.text, result.made))).ok
                    \/ ~result.text /\ result.made = <<>>
                    \/ work.streams /\ Spoilt(result)
                /\ Route = "translated" =>
                    buildChatRequest(sent(ResponsesReply(result.text, result.made))).ok

\* The events of a translated stream and the response that ends it agree on
\* the place of each call, unless all of the text was empty.
ItemsAgree ==
    \A c \in Callers :
        LET s == call[c].stream
        IN  (Route = "translated" /\ call[c].pc = "stream" /\ Completed(s)
             /\ s.text # "empty") =>
                LET t == finishToolDeltas(s)
                IN  \A n \in DOMAIN t.prints :
                        /\ callIndex(t, n) + 1 \in DOMAIN Output(t)
                        /\ Output(t)[callIndex(t, n) + 1] = t.prints[n]

\* A translated request keeps the conversation in its order, its guidance in
\* one piece before everything else (responses_chat.go: "without changing
\* their order").
RequestKeepsOrder ==
    \A c \in Callers :
        Route \in {"anthropic", "translated"} =>
            /\ KeepsOrder(call[c].request.items, call[c].request.out)
            /\ GuidanceFirst(call[c].request.out)
=============================================================================
