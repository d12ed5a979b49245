--------------------------- MODULE GatewayProofs ---------------------------
(***************************************************************************)
(* Gateway, for every number of callers, runs, tool calls and             *)
(* conversations.                                                          *)
(***************************************************************************)
EXTENDS Gateway, ConversationProofs

-----------------------------------------------------------------------------
\* The types of all that a handler holds.

Codes == {<<"transport">>, <<"stream">>, <<"response">>, <<"cancelled">>, <<"http", "any">>}
         \cup {<<"http", n>> : n \in HttpErrors}

\* What a count is of, and what it stands for.
Values == {None, "success"} \cup ToolErrors \cup Codes \cup CallSet
Truths == Values \cup (BOOLEAN \X CallSet)

EntrySet == [value : Values, count : Nat \cup {-1}, seen : Seq(ResultIds)]
RowSet == [value : Values, count : Nat]
StreakSet == [value : Truths, print : Values, n : Nat]

StreamSet ==
    [status : {"open", "success", "provider_error", "transport_error"},
     text : {"none", "empty", "some"}, started : BOOLEAN, finished : BOOLEAN,
     block : Indices \cup {NoBlock}, calls : [Indices -> CallSet], current : CallSet,
     made : [Indices -> CallSet], prints : Seq(CallSet), sound : BOOLEAN]

ResultSet ==
    [status : {"none", "success", "provider_error", "transport_error", "client_cancelled"},
     code : Codes \cup {None}, fault : Codes \cup {None}, text : BOOLEAN,
     prints : Seq(CallSet), made : Seq(CallSet), custom : BOOLEAN]

HandlerSet ==
    [pc : {"idle", "check", "fill", "blocked", "policy", "ask", "stream", "record", "save"},
     run : Runs \cup {None}, request : [items : Seq(ItemSet), out : OutSet], kind : 1..3,
     row : RowSet, due : BOOLEAN, stream : StreamSet,
     told : {"nothing", "reply", "done", "refuted", "error", "cut"}, result : ResultSet,
     todo : Seq(KindSet), pending : RowSet, late : BOOLEAN]

WorkSet ==
    [route : Routes, streams : BOOLEAN, callers : SUBSET Callers, runs : SUBSET Runs,
     prompts : SUBSET Seq(ItemSet), calls : Nat, results : Nat, stops : Nat,
     prunes : Nat]

-----------------------------------------------------------------------------
\* What a stream under way has shown.

\* Messages: the calls whose blocks have stopped are the ones that are counted.
BlocksCounted(s) ==
    /\ Len(s.prints) <= MaxCalls
    /\ \A i \in Indices : i < Len(s.prints) => s.made[i] = s.prints[i + 1] /\ s.made[i].named
    /\ \A i \in Indices : i > Len(s.prints) => s.made[i] = NoCall
    /\ IF s.block = NoBlock
       THEN \A i \in Indices : i = Len(s.prints) => s.made[i] = NoCall
       ELSE s.block = Len(s.prints) /\ s.current = s.made[s.block] /\ s.current.named

\* Anthropic: a call whose block has stopped has its arguments.
BlocksWhole(s) ==
    /\ \A i \in Indices : Arrived(s.made, i) =>
          s.made[i].named /\ (i # s.block => s.made[i].args # <<>>)
    /\ s.block # NoBlock => Arrived(s.made, s.block)

StreamOK(s) ==
    /\ s.status = "open"
    /\ Route \in {"chat", "anthropic", "translated"} => s.calls = s.made
    /\ Route = "anthropic" => BlocksWhole(s)
    /\ Route = "responses" => \A i \in Indices : s.made[i] = NoCall
    /\ Route = "messages" => BlocksCounted(s)

-----------------------------------------------------------------------------
\* What a handler knows, and what it holds.

RequestFits(request) ==
    Route \in {"anthropic", "translated"} =>
        KeepsOrder(request.items, request.out) /\ GuidanceFirst(request.out)

\* The calls that are counted are the ones of the reply.
PrintsOK(result) ==
    /\ Len(result.prints) = Len(result.made)
    /\ \A n \in 1..Len(result.made) :
          result.prints[n] = responsesPrint(result.custom, result.made[n])

\* The calls of a reply that the client has in full.
Complete(result) ==
    /\ result.status = "success"
    /\ Route = "translated" => \A n \in 1..Len(result.made) : Whole(result.made[n])
    /\ Route = "anthropic" =>
          \A n \in 1..Len(result.made) : /\ result.made[n].named /\ result.made[n].args # <<>>
                                         /\ ~work.streams => Whole(result.made[n])

ResultFits(told, result) ==
    /\ result.status = "success" \/ result.prints # <<>> => PrintsOK(result)
    /\ result.custom => Route = "responses" /\ Len(result.made) <= 1
    /\ told \in {"reply", "done"} => Complete(result)
    /\ result.status \in {"provider_error", "transport_error"} =>
          /\ \/ told \in {"error", "refuted"}
             \/ result.fault = <<"cancelled">>
             \/ Route = "messages" /\ work.streams
          /\ \/ Confused(result)
             \/ result.fault = result.code /\ result.code # <<"cancelled">>

TodoFits(todo, result) ==
    \A n \in 1..Len(todo) :
        /\ todo[n] = "provider_error" =>
              result.status \in {"success", "provider_error", "transport_error"}
        /\ todo[n] = "tool_call" => result.prints # <<>>

Fits(x) ==
    /\ x \in HandlerSet
    /\ x.pc # "idle" => x.run \in Runs
    /\ x.pc = "save" => x.todo # <<>>
    /\ x.pc # "save" => ~x.late
    /\ IF x.pc = "stream" THEN work.streams /\ StreamOK(x.stream) ELSE x.stream = NewStream
    /\ RequestFits(x.request) /\ ResultFits(x.told, x.result) /\ TodoFits(x.todo, x.result)

Handlers ==
    /\ call \in [Callers -> HandlerSet]
    /\ \A c \in Callers : Fits(call[c])

\* A cache holds the runs that its order names, each once.
Orderly ==
    \A k \in KindSet :
        /\ Len(order[k]) <= MaxRuns
        /\ \A r \in Runs : Cached(k, r) <=> \E i \in 1..Len(order[k]) : order[k][i] = r
        /\ \A i, j \in 1..Len(order[k]) : order[k][i] = order[k][j] => i = j
        /\ \A r \in Runs : /\ Cached(k, r) => cache[k][r].count >= 0
                           /\ Len(cache[k][r].seen) <= MaxSeen

Caches ==
    /\ cache \in [KindSet -> [Runs -> EntrySet]]
    /\ order \in [KindSet -> Seq(Runs)]
    /\ saved \in [KindSet -> [Runs -> RowSet]]
    /\ Orderly

History ==
    /\ streak \in [KindSet -> [Runs -> StreakSet]]
    /\ reported \subseteq Runs \X ResultIds
    /\ lost \subseteq KindSet \X Runs

Inv == work \in WorkSet /\ Handlers /\ Caches /\ History

-----------------------------------------------------------------------------
LEMMA TheKinds ==
  /\ Len(Kinds) = 3 /\ KindSet = {"tool_error", "provider_error", "tool_call"}
  /\ \A n \in 1..3 : Kinds[n] \in KindSet
  <1>1. Len(Kinds) = 3 /\ DOMAIN Kinds = 1..3
    BY DEF Kinds
  <1>2. Kinds[1] = "tool_error" /\ Kinds[2] = "provider_error" /\ Kinds[3] = "tool_call"
    BY DEF Kinds
  <1>3. 1..3 = {1, 2, 3}
    OBVIOUS
  <1>4. KindSet = {Kinds[n] : n \in {1, 2, 3}}
    BY <1>1, <1>3 DEF KindSet
  <1>5. KindSet = {"tool_error", "provider_error", "tool_call"}
    BY <1>2, <1>4
  <1>6. QED
    BY <1>1, <1>2, <1>3, <1>5

-----------------------------------------------------------------------------
\* Streams.

LEMMA Calls ==
  /\ NoCall \in CallSet /\ 0 \in Indices /\ NoBlock \notin Indices /\ Indices \subseteq Nat
  /\ \A one \in CallSet : one.args \in Seq(Args \cup {Empty}) /\ one.named \in BOOLEAN
  /\ \A args \in Seq(Args \cup {Empty}) : Call(args) \in CallSet /\ Call(args).named
                                          /\ Call(args).args = args
  /\ \A x \in Args : /\ ArgsOf(x) \in CallSet /\ ~ArgsOf(x).named /\ ArgsOf(x).args = <<x>>
                     /\ Call(<<x>>) \in CallSet
  <1>1. NoCall \in CallSet /\ NoCall.args = <<>> /\ NoCall.named = FALSE
    BY DEF NoCall, CallSet
  <1>2. 0 \in Indices /\ NoBlock \notin Indices /\ Indices \subseteq Nat
    BY MaxCallsAssumption DEF Indices, NoBlock
  <1>3. \A one \in CallSet : one.args \in Seq(Args \cup {Empty}) /\ one.named \in BOOLEAN
    BY DEF CallSet
  <1>4. \A args \in Seq(Args \cup {Empty}) : Call(args) \in CallSet /\ Call(args).named
                                             /\ Call(args).args = args
    BY DEF Call, CallSet
  <1>5. \A x \in Args : <<x>> \in Seq(Args \cup {Empty})
    OBVIOUS
  <1>6. \A x \in Args : ArgsOf(x) \in CallSet /\ ~ArgsOf(x).named /\ ArgsOf(x).args = <<x>>
    BY <1>5 DEF ArgsOf, NoCall, CallSet
  <1>7. \A x \in Args : Call(<<x>>) \in CallSet
    BY <1>4, <1>5
  <1>8. QED
    BY <1>1, <1>2, <1>3, <1>4, <1>6, <1>7

\* A frame adds to the call that it names.
LEMMA Delta ==
  ASSUME NEW calls \in [Indices -> CallSet], NEW f, f.index \in Indices, f.call \in CallSet
  PROVE  /\ addToolDelta(calls, f) \in [Indices -> CallSet]
         /\ \A i \in Indices : i # f.index => addToolDelta(calls, f)[i] = calls[i]
         /\ addToolDelta(calls, f)[f.index].named = (calls[f.index].named \/ f.call.named)
         /\ addToolDelta(calls, f)[f.index].args = calls[f.index].args \o f.call.args
  <1>1. PICK old \in CallSet : old = calls[f.index]
    OBVIOUS
  <1>2. PICK more \in CallSet : more = f.call
    OBVIOUS
  <1>3. PICK args \in Seq(Args \cup {Empty}) : args = old.args \o more.args
    <2>1. old.args \in Seq(Args \cup {Empty}) /\ more.args \in Seq(Args \cup {Empty})
      BY DEF CallSet
    <2>2. QED
      BY <2>1, ConcatProperties
  <1>4. PICK named \in BOOLEAN : named = (old.named \/ more.named)
    OBVIOUS
  <1>5. PICK new \in CallSet : new = [named |-> named, args |-> args]
    BY DEF CallSet
  <1>6. addToolDelta(calls, f) = [calls EXCEPT ![f.index] = new]
    BY <1>1, <1>2, <1>3, <1>4, <1>5 DEF addToolDelta
  <1>7. new.named = named /\ new.args = args
    BY <1>5
  <1>8. PICK after \in [Indices -> CallSet] : /\ after = addToolDelta(calls, f) /\ after[f.index] = new
                                              /\ \A i \in Indices : i # f.index => after[i] = calls[i]
    BY <1>6
  <1>9. after[f.index].named = (calls[f.index].named \/ f.call.named)
    <2>1. after[f.index].named = named
      BY <1>7, <1>8
    <2>2. QED
      BY <1>1, <1>2, <1>4, <2>1
  <1>10. after[f.index].args = calls[f.index].args \o f.call.args
    BY <1>1, <1>2, <1>3, <1>7, <1>8
  <1>11. QED
    BY <1>8, <1>9, <1>10

Quiet(f) == f.index = 0 /\ f.call = NoCall

LEMMA QuietFrame ==
  ASSUME NEW calls \in [Indices -> CallSet], NEW f, Quiet(f)
  PROVE  /\ addToolDelta(calls, f) = calls /\ f.index \in Indices /\ f.call \in CallSet
  <1>1. f.index \in Indices /\ f.call \in CallSet /\ f.call.args = <<>> /\ f.call.named = FALSE
    BY Calls DEF Quiet, NoCall
  <1>2. PICK new \in [Indices -> CallSet] : new = addToolDelta(calls, f)
    BY <1>1, Delta
  <1>3. /\ \A i \in Indices : i # f.index => new[i] = calls[i]
        /\ new[f.index].named = (calls[f.index].named \/ f.call.named)
        /\ new[f.index].args = calls[f.index].args \o f.call.args
    BY <1>1, <1>2, Delta
  <1>4. PICK a \in CallSet : a = new[f.index]
    BY <1>1
  <1>5. PICK b \in CallSet : b = calls[f.index]
    BY <1>1
  <1>6. a.args = b.args
    <2>1. a.args = b.args \o <<>> /\ b.args \in Seq(Args \cup {Empty})
      BY <1>1, <1>3, <1>4, <1>5, Calls
    <2>2. QED
      BY <2>1, ConcatEmptySeq
  <1>7. a.named = b.named
    <2>1. a.named \in BOOLEAN /\ b.named \in BOOLEAN /\ a.named = (b.named \/ FALSE)
      BY <1>1, <1>3, <1>4, <1>5, Calls
    <2>2. QED
      BY <2>1
  <1>8. a = b
    BY <1>6, <1>7 DEF CallSet
  <1>9. new = calls
    <2>1. \A i \in Indices : new[i] = calls[i]
      BY <1>1, <1>3, <1>4, <1>5, <1>8
    <2>2. QED
      BY <2>1
  <1>10. QED
    BY <1>1, <1>2, <1>9

LEMMA SentFields ==
  ASSUME NEW u \in StreamSet, NEW f, f.index \in Indices, f.call \in CallSet
  PROVE  /\ Sent(u, f) \in StreamSet
         /\ Sent(u, f).made = addToolDelta(u.made, f)
         /\ Sent(u, f).block = IF f.kind = "toolStart" THEN f.index
                               ELSE IF f.kind = "blockStop" THEN NoBlock ELSE u.block
         /\ Sent(u, f).status = u.status /\ Sent(u, f).calls = u.calls
         /\ Sent(u, f).prints = u.prints /\ Sent(u, f).current = u.current
         /\ Sent(u, f).finished = u.finished
  <1>1. u.made \in [Indices -> CallSet]
    BY DEF StreamSet
  <1>2. PICK made \in [Indices -> CallSet] : made = addToolDelta(u.made, f)
    BY <1>1, Delta
  <1>3. PICK block \in Indices \cup {NoBlock} :
            block = IF f.kind = "toolStart" THEN f.index
                    ELSE IF f.kind = "blockStop" THEN NoBlock ELSE u.block
    BY DEF StreamSet
  <1>4. PICK t : t = [u EXCEPT !.made = made, !.block = block]
    OBVIOUS
  <1>5. Sent(u, f) = t
    BY <1>2, <1>3, <1>4 DEF Sent, StreamSet
  <1>6. t \in StreamSet /\ t.made = made /\ t.block = block /\ t.status = u.status
        /\ t.calls = u.calls /\ t.prints = u.prints /\ t.current = u.current
        /\ t.finished = u.finished
    BY <1>4 DEF StreamSet
  <1>7. QED
    BY <1>2, <1>3, <1>4, <1>5, <1>6

\* The frames that carry no part of a call, and those that do.
LEMMA ChatFrame ==
  ASSUME NEW s \in StreamSet, NEW f \in ChatFrames(s)
  PROVE  /\ \/ f.kind \in {"text", "empty", "finish", "done", "bad"} /\ Quiet(f)
            \/ f.kind = "tool"
         /\ f.index \in Indices /\ f.call \in CallSet
  <1>1. CASE f \in {Frame(k) : k \in {"text", "empty", "finish", "done", "bad"}}
    <2>1. PICK k \in {"text", "empty", "finish", "done", "bad"} : f = Frame(k)
      BY <1>1
    <2>2. f.kind = k /\ Quiet(f)
      BY <2>1 DEF Frame, Quiet
    <2>3. QED
      BY <2>2, Calls DEF Quiet
  <1>2. CASE \E i \in Indices : f = ToolFrame("tool", i, Call(<<>>))
    <2>1. <<>> \in Seq(Args \cup {Empty})
      OBVIOUS
    <2>2. Call(<<>>) \in CallSet
      BY <2>1, Calls
    <2>3. QED
      BY <1>2, <2>2 DEF ToolFrame
  <1>3. CASE \E i \in Indices : \E x \in Args : f = ToolFrame("tool", i, ArgsOf(x))
    <2>1. PICK i \in Indices, x \in Args : f = ToolFrame("tool", i, ArgsOf(x))
      BY <1>3
    <2>2. ArgsOf(x) \in CallSet
      BY Calls
    <2>3. QED
      BY <2>1, <2>2 DEF ToolFrame
  <1>4. QED
    BY <1>1, <1>2, <1>3 DEF ChatFrames

\* Chat Completions, passed on: the calls that are counted are the provider's.
LEMMA ChatStream ==
  ASSUME NEW s \in StreamSet, s.status = "open", s.calls = s.made, NEW f \in ChatFrames(s),
         NEW t, t = Sent(inspectSSEFrame(s, f), f)
  PROVE  /\ t \in StreamSet /\ t.calls = t.made /\ f.kind # "completedCustom"
         /\ t.status = "success" => t.prints = Arrivals(t.made)
  <1>1. /\ \/ f.kind \in {"text", "empty", "finish", "done", "bad"} /\ Quiet(f)
           \/ f.kind = "tool"
        /\ f.index \in Indices /\ f.call \in CallSet
    BY ChatFrame
  <1>2. PICK calls \in [Indices -> CallSet] : calls = addToolDelta(s.made, f)
    <2>1. s.made \in [Indices -> CallSet]
      BY DEF StreamSet
    <2>2. QED
      BY <1>1, <2>1, Delta
  <1>3. f.kind # "tool" => calls = s.made
    <2>1. s.made \in [Indices -> CallSet]
      BY DEF StreamSet
    <2>2. QED
      BY <1>1, <1>2, <2>1, QuietFrame
  <1>4. PICK prints \in Seq(CallSet) : prints = Arrivals(s.made)
    <2>1. s.made \in [Indices -> CallSet]
      BY DEF StreamSet
    <2>2. QED
      BY <2>1, ArrivalsArrived
  <1>5. PICK u \in StreamSet :
            /\ u = inspectSSEFrame(s, f) /\ u.made = s.made
            /\ u.calls = IF f.kind = "tool" THEN calls ELSE s.made
            /\ u.status = "success" => u.prints = prints /\ f.kind # "tool"
    <2>1. CASE f.kind = "bad"
      <3>1. inspectSSEFrame(s, f) = [s EXCEPT !.status = "provider_error"]
        BY <2>1 DEF inspectSSEFrame, Ends
      <3>2. QED
        BY <2>1, <3>1 DEF StreamSet
    <2>2. CASE f.kind = "done"
      <3>1. inspectSSEFrame(s, f) = [s EXCEPT !.prints = prints, !.status = "success"]
        BY <1>4, <2>2 DEF inspectSSEFrame, Ends, finishToolDeltas, StreamSet
      <3>2. QED
        BY <2>2, <3>1 DEF StreamSet
    <2>3. CASE f.kind = "tool"
      <3>1. inspectSSEFrame(s, f) = [s EXCEPT !.calls = calls]
        BY <1>2, <2>3 DEF inspectSSEFrame, StreamSet
      <3>2. QED
        BY <2>3, <3>1 DEF StreamSet
    <2>4. CASE f.kind \notin {"bad", "done", "tool"}
      <3>1. inspectSSEFrame(s, f) = s
        BY <2>4 DEF inspectSSEFrame
      <3>2. QED
        BY <2>4, <3>1
    <2>5. QED
      BY <2>1, <2>2, <2>3, <2>4
  <1>6. /\ t \in StreamSet /\ t.made = calls /\ t.calls = u.calls
        /\ t.status = u.status /\ t.prints = u.prints
    <2>1. t = Sent(u, f) /\ addToolDelta(u.made, f) = calls
      BY <1>2, <1>5
    <2>2. f.index \in Indices /\ f.call \in CallSet
      BY <1>1
    <2>3. QED
      BY <2>1, <2>2, SentFields
  <1>7. QED
    BY <1>1, <1>3, <1>4, <1>5, <1>6

\* Chat Completions, translated: a stream that is completed has whole calls.
LEMMA TranslatedStream ==
  ASSUME NEW s \in StreamSet, s.status = "open", s.calls = s.made, NEW f \in TranslatedFrames(s),
         NEW t, t = Sent(translateChatFrame(s, f), f)
  PROVE  /\ t \in StreamSet /\ t.calls = t.made /\ f.kind # "completedCustom"
         /\ t.status = "success" => Completable(t.made)
         /\ t.status = "success" \/ (f.kind = "done" /\ Completed(t)) =>
               t.prints = Arrivals(t.made)
         /\ f.kind = "done" => t.status \in {"success", "provider_error"}
  <1>1. /\ \/ f.kind \in {"text", "empty", "finish", "done", "bad", "usage", "badUsage"} /\ Quiet(f)
           \/ f.kind = "tool"
        /\ f.index \in Indices /\ f.call \in CallSet
    <2>1. CASE f \in ChatFrames(s)
      BY <2>1, ChatFrame
    <2>2. ASSUME NEW k \in {"usage", "badUsage"}, f = Frame(k)
          PROVE  f.kind = k /\ Quiet(f) /\ f.index \in Indices /\ f.call \in CallSet
      BY <2>2, Calls DEF Frame, Quiet
    <2>3. QED
      BY <2>1, <2>2 DEF TranslatedFrames
  <1>2. PICK calls \in [Indices -> CallSet] : calls = addToolDelta(s.made, f)
    <2>1. s.made \in [Indices -> CallSet]
      BY DEF StreamSet
    <2>2. QED
      BY <1>1, <2>1, Delta
  <1>3. f.kind # "tool" => calls = s.made
    <2>1. s.made \in [Indices -> CallSet]
      BY DEF StreamSet
    <2>2. QED
      BY <1>1, <1>2, <2>1, QuietFrame
  <1>4. PICK prints \in Seq(CallSet) : prints = Arrivals(s.made)
    <2>1. s.made \in [Indices -> CallSet]
      BY DEF StreamSet
    <2>2. QED
      BY <2>1, ArrivalsArrived
  <1>5. PICK u \in StreamSet :
            /\ u = translateChatFrame(s, f) /\ u.made = s.made
            /\ u.calls = IF f.kind = "tool" THEN calls ELSE s.made
            /\ f.kind = "done" => u.finished = s.finished
            /\ u.status = "success" => f.kind = "done" /\ Completed(s)
            /\ f.kind = "done" /\ Completed(s) => u.prints = prints
            /\ f.kind = "done" => u.status \in {"success", "provider_error"}
    <2>1. CASE f.kind = "bad"
      <3>1. translateChatFrame(s, f) = [s EXCEPT !.status = "provider_error"]
        BY <2>1 DEF translateChatFrame, Ends
      <3>2. QED
        BY <2>1, <3>1 DEF StreamSet
    <2>2. CASE f.kind = "done" /\ Completed(s)
      <3>1. PICK status \in {"success", "provider_error"} :
                 status = IF s.sound THEN "success" ELSE "provider_error"
        OBVIOUS
      <3>2. translateChatFrame(s, f) = [s EXCEPT !.prints = prints, !.status = status]
        BY <1>4, <2>2, <3>1 DEF translateChatFrame, Ends, finishToolDeltas, StreamSet
      <3>3. QED
        BY ZenonT(40), <2>2, <3>2 DEF StreamSet
    <2>3. CASE f.kind = "done" /\ ~Completed(s)
      <3>1. translateChatFrame(s, f) = [s EXCEPT !.status = "provider_error"]
        BY <2>3 DEF translateChatFrame, Ends
      <3>2. QED
        BY SMTT(30), <2>3, <3>1 DEF StreamSet
    <2>4. CASE f.kind = "tool"
      <3>1. translateChatFrame(s, f) = [s EXCEPT !.calls = calls]
        BY <1>2, <2>4 DEF translateChatFrame, StreamSet
      <3>2. QED
        BY SMTT(30), <2>4, <3>1 DEF StreamSet
    <2>5. CASE f.kind = "text"
      <3>1. translateChatFrame(s, f) = [s EXCEPT !.text = "some"]
        BY <2>5 DEF translateChatFrame
      <3>2. QED
        BY <2>5, <3>1 DEF StreamSet
    <2>6. CASE f.kind = "empty"
      <3>1. PICK text \in {"none", "empty", "some"} :
                 text = IF s.text = "none" THEN "empty" ELSE s.text
        BY DEF StreamSet
      <3>2. translateChatFrame(s, f) = [s EXCEPT !.text = text]
        BY <2>6, <3>1 DEF translateChatFrame, StreamSet
      <3>3. QED
        BY <2>6, <3>2 DEF StreamSet
    <2>7. CASE f.kind = "finish"
      <3>1. translateChatFrame(s, f) = [s EXCEPT !.finished = TRUE]
        BY <2>7 DEF translateChatFrame
      <3>2. QED
        BY <2>7, <3>1 DEF StreamSet
    <2>8. CASE f.kind \in {"usage", "badUsage"}
      <3>1. PICK sound \in BOOLEAN : sound = (f.kind = "usage")
        OBVIOUS
      <3>2. translateChatFrame(s, f) = [s EXCEPT !.sound = sound]
        BY <2>8, <3>1 DEF translateChatFrame
      <3>3. QED
        BY <2>8, <3>2 DEF StreamSet
    <2>9. QED
      BY <1>1, <2>1, <2>2, <2>3, <2>4, <2>5, <2>6, <2>7, <2>8
  <1>6. /\ t \in StreamSet /\ t.made = calls /\ t.calls = u.calls
        /\ t.status = u.status /\ t.prints = u.prints /\ t.finished = u.finished
    <2>1. t = Sent(u, f) /\ addToolDelta(u.made, f) = calls
      BY <1>2, <1>5
    <2>2. f.index \in Indices /\ f.call \in CallSet
      BY <1>1
    <2>3. QED
      BY <2>1, <2>2, SentFields
  <1>7. f.kind = "done" => (Completed(t) <=> Completed(s))
    BY <1>1, <1>3, <1>5, <1>6 DEF Completed
  <1>8. t.calls = t.made
    BY <1>3, <1>5, <1>6
  <1>9. t.status = "success" => Completable(t.made)
    BY <1>3, <1>5, <1>6 DEF Completed
  <1>10. t.status = "success" \/ (f.kind = "done" /\ Completed(t)) => t.prints = Arrivals(t.made)
    BY <1>3, <1>4, <1>5, <1>6, <1>7
  <1>11. QED
    BY <1>1, <1>5, <1>6, <1>8, <1>9, <1>10

LEMMA MessageFrame ==
  ASSUME NEW s \in StreamSet, NEW f \in MessageFrames(s)
  PROVE  /\ f.index \in Indices /\ f.call \in CallSet
         /\ \/ /\ f.kind \in {"start", "bad", "text", "finish", "stop", "blockStop"} /\ Quiet(f)
               /\ f.kind = "blockStop" => s.block # NoBlock /\ s.made[s.block].args # <<>>
               /\ f.kind = "stop" => s.block = NoBlock
            \/ /\ f.kind = "tool" /\ s.block # NoBlock /\ f.index = s.block
               /\ \E x \in Args : f.call = ArgsOf(x)
            \/ /\ f.kind = "toolStart" /\ s.block = NoBlock /\ f.call.named
               /\ ~Arrived(s.made, f.index)
               /\ \A j \in 0..(f.index - 1) : Arrived(s.made, j)
  <1> DEFINE Plain(kinds) == {Frame(k) : k \in kinds}
             More == {ToolFrame("tool", s.block, ArgsOf(x)) :
                         x \in {x \in Args : \A y \in Args : ~Contains(s.made[s.block].args, y)}}
             Starts == {ToolFrame("toolStart", i, Call(input)) :
                           i \in {i \in Indices : ~Arrived(s.made, i)
                                                  /\ \A j \in 0..(i - 1) : Arrived(s.made, j)},
                           input \in {<<>>, <<Empty>>}}
  <1>1. ASSUME NEW kinds, f \in Plain(kinds)
        PROVE  f.kind \in kinds /\ Quiet(f) /\ f.index \in Indices /\ f.call \in CallSet
    <2>1. PICK k \in kinds : f = Frame(k)
      BY <1>1
    <2>2. f.kind = k /\ Quiet(f)
      BY <2>1 DEF Frame, Quiet
    <2>3. QED
      BY <2>2, Calls DEF Quiet
  <1>2. CASE ~s.started
    <2>1. f \in Plain({"start", "bad"})
      BY <1>2 DEF MessageFrames
    <2> HIDE DEF Plain
    <2>2. QED
      BY <1>1, <2>1
  <1>3. CASE s.started /\ s.block # NoBlock
    <2>1. \/ f \in Plain({"bad"})
          \/ f \in Plain({"blockStop"}) /\ s.made[s.block].args # <<>>
          \/ f \in More
      <3>1. MessageFrames(s) = {Frame("bad")}
               \cup Plain(IF s.made[s.block].args = <<>> THEN {} ELSE {"blockStop"}) \cup More
        BY <1>3 DEF MessageFrames
      <3>2. Frame("bad") \in Plain({"bad"}) /\ Plain({}) = {}
        OBVIOUS
      <3> HIDE DEF Plain, More
      <3>3. QED
        BY <3>1, <3>2
    <2>2. CASE f \in More
      <3>1. PICK x \in Args : f = ToolFrame("tool", s.block, ArgsOf(x))
        BY <2>2
      <3>2. f.kind = "tool" /\ f.index = s.block /\ f.call = ArgsOf(x)
        BY <3>1 DEF ToolFrame
      <3>3. s.block \in Indices
        BY <1>3 DEF StreamSet
      <3>4. ArgsOf(x) \in CallSet
        BY Calls
      <3>5. QED
        BY <1>3, <3>2, <3>3, <3>4
    <2>3. CASE f \in Plain({"bad"})
      <3> HIDE DEF Plain
      <3>1. QED
        BY <1>1, <2>3
    <2>4. CASE f \in Plain({"blockStop"}) /\ s.made[s.block].args # <<>>
      <3> HIDE DEF Plain
      <3>1. QED
        BY <1>1, <1>3, <2>4
    <2>5. QED
      BY <2>1, <2>2, <2>3, <2>4
  <1>4. CASE s.started /\ s.block = NoBlock
    <2>1. f \in Plain({"text", "finish", "stop", "bad"}) \/ f \in Starts
      BY <1>4 DEF MessageFrames
    <2>2. CASE f \in Plain({"text", "finish", "stop", "bad"})
      <3> HIDE DEF Plain
      <3>1. QED
        BY <1>1, <1>4, <2>2
    <2>3. CASE f \in Starts
      <3>1. PICK i \in Indices, input \in {<<>>, <<Empty>>} :
                /\ f = ToolFrame("toolStart", i, Call(input)) /\ ~Arrived(s.made, i)
                /\ \A j \in 0..(i - 1) : Arrived(s.made, j)
        BY <2>3
      <3>2. f.kind = "toolStart" /\ f.index = i /\ f.call = Call(input)
        BY <3>1 DEF ToolFrame
      <3>3. Call(input) \in CallSet /\ Call(input).named
        <4>1. Empty \in Args \cup {Empty}
          OBVIOUS
        <4>2. <<>> \in Seq(Args \cup {Empty}) /\ <<Empty>> \in Seq(Args \cup {Empty})
          BY <4>1
        <4>3. input \in Seq(Args \cup {Empty})
          BY <4>2
        <4>4. QED
          BY <4>3, Calls
      <3>4. QED
        BY <1>4, <3>1, <3>2, <3>3
    <2>4. QED
      BY <2>1, <2>2, <2>3
  <1>5. QED
    BY <1>2, <1>3, <1>4

\* Anthropic, translated: the calls that are counted are the provider's, each
\* of them with its arguments.
LEMMA AnthropicStream ==
  ASSUME NEW s \in StreamSet, s.status = "open", s.calls = s.made, BlocksWhole(s),
         NEW f \in MessageFrames(s), NEW t, t = Sent(inspectAnthropicFrame(s, f), f)
  PROVE  /\ t \in StreamSet /\ t.calls = t.made /\ BlocksWhole(t) /\ f.kind # "completedCustom"
         /\ t.status = "success" => t.prints = Arrivals(t.made) /\ t.block = NoBlock
  <1>1. f.index \in Indices /\ f.call \in CallSet /\ s.made \in [Indices -> CallSet]
    BY MessageFrame DEF StreamSet
  <1>2. PICK calls \in [Indices -> CallSet] : calls = addToolDelta(s.made, f)
    BY <1>1, Delta
  <1>3. \/ /\ f.kind \in {"start", "bad", "text", "finish", "stop", "blockStop"} /\ calls = s.made
           /\ f.kind = "blockStop" => s.block # NoBlock /\ s.made[s.block].args # <<>>
           /\ f.kind = "stop" => s.block = NoBlock
        \/ /\ f.kind = "tool" /\ s.block # NoBlock /\ f.index = s.block
           /\ \E x \in Args : f.call = ArgsOf(x)
        \/ /\ f.kind = "toolStart" /\ s.block = NoBlock /\ f.call.named
    BY <1>1, <1>2, MessageFrame, QuietFrame
  <1>4. PICK prints \in Seq(CallSet) : prints = Arrivals(s.made)
    BY <1>1, ArrivalsArrived
  <1>5. PICK u \in StreamSet :
            /\ u = inspectAnthropicFrame(s, f) /\ u.made = s.made /\ u.block = s.block
            /\ u.calls = IF f.kind \in {"toolStart", "tool"} THEN calls ELSE s.made
            /\ u.status = "success" => u.prints = prints /\ f.kind = "stop"
    <2>1. CASE f.kind = "bad"
      <3>1. inspectAnthropicFrame(s, f) = [s EXCEPT !.status = "provider_error"]
        BY <2>1 DEF inspectAnthropicFrame, Ends
      <3>2. QED
        BY <2>1, <3>1 DEF StreamSet
    <2>2. CASE f.kind = "stop"
      <3>1. inspectAnthropicFrame(s, f) = [s EXCEPT !.prints = prints, !.status = "success"]
        BY <1>4, <2>2 DEF inspectAnthropicFrame, Ends, finishToolDeltas, StreamSet
      <3>2. QED
        BY <2>2, <3>1 DEF StreamSet
    <2>3. CASE f.kind \in {"toolStart", "tool"}
      <3>1. inspectAnthropicFrame(s, f) = [s EXCEPT !.calls = calls]
        BY <1>2, <2>3 DEF inspectAnthropicFrame, StreamSet
      <3>2. QED
        BY <2>3, <3>1 DEF StreamSet
    <2>4. CASE f.kind = "start"
      <3>1. inspectAnthropicFrame(s, f) = [s EXCEPT !.started = TRUE]
        BY <2>4 DEF inspectAnthropicFrame
      <3>2. QED
        BY <2>4, <3>1 DEF StreamSet
    <2>5. CASE f.kind = "text"
      <3>1. inspectAnthropicFrame(s, f) = [s EXCEPT !.text = "some"]
        BY <2>5 DEF inspectAnthropicFrame
      <3>2. QED
        BY <2>5, <3>1 DEF StreamSet
    <2>6. CASE f.kind \notin {"bad", "stop", "toolStart", "tool", "start", "text"}
      <3>1. inspectAnthropicFrame(s, f) = s
        BY <2>6 DEF inspectAnthropicFrame
      <3>2. QED
        BY <2>6, <3>1
    <2>7. QED
      BY <2>1, <2>2, <2>3, <2>4, <2>5, <2>6
  <1>6. /\ t \in StreamSet /\ t.made = calls /\ t.calls = u.calls
        /\ t.status = u.status /\ t.prints = u.prints
        /\ t.block = IF f.kind = "toolStart" THEN f.index
                     ELSE IF f.kind = "blockStop" THEN NoBlock ELSE s.block
    <2>1. t = Sent(u, f) /\ addToolDelta(u.made, f) = calls
      BY <1>2, <1>5
    <2>2. QED
      BY <1>1, <1>5, <2>1, SentFields
  <1>7. t.calls = t.made
    BY <1>3, <1>5, <1>6
  <1>8. /\ \A i \in Indices : i # f.index => calls[i] = s.made[i]
        /\ calls[f.index].named = (s.made[f.index].named \/ f.call.named)
        /\ calls[f.index].args = s.made[f.index].args \o f.call.args
    BY <1>1, <1>2, Delta
  <1>9. /\ \A i \in Indices : Arrived(s.made, i) =>
              s.made[i].named /\ (i # s.block => s.made[i].args # <<>>)
        /\ s.block # NoBlock => Arrived(s.made, s.block)
    BY DEF BlocksWhole
  <1>10. BlocksWhole(t)
    <2>1. CASE /\ f.kind \in {"start", "bad", "text", "finish", "stop", "blockStop"}
               /\ calls = s.made
               /\ f.kind = "blockStop" => s.made[s.block].args # <<>>
      <3>1. CASE f.kind = "blockStop"
        BY <1>6, <1>9, <2>1, <3>1 DEF BlocksWhole
      <3>2. CASE f.kind # "blockStop"
        BY <1>6, <1>9, <2>1, <3>2 DEF BlocksWhole
      <3>3. QED
        BY <3>1, <3>2
    <2>2. CASE f.kind = "tool" /\ s.block # NoBlock /\ f.index = s.block
      <3>1. calls[f.index].named /\ t.block = f.index
        BY <1>1, <1>6, <1>8, <1>9, <2>2
      <3>2. calls[f.index] # NoCall
        BY <3>1 DEF NoCall
      <3>3. \A i \in Indices : Arrived(calls, i) => calls[i].named /\ (i # t.block => calls[i].args # <<>>)
        BY <1>8, <1>9, <2>2, <3>1 DEF Arrived
      <3>4. QED
        BY <1>6, <3>1, <3>2, <3>3 DEF BlocksWhole, Arrived
    <2>3. CASE f.kind = "toolStart" /\ s.block = NoBlock /\ f.call.named
      <3>1. calls[f.index].named /\ t.block = f.index
        BY <1>1, <1>6, <1>8, <2>3
      <3>2. calls[f.index] # NoCall
        BY <3>1 DEF NoCall
      <3>3. \A i \in Indices : i # NoBlock
        BY Calls
      <3>4. \A i \in Indices : Arrived(calls, i) => calls[i].named /\ (i # t.block => calls[i].args # <<>>)
        BY <1>8, <1>9, <2>3, <3>1, <3>3 DEF Arrived
      <3>5. QED
        BY <1>6, <3>1, <3>2, <3>4 DEF BlocksWhole, Arrived
    <2>4. QED
      BY <1>3, <2>1, <2>2, <2>3
  <1>11. t.status = "success" => t.prints = Arrivals(t.made) /\ t.block = NoBlock
    BY <1>3, <1>4, <1>5, <1>6
  <1>12. f.kind # "completedCustom"
    BY <1>3
  <1>13. QED
    BY <1>6, <1>7, <1>10, <1>11, <1>12

\* Messages, passed on: a call is counted when its block stops, and all blocks
\* have stopped when the stream ends.
LEMMA MessagesStream ==
  ASSUME NEW s \in StreamSet, s.status = "open", BlocksCounted(s),
         NEW f \in MessageFrames(s), NEW t, t = Sent(inspectMessagesFrame(s, f), f)
  PROVE  /\ t \in StreamSet /\ BlocksCounted(t) /\ f.kind # "completedCustom"
         /\ t.status = "success" => t.prints = Arrivals(t.made)
  <1>1. f.index \in Indices /\ f.call \in CallSet /\ s.made \in [Indices -> CallSet]
        /\ s.prints \in Seq(CallSet) /\ s.current \in CallSet /\ Indices \subseteq Nat
    BY MessageFrame, Calls DEF StreamSet
  <1>2. PICK calls \in [Indices -> CallSet] : calls = addToolDelta(s.made, f)
    BY <1>1, Delta
  <1>3. \/ /\ f.kind \in {"start", "bad", "text", "finish", "stop", "blockStop"} /\ calls = s.made
           /\ f.kind = "blockStop" => s.block # NoBlock
           /\ f.kind = "stop" => s.block = NoBlock
        \/ /\ f.kind = "tool" /\ s.block # NoBlock /\ f.index = s.block
           /\ \E x \in Args : f.call = ArgsOf(x)
        \/ /\ f.kind = "toolStart" /\ s.block = NoBlock /\ f.call.named
           /\ ~Arrived(s.made, f.index)
           /\ \A j \in 0..(f.index - 1) : Arrived(s.made, j)
    BY <1>1, <1>2, MessageFrame, QuietFrame
  <1>4. /\ \A i \in Indices : i # f.index => calls[i] = s.made[i]
        /\ calls[f.index].named = (s.made[f.index].named \/ f.call.named)
        /\ calls[f.index].args = s.made[f.index].args \o f.call.args
    BY <1>1, <1>2, Delta
  <1>5. /\ Len(s.prints) <= MaxCalls /\ Len(s.prints) \in Nat
        /\ \A i \in Indices : i < Len(s.prints) => s.made[i] = s.prints[i + 1] /\ s.made[i].named
        /\ \A i \in Indices : i > Len(s.prints) => s.made[i] = NoCall
        /\ s.block = NoBlock => \A i \in Indices : i = Len(s.prints) => s.made[i] = NoCall
        /\ s.block # NoBlock => /\ s.block = Len(s.prints) /\ s.current = s.made[s.block]
                                /\ s.current.named /\ s.block \in Indices
    BY <1>1 DEF BlocksCounted, StreamSet
  <1>6. ASSUME NEW u \in StreamSet, u = inspectMessagesFrame(s, f), u.made = s.made
        PROVE  /\ t \in StreamSet /\ t.made = calls /\ t.status = u.status /\ t.prints = u.prints
               /\ t.current = u.current
               /\ t.block = IF f.kind = "toolStart" THEN f.index
                            ELSE IF f.kind = "blockStop" THEN NoBlock ELSE u.block
    <2>1. t = Sent(u, f) /\ addToolDelta(u.made, f) = calls
      BY <1>2, <1>6
    <2>2. QED
      BY <1>1, <1>6, <2>1, SentFields
  <1>7. CASE f.kind \in {"start", "bad", "text", "finish", "stop"}
    <2>1. calls = s.made /\ (f.kind = "stop" => s.block = NoBlock)
      BY <1>3, <1>7
    <2>2. PICK u \in StreamSet : /\ u = inspectMessagesFrame(s, f) /\ u.made = s.made
                                 /\ u.prints = s.prints /\ u.current = s.current /\ u.block = s.block
                                 /\ u.status = "success" => f.kind = "stop"
      <3>1. CASE f.kind = "bad"
        <4>1. inspectMessagesFrame(s, f) = [s EXCEPT !.status = "provider_error"]
          BY <3>1 DEF inspectMessagesFrame, Ends
        <4>2. QED
          BY <3>1, <4>1 DEF StreamSet
      <3>2. CASE f.kind = "stop"
        <4>1. inspectMessagesFrame(s, f) = [s EXCEPT !.status = "success"]
          BY <3>2 DEF inspectMessagesFrame, Ends
        <4>2. QED
          BY <3>2, <4>1 DEF StreamSet
      <3>3. CASE f.kind = "start"
        <4>1. inspectMessagesFrame(s, f) = [s EXCEPT !.started = TRUE]
          BY <3>3 DEF inspectMessagesFrame
        <4>2. QED
          BY <3>3, <4>1 DEF StreamSet
      <3>4. CASE f.kind \in {"text", "finish"}
        <4>1. inspectMessagesFrame(s, f) = s
          BY <3>4 DEF inspectMessagesFrame
        <4>2. QED
          BY <3>4, <4>1
      <3>5. QED
        BY <1>7, <3>1, <3>2, <3>3, <3>4
    <2>3. /\ t \in StreamSet /\ t.made = s.made /\ t.status = u.status /\ t.prints = s.prints
          /\ t.current = s.current /\ t.block = s.block
      BY <1>6, <1>7, <2>1, <2>2
    <2>4. BlocksCounted(t)
      BY <2>3 DEF BlocksCounted
    <2>5. ASSUME t.status = "success" PROVE t.prints = Arrivals(t.made)
      <3>1. s.block = NoBlock
        BY <2>1, <2>2, <2>3, <2>5
      <3>2. \A i \in Indices : i < Len(s.prints) => Arrived(s.made, i) /\ s.made[i] = s.prints[i + 1]
        BY <1>5 DEF Arrived, NoCall
      <3>3. \A i \in Indices : i >= Len(s.prints) => ~Arrived(s.made, i)
        BY <1>1, <1>5, <3>1 DEF Arrived
      <3>4. Arrivals(s.made) = s.prints
        BY <1>1, <1>5, <3>2, <3>3, ArrivalsInOrder
      <3>5. QED
        BY <2>3, <3>4
    <2>6. QED
      BY <1>7, <2>3, <2>4, <2>5
  <1>8. CASE f.kind = "blockStop"
    <2>1. calls = s.made /\ s.block # NoBlock
      BY <1>3, <1>8
    <2>2. PICK last \in CallSet : last = [s.current EXCEPT !.named = FALSE]
      BY <1>1 DEF CallSet
    <2>3. PICK prints \in Seq(CallSet) : prints = Append(s.prints, s.current)
      BY <1>1, AppendProperties
    <2>4. PICK u : u = [s EXCEPT !.prints = prints, !.current = last]
      OBVIOUS
    <2>5. u = inspectMessagesFrame(s, f)
      BY <1>5, <1>8, <2>1, <2>2, <2>3, <2>4 DEF inspectMessagesFrame, StreamSet
    <2>6. u \in StreamSet /\ u.made = s.made /\ u.prints = prints /\ u.status = "open"
      BY <2>4 DEF StreamSet
    <2>7. t \in StreamSet /\ t.made = s.made /\ t.status = "open" /\ t.prints = prints
          /\ t.block = NoBlock
      BY <1>6, <1>8, <2>1, <2>5, <2>6
    <2>8. /\ Len(prints) = Len(s.prints) + 1 /\ prints[Len(s.prints) + 1] = s.current
          /\ \A n \in 1..Len(s.prints) : prints[n] = s.prints[n]
      BY <1>1, <2>3, Appended
    <2>9. Len(prints) <= MaxCalls
      BY <1>5, <2>1, <2>8, MaxCallsAssumption DEF Indices
    <2>10. ASSUME NEW i \in Indices, i < Len(prints)
           PROVE  s.made[i] = prints[i + 1] /\ s.made[i].named
      <3>1. CASE i < Len(s.prints)
        <4>1. i + 1 \in 1..Len(s.prints)
          BY <1>1, <1>5, <3>1
        <4>2. QED
          BY <1>5, <2>8, <3>1, <4>1
      <3>2. CASE i = Len(s.prints)
        BY <1>5, <2>1, <2>8, <3>2
      <3>3. QED
        BY <1>1, <1>5, <2>8, <2>10, <3>1, <3>2
    <2>11. \A i \in Indices : i >= Len(prints) => s.made[i] = NoCall
      BY <1>1, <1>5, <2>8
    <2>12. BlocksCounted(t)
      <3>1. \A i \in Indices : (i > Len(prints) \/ i = Len(prints)) => s.made[i] = NoCall
        BY <1>1, <1>5, <2>8, <2>11
      <3>2. QED
        BY <2>7, <2>9, <2>10, <3>1 DEF BlocksCounted
    <2>13. QED
      BY <1>8, <2>7, <2>12
  <1>9. CASE f.kind = "tool"
    <2>1. s.block # NoBlock /\ f.index = s.block
      BY <1>3, <1>9
    <2>2. PICK args \in Seq(Args \cup {Empty}) : args = s.current.args \o f.call.args
      <3>1. s.current.args \in Seq(Args \cup {Empty}) /\ f.call.args \in Seq(Args \cup {Empty})
        BY <1>1, Calls
      <3>2. QED
        BY <3>1, ConcatProperties
    <2>3. PICK one \in CallSet : one = [s.current EXCEPT !.args = args]
      BY <1>1 DEF CallSet
    <2>4. PICK u : u = [s EXCEPT !.current = one]
      OBVIOUS
    <2>5. u = inspectMessagesFrame(s, f)
      BY <1>1, <1>9, <2>2, <2>3, <2>4 DEF inspectMessagesFrame, StreamSet, CallSet
    <2>6. u \in StreamSet /\ u.made = s.made /\ u.prints = s.prints /\ u.status = "open"
          /\ u.current = one /\ u.block = s.block
      BY <2>4 DEF StreamSet
    <2>7. t \in StreamSet /\ t.made = calls /\ t.status = "open" /\ t.prints = s.prints
          /\ t.block = s.block /\ t.current = one
      BY <1>6, <1>9, <2>5, <2>6
    <2>8. one.named /\ one.args = calls[s.block].args /\ calls[s.block].named
      BY ZenonT(40), <1>1, <1>4, <1>5, <2>1, <2>2, <2>3 DEF CallSet
    <2>9. one = calls[s.block]
      <3>1. PICK b \in CallSet : b = calls[s.block]
        BY <1>5, <2>1
      <3>2. b.named = one.named
        <4>1. b.named \in BOOLEAN /\ one.named \in BOOLEAN
          BY DEF CallSet
        <4>2. QED
          BY <2>8, <3>1, <4>1
      <3>3. QED
        BY <2>8, <3>1, <3>2 DEF CallSet
    <2>10. \A i \in Indices : i < Len(s.prints) => calls[i] = s.prints[i + 1] /\ calls[i].named
      BY <1>4, <1>5, <2>1
    <2>11. \A i \in Indices : i > Len(s.prints) => calls[i] = NoCall
      BY <1>4, <1>5, <2>1
    <2>12. BlocksCounted(t)
      BY <1>5, <2>1, <2>7, <2>8, <2>9, <2>10, <2>11 DEF BlocksCounted
    <2>13. QED
      BY <1>9, <2>7, <2>12
  <1>10. CASE f.kind = "toolStart"
    <2>1. /\ s.block = NoBlock /\ f.call.named /\ ~Arrived(s.made, f.index)
          /\ \A j \in 0..(f.index - 1) : Arrived(s.made, j)
      BY <1>3, <1>10
    <2>2. PICK u : u = [s EXCEPT !.current = f.call]
      OBVIOUS
    <2>3. u = inspectMessagesFrame(s, f)
      BY <1>10, <2>2 DEF inspectMessagesFrame
    <2>4. u \in StreamSet /\ u.made = s.made /\ u.prints = s.prints /\ u.status = "open"
          /\ u.current = f.call
      BY <1>1, <2>2 DEF StreamSet
    <2>5. t \in StreamSet /\ t.made = calls /\ t.status = "open" /\ t.prints = s.prints
          /\ t.block = f.index /\ t.current = f.call
      BY <1>6, <1>10, <2>3, <2>4
    <2>6. f.index = Len(s.prints)
      <3>1. ASSUME f.index < Len(s.prints) PROVE FALSE
        <4>1. s.made[f.index] = NoCall /\ s.made[f.index].named
          BY <1>1, <1>5, <2>1, <3>1 DEF Arrived
        <4>2. NoCall.named = FALSE
          BY DEF NoCall
        <4>3. QED
          BY <4>1, <4>2
      <3>2. ASSUME f.index > Len(s.prints) PROVE FALSE
        <4>1. Len(s.prints) \in 0..(f.index - 1) /\ Len(s.prints) \in Indices
          BY <1>1, <1>5, <3>2, MaxCallsAssumption DEF Indices
        <4>2. QED
          BY <1>5, <2>1, <4>1 DEF Arrived
      <3>3. f.index \in Nat /\ Len(s.prints) \in Nat
        BY <1>1, <1>5
      <3>4. QED
        BY <3>1, <3>2, <3>3
    <2>7. s.made[f.index] = NoCall
      BY <2>1 DEF Arrived
    <2>8. calls[f.index] = f.call
      <3>1. PICK b \in CallSet : b = calls[f.index]
        BY <1>1
      <3>2. f.call.args \in Seq(Args \cup {Empty}) /\ f.call.named \in BOOLEAN
        BY <1>1, Calls
      <3>3. b.named /\ b.args = <<>> \o f.call.args
        <4>1. NoCall.args = <<>>
          BY DEF NoCall
        <4>2. b.named
          BY <1>4, <2>1, <3>1
        <4>3. QED
          BY <1>4, <2>7, <3>1, <4>1, <4>2
      <3>4. b.args = f.call.args
        BY <3>2, <3>3, ConcatEmptySeq
      <3>5. b.named = f.call.named
        <4>1. b.named \in BOOLEAN
          BY Calls
        <4>2. QED
          BY <2>1, <3>2, <3>3, <4>1
      <3>6. QED
        BY SMTT(30), <1>1, <3>1, <3>4, <3>5 DEF CallSet
    <2>9. \A i \in Indices : i < Len(s.prints) => calls[i] = s.prints[i + 1] /\ calls[i].named
      BY <1>4, <1>5, <2>6
    <2>10. \A i \in Indices : i > Len(s.prints) => calls[i] = NoCall
      BY <1>4, <1>5, <2>6
    <2>11. f.index # NoBlock
      BY <1>1, Calls
    <2>12. BlocksCounted(t)
      BY <1>5, <2>1, <2>5, <2>6, <2>8, <2>9, <2>10, <2>11 DEF BlocksCounted
    <2>13. QED
      BY <1>10, <2>5, <2>12
  <1>11. QED
    BY <1>3, <1>7, <1>8, <1>9, <1>10

\* Responses, passed on: the response that ends the stream has all of its calls.
LEMMA ResponsesStream ==
  ASSUME NEW s \in StreamSet, s.status = "open", \A i \in Indices : s.made[i] = NoCall,
         NEW f \in ResponsesFrames, NEW t, t = Sent(inspectResponsesFrame(s, f), f)
  PROVE  /\ t \in StreamSet
         /\ t.status = "open" => \A i \in Indices : t.made[i] = NoCall
         /\ f.kind = "completedCustom" => t.status = "success"
         /\ t.status = "success" =>
              /\ Len(t.prints) = Len(Arrivals(t.made)) /\ Len(t.prints) <= 1
              /\ \A n \in 1..Len(t.prints) :
                    t.prints[n] = responsesPrint(f.kind = "completedCustom", Arrivals(t.made)[n])
  <1> DEFINE custom == f.kind = "completedCustom"
             ended == f.kind \in {"completed", "completedCustom"}
  <1>1. /\ f.index = 0 /\ 0 \in Indices /\ s.made \in [Indices -> CallSet]
        /\ \/ f.kind \in {"progress", "bad", "failed", "completed"} /\ f.call = NoCall
           \/ /\ ended
              /\ f.call \in CallSet /\ f.call.named
    <2>1. CASE f \in {Frame(k) : k \in {"progress", "bad", "failed", "completed"}}
      BY <2>1, Calls DEF Frame, StreamSet
    <2>2. CASE \E k \in {"completed", "completedCustom"}, x \in Args : f = ToolFrame(k, 0, Call(<<x>>))
      <3>1. PICK k \in {"completed", "completedCustom"}, x \in Args : f = ToolFrame(k, 0, Call(<<x>>))
        BY <2>2
      <3>2. Call(<<x>>) \in CallSet /\ Call(<<x>>).named
        BY Calls DEF Call
      <3>3. QED
        BY <3>1, <3>2, Calls DEF ToolFrame, StreamSet
    <2>3. QED
      BY <2>1, <2>2 DEF ResponsesFrames
  <1>2. f.call \in CallSet
    BY <1>1, Calls
  <1>3. PICK calls \in [Indices -> CallSet] : calls = addToolDelta(s.made, f)
    BY <1>1, <1>2, Delta
  <1>4. f.call = NoCall => calls = s.made
    BY <1>1, <1>3, QuietFrame DEF Quiet
  <1>5. ASSUME NEW u \in StreamSet, u = inspectResponsesFrame(s, f), u.made = s.made
        PROVE  t \in StreamSet /\ t.made = calls /\ t.status = u.status /\ t.prints = u.prints
    <2>1. t = Sent(u, f) /\ addToolDelta(u.made, f) = calls
      BY <1>3, <1>5
    <2>2. QED
      BY <1>1, <1>2, <1>5, <2>1, SentFields
  <1>6. CASE f.kind \in {"progress", "bad", "failed"}
    <2>1. PICK u \in StreamSet : /\ u = inspectResponsesFrame(s, f) /\ u.made = s.made
                                 /\ u.status # "success"
      <3>1. CASE f.kind = "bad"
        <4>1. inspectResponsesFrame(s, f) = [s EXCEPT !.status = "transport_error"]
          BY <3>1 DEF inspectResponsesFrame, Ends
        <4>2. QED
          BY <4>1 DEF StreamSet
      <3>2. CASE f.kind = "failed"
        <4>1. inspectResponsesFrame(s, f) = [s EXCEPT !.status = "provider_error"]
          BY <3>2 DEF inspectResponsesFrame, Ends
        <4>2. QED
          BY <4>1 DEF StreamSet
      <3>3. CASE f.kind = "progress"
        <4>1. inspectResponsesFrame(s, f) = s
          BY <3>3 DEF inspectResponsesFrame
        <4>2. QED
          BY <4>1
      <3>4. QED
        BY <1>6, <3>1, <3>2, <3>3
    <2>2. calls = s.made
      BY <1>1, <1>4, <1>6
    <2>3. QED
      BY <1>5, <1>6, <2>1, <2>2
  <1>7. CASE ended
    <2>1. PICK made \in Seq(CallSet) : made = IF f.call = NoCall THEN <<>> ELSE <<f.call>>
      <3>1. PICK one \in CallSet : one = f.call
        BY <1>2
      <3>2. <<>> \in Seq(CallSet) /\ <<one>> \in Seq(CallSet)
        OBVIOUS
      <3>3. CASE f.call = NoCall
        BY <3>2, <3>3
      <3>4. CASE f.call # NoCall
        BY <3>1, <3>2, <3>4
      <3>5. QED
        BY <3>3, <3>4
    <2>2. Len(made) <= 1 /\ Len(made) \in Nat /\ DOMAIN made = 1..Len(made)
      <3>1. CASE f.call = NoCall
        BY <2>1, <3>1
      <3>2. CASE f.call # NoCall
        BY <2>1, <3>2
      <3>3. QED
        BY <3>1, <3>2
    <2>3. PICK prints \in Seq(CallSet) :
              /\ prints = inspectResponsesPayload(custom, made) /\ Len(prints) = Len(made)
              /\ \A n \in 1..Len(made) : prints[n] = responsesPrint(custom, made[n])
      <3>1. ASSUME NEW n \in 1..Len(made) PROVE responsesPrint(custom, made[n]) \in CallSet
        <4>1. PICK one \in CallSet : one = made[n]
          OBVIOUS
        <4>2. [one EXCEPT !.args = <<>>] \in CallSet
          <5>1. <<>> \in Seq(Args \cup {Empty})
            OBVIOUS
          <5>2. QED
            BY <5>1 DEF CallSet
        <4>3. QED
          BY <4>1, <4>2 DEF responsesPrint
      <3>2. inspectResponsesPayload(custom, made) = [n \in 1..Len(made) |-> responsesPrint(custom, made[n])]
        BY <2>2 DEF inspectResponsesPayload
      <3> HIDE DEF custom
      <3>3. inspectResponsesPayload(custom, made) \in [1..Len(made) -> CallSet]
        BY <3>1, <3>2
      <3>4. QED
        BY <2>2, <3>2, <3>3, FunctionIsSequence
    <2>4. PICK u : u = [s EXCEPT !.prints = prints, !.status = "success"]
      OBVIOUS
    <2>5. u = inspectResponsesFrame(s, f)
      BY <1>7, <2>1, <2>3, <2>4 DEF inspectResponsesFrame, Ends, StreamSet
    <2>6. u \in StreamSet /\ u.made = s.made /\ u.status = "success" /\ u.prints = prints
      BY <2>4 DEF StreamSet
    <2>7. t \in StreamSet /\ t.made = calls /\ t.status = "success" /\ t.prints = prints
      BY <1>5, <2>5, <2>6
    <2>8. Arrivals(calls) = made
      <3>1. /\ \A i \in Indices : i < Len(made) => Arrived(calls, i) /\ calls[i] = made[i + 1]
            /\ \A i \in Indices : i >= Len(made) => ~Arrived(calls, i)
        <4>1. CASE f.call = NoCall
          <5>1. Len(made) = 0 /\ \A i \in Indices : calls[i] = NoCall /\ i \in Nat
            BY <1>4, <2>1, <4>1, Calls
          <5>2. QED
            BY <5>1 DEF Arrived
        <4>2. CASE f.call # NoCall
          <5>1. Len(made) = 1 /\ made[1] = f.call /\ f.call.named
            BY <1>1, <2>1, <4>2
          <5>2. /\ \A i \in Indices : i # 0 => calls[i] = s.made[i]
                /\ calls[0].named = (s.made[0].named \/ f.call.named)
                /\ calls[0].args = s.made[0].args \o f.call.args
            BY <1>1, <1>2, <1>3, Delta
          <5>3. PICK one \in CallSet : one = calls[0]
            BY <1>1
          <5>4. s.made[0].named = FALSE /\ s.made[0].args = <<>>
            BY <1>1 DEF NoCall
          <5>5. f.call.args \in Seq(Args \cup {Empty}) /\ f.call.named \in BOOLEAN
            BY <1>2, Calls
          <5>6. one.args = <<>> \o f.call.args
            BY <5>2, <5>3, <5>4
          <5>7. one.args = f.call.args
            BY <5>5, <5>6, ConcatEmptySeq
          <5>8. one.named = f.call.named
            <6>1. one.named \in BOOLEAN /\ one.named
              BY <5>1, <5>2, <5>3, Calls
            <6>2. QED
              BY <5>1, <5>5, <6>1
          <5>9. one = f.call
            <6>1. PICK two \in CallSet : two = f.call
              BY <1>2
            <6>2. one.named = two.named /\ one.args = two.args
              BY <5>7, <5>8, <6>1
            <6>3. one = two
              BY <6>2 DEF CallSet
            <6>4. QED
              BY <6>1, <6>3
          <5>10. \A i \in Indices : i \in Nat /\ (i < 1 <=> i = 0)
            BY Calls
          <5>11. ASSUME NEW i \in Indices, i < Len(made) PROVE Arrived(calls, i) /\ calls[i] = made[i + 1]
            BY <4>2, <5>1, <5>3, <5>9, <5>10, <5>11 DEF Arrived
          <5>12. ASSUME NEW i \in Indices, i >= Len(made) PROVE ~Arrived(calls, i)
            <6>1. i # 0
              BY <5>1, <5>12
            <6>2. QED
              BY <5>2, <6>1 DEF Arrived
          <5>13. QED
            BY <5>11, <5>12
        <4>3. QED
          BY <4>1, <4>2
      <3>2. Len(made) <= MaxCalls
        BY <2>2, MaxCallsAssumption
      <3>3. QED
        BY <3>1, <3>2, ArrivalsInOrder
    <2>9. QED
      BY <2>2, <2>3, <2>7, <2>8
  <1>8. QED
    BY <1>1, <1>6, <1>7

-----------------------------------------------------------------------------
\* What a stream comes to.

LEMMA OutcomeFields ==
  ASSUME NEW t \in StreamSet, t.status # "open", NEW f, NEW result, result = Outcome(t, f)
  PROVE  /\ result \in ResultSet /\ result.status = t.status
         /\ result.custom = (f.kind = "completedCustom")
         /\ result.made = Arrivals(t.made) /\ result.made \in Seq(CallSet)
         /\ result.prints = IF t.status = "success" THEN t.prints ELSE <<>>
         /\ t.status # "success" => result.fault = result.code /\ result.code # <<"cancelled">>
  <1>1. PICK made \in Seq(CallSet) : made = Arrivals(t.made)
    <2>1. t.made \in [Indices -> CallSet]
      BY DEF StreamSet
    <2>2. QED
      BY <2>1, ArrivalsArrived
  <1>2. PICK text \in BOOLEAN : text = (t.text = "some")
    OBVIOUS
  <1>3. PICK custom \in BOOLEAN : custom = (f.kind = "completedCustom")
    OBVIOUS
  <1>4. PICK prints \in Seq(CallSet) : prints = IF t.status = "success" THEN t.prints ELSE <<>>
    <2>1. t.prints \in Seq(CallSet)
      BY DEF StreamSet
    <2>2. <<>> \in Seq(CallSet)
      OBVIOUS
    <2>3. QED
      BY <2>1, <2>2
  <1>5. PICK code \in Codes \cup {None} : /\ code = IF t.status = "success" THEN None ELSE StreamCode(t)
                                          /\ t.status # "success" => code # <<"cancelled">>
    <2>1. StreamCode(t) \in {<<"response">>, <<"stream">>}
      BY DEF StreamCode
    <2>2. <<"response">> # <<"cancelled">> /\ <<"stream">> # <<"cancelled">>
      OBVIOUS
    <2>3. StreamCode(t) \in Codes /\ StreamCode(t) # <<"cancelled">>
      BY <2>1, <2>2 DEF Codes
    <2>4. QED
      BY <2>3
  <1>6. PICK status \in {"success", "provider_error", "transport_error"} : status = t.status
    BY DEF StreamSet
  <1>7. result = [status |-> status, code |-> code, fault |-> code, text |-> text,
                  prints |-> prints, made |-> made, custom |-> custom]
    BY <1>1, <1>2, <1>3, <1>4, <1>5, <1>6 DEF Outcome, NoResult
  <1>8. result \in ResultSet
    BY <1>7 DEF ResultSet
  <1>9. QED
    BY <1>1, <1>3, <1>4, <1>5, <1>6, <1>7, <1>8

\* After a frame the stream goes on as it should, or its outcome is sound.
LEMMA StreamStep ==
  ASSUME work \in WorkSet, work.streams, NEW s \in StreamSet, StreamOK(s), NEW f \in Frames(s),
         NEW t, t = Sent(Inspect(s, f), f)
  PROVE  /\ t \in StreamSet
         /\ t.status = "open" => StreamOK(t)
         /\ f.kind = "completedCustom" => Route = "responses" /\ t.status = "success"
         /\ t.status = "success" => /\ PrintsOK(Outcome(t, f)) /\ Complete(Outcome(t, f))
                                    /\ f.kind = "completedCustom" => Len(Outcome(t, f).made) <= 1
         /\ Refuted(t, f) => t.status = "provider_error" /\ t.prints = Arrivals(t.made)
  <1>1. Route \in Routes /\ s.status = "open"
    BY DEF Route, WorkSet, StreamOK
  <1>2. ASSUME t \in StreamSet, t.status = "success", t.prints = Arrivals(t.made),
               f.kind # "completedCustom"
        PROVE  PrintsOK(Outcome(t, f))
    <2>1. PICK result : result = Outcome(t, f)
      OBVIOUS
    <2>2. /\ result.prints = t.prints /\ result.made = t.prints
          /\ result.custom = (f.kind = "completedCustom")
      <3>1. t.status # "open"
        BY <1>2
      <3>2. /\ result.custom = (f.kind = "completedCustom")
            /\ result.made = Arrivals(t.made)
            /\ result.prints = IF t.status = "success" THEN t.prints ELSE <<>>
        BY <1>2, <2>1, <3>1, OutcomeFields
      <3>3. QED
        BY <1>2, <3>2
    <2>3. ~result.custom
      BY <1>2, <2>2
    <2>4. QED
      BY <2>1, <2>2, <2>3 DEF PrintsOK, responsesPrint
  <1>r. Route # "translated" => ~Refuted(t, f)
    BY DEF Refuted
  <1>3. CASE Route = "chat"
    <2>1. f \in ChatFrames(s) /\ t = Sent(inspectSSEFrame(s, f), f) /\ s.calls = s.made
      BY <1>3 DEF Frames, Inspect, StreamOK
    <2>2. /\ t \in StreamSet /\ t.calls = t.made /\ f.kind # "completedCustom"
          /\ t.status = "success" => t.prints = Arrivals(t.made)
      BY <1>1, <2>1, ChatStream
    <2>3. t.status = "open" => StreamOK(t)
      BY <1>3, <2>2 DEF StreamOK
    <2>4. t.status = "success" => Complete(Outcome(t, f))
      BY <1>3, <2>2, OutcomeFields DEF Complete
    <2>5. QED
      BY <1>2, <1>r, <1>3, <2>2, <2>3, <2>4
  <1>4. CASE Route = "translated"
    <2>1. f \in TranslatedFrames(s) /\ t = Sent(translateChatFrame(s, f), f) /\ s.calls = s.made
      BY <1>4 DEF Frames, Inspect, StreamOK
    <2>2. /\ t \in StreamSet /\ t.calls = t.made /\ f.kind # "completedCustom"
          /\ t.status = "success" => Completable(t.made)
          /\ t.status = "success" \/ (f.kind = "done" /\ Completed(t)) => t.prints = Arrivals(t.made)
          /\ f.kind = "done" => t.status \in {"success", "provider_error"}
      BY <1>1, <2>1, TranslatedStream
    <2>3. t.status = "open" => StreamOK(t)
      BY <1>4, <2>2 DEF StreamOK
    <2>4. ASSUME t.status = "success" PROVE Complete(Outcome(t, f))
      <3>1. \A i \in Indices : Arrived(t.made, i) => Whole(t.made[i])
        BY <2>2, <2>4 DEF Completable
      <3>2. t.made \in [Indices -> CallSet]
        BY <2>2 DEF StreamSet
      <3>3. PICK made : made = Arrivals(t.made)
        OBVIOUS
      <3>4. \A n \in 1..Len(made) : \E i \in Indices : Arrived(t.made, i) /\ made[n] = t.made[i]
        BY <3>2, <3>3, ArrivalsArrived
      <3>5. \A n \in 1..Len(made) : Whole(made[n])
        BY <3>1, <3>4
      <3>6. Outcome(t, f).status = "success" /\ Outcome(t, f).made = made
        BY <2>2, <2>4, <3>3, OutcomeFields
      <3>7. QED
        BY <1>4, <3>5, <3>6 DEF Complete
    <2>5. Refuted(t, f) => t.status = "provider_error" /\ t.prints = Arrivals(t.made)
      BY <2>2 DEF Refuted
    <2>6. QED
      BY <1>2, <2>2, <2>3, <2>4, <2>5
  <1>5. CASE Route = "anthropic"
    <2>1. f \in MessageFrames(s) /\ t = Sent(inspectAnthropicFrame(s, f), f) /\ s.calls = s.made
          /\ BlocksWhole(s)
      BY <1>5 DEF Frames, Inspect, StreamOK
    <2>2. /\ t \in StreamSet /\ t.calls = t.made /\ BlocksWhole(t) /\ f.kind # "completedCustom"
          /\ t.status = "success" => t.prints = Arrivals(t.made) /\ t.block = NoBlock
      BY <1>1, <2>1, AnthropicStream
    <2>3. t.status = "open" => StreamOK(t)
      BY <1>5, <2>2 DEF StreamOK
    <2>4. ASSUME t.status = "success" PROVE Complete(Outcome(t, f))
      <3>1. \A i \in Indices : Arrived(t.made, i) => t.made[i].named /\ t.made[i].args # <<>>
        BY <2>2, <2>4, Calls DEF BlocksWhole
      <3>2. t.made \in [Indices -> CallSet]
        BY <2>2 DEF StreamSet
      <3>3. PICK made : made = Arrivals(t.made)
        OBVIOUS
      <3>4. \A n \in 1..Len(made) : \E i \in Indices : Arrived(t.made, i) /\ made[n] = t.made[i]
        BY <3>2, <3>3, ArrivalsArrived
      <3>5. \A n \in 1..Len(made) : made[n].named /\ made[n].args # <<>>
        BY <3>1, <3>4
      <3>6. Outcome(t, f).status = "success" /\ Outcome(t, f).made = made
        BY <2>2, <2>4, <3>3, OutcomeFields
      <3>7. QED
        BY <1>5, <3>5, <3>6 DEF Complete
    <2>5. QED
      BY <1>2, <1>r, <1>5, <2>2, <2>3, <2>4
  <1>6. CASE Route = "messages"
    <2>1. f \in MessageFrames(s) /\ t = Sent(inspectMessagesFrame(s, f), f) /\ BlocksCounted(s)
      BY <1>6 DEF Frames, Inspect, StreamOK
    <2>2. /\ t \in StreamSet /\ BlocksCounted(t) /\ f.kind # "completedCustom"
          /\ t.status = "success" => t.prints = Arrivals(t.made)
      BY <1>1, <2>1, MessagesStream
    <2>3. t.status = "open" => StreamOK(t)
      BY <1>6, <2>2 DEF StreamOK
    <2>4. t.status = "success" => Complete(Outcome(t, f))
      BY <1>6, <2>2, OutcomeFields DEF Complete
    <2>5. QED
      BY <1>2, <1>r, <1>6, <2>2, <2>3, <2>4
  <1>7. CASE Route = "responses"
    <2>1. f \in ResponsesFrames /\ t = Sent(inspectResponsesFrame(s, f), f)
          /\ \A i \in Indices : s.made[i] = NoCall
      BY <1>7 DEF Frames, Inspect, StreamOK
    <2>2. /\ t \in StreamSet
          /\ t.status = "open" => \A i \in Indices : t.made[i] = NoCall
          /\ f.kind = "completedCustom" => t.status = "success"
          /\ t.status = "success" =>
               /\ Len(t.prints) = Len(Arrivals(t.made)) /\ Len(t.prints) <= 1
               /\ \A n \in 1..Len(t.prints) :
                     t.prints[n] = responsesPrint(f.kind = "completedCustom", Arrivals(t.made)[n])
      BY <1>1, <2>1, ResponsesStream
    <2>3. t.status = "open" => StreamOK(t)
      BY <1>7, <2>2 DEF StreamOK
    <2>4. ASSUME t.status = "success"
          PROVE  PrintsOK(Outcome(t, f)) /\ Complete(Outcome(t, f)) /\ Len(Outcome(t, f).made) <= 1
      <3>1. PICK result : result = Outcome(t, f)
        OBVIOUS
      <3>2. PICK custom \in BOOLEAN : custom = (f.kind = "completedCustom")
        OBVIOUS
      <3>3. /\ result.prints = t.prints /\ result.made = Arrivals(t.made) /\ result.custom = custom
            /\ result.status = "success"
        <4>1. t.status # "open"
          BY <2>4
        <4>2. /\ result.custom = (f.kind = "completedCustom") /\ result.status = t.status
              /\ result.made = Arrivals(t.made)
              /\ result.prints = IF t.status = "success" THEN t.prints ELSE <<>>
          BY <2>2, <3>1, <4>1, OutcomeFields
        <4>3. QED
          BY <2>4, <3>2, <4>2
      <3>4. PrintsOK(result)
        BY <2>2, <2>4, <3>2, <3>3 DEF PrintsOK
      <3>5. Complete(result) /\ Len(result.made) <= 1
        BY <1>7, <2>2, <2>4, <3>3 DEF Complete
      <3>6. QED
        BY <3>1, <3>4, <3>5
    <2>5. QED
      BY <1>7, <1>r, <2>2, <2>3, <2>4
  <1>8. QED
    BY <1>1, <1>3, <1>4, <1>5, <1>6, <1>7 DEF Routes

\* A request that the gateway translates keeps the order of its conversation.
LEMMA RequestInOrder ==
  ASSUME NEW items \in Seq(ItemSet)
  PROVE  /\ Request(items) \in [items : Seq(ItemSet), out : OutSet] /\ Request(items).items = items
         /\ Route \in {"anthropic", "translated"} =>
               KeepsOrder(items, Request(items).out) /\ GuidanceFirst(Request(items).out)
  <1> DEFINE fits(out) == out \in OutSet /\ KeepsOrder(items, out) /\ GuidanceFirst(out)
  <1>1. PICK N \in Nat : N = Len(items) /\ DOMAIN items = 1..N
    OBVIOUS
  <1>2. ASSUME NEW out \in OutSet, Order(out, N) PROVE fits(out)
    BY <1>1, <1>2 DEF Order, KeepsOrder, GuidanceFirst
  <1>3. fits(Refused)
    BY DEF Refused, OutSet, KeepsOrder, GuidanceFirst
  <1>4. fits(buildChatRequest(items))
    BY <1>1, <1>2, ChatInOrder DEF buildChatRequest
  <1>5. fits(translateAnthropicRequest(items))
    <2>1. fits(Translate(AnthropicTurn, items))
      BY <1>1, <1>2, AnthropicInOrder
    <2>2. translateAnthropicRequest(items) \in {Refused, Translate(AnthropicTurn, items)}
      BY DEF translateAnthropicRequest
    <2> HIDE DEF fits
    <2>3. QED
      BY <1>3, <2>1, <2>2
  <1>6. Nothing \in OutSet
    BY NothingInOrder
  <1>7. PICK out : Request(items) = [items |-> items, out |-> out] /\
              out = CASE Route = "anthropic" -> translateAnthropicRequest(items)
                      [] Route = "translated" -> buildChatRequest(items)
                      [] OTHER -> Nothing
    BY DEF Request
  <1>8. CASE Route = "anthropic"
    BY <1>5, <1>7, <1>8
  <1>9. CASE Route = "translated"
    BY <1>4, <1>7, <1>9
  <1>10. CASE Route \notin {"anthropic", "translated"}
    <2>1. out = Nothing
      BY <1>7, <1>10
    <2>2. QED
      BY <1>6, <1>7, <1>10, <2>1
  <1>11. QED
    BY <1>8, <1>9, <1>10

-----------------------------------------------------------------------------
\* Handlers.

LEMMA Defaults ==
  /\ NoResult \in ResultSet /\ NewStream \in StreamSet /\ NoRow \in RowSet
  /\ NoRequest \in [items : Seq(ItemSet), out : OutSet]
  <1>1. None \in Codes \cup {None} /\ <<>> \in Seq(CallSet) /\ None \in Values
    BY DEF Values
  <1>2. NoResult \in ResultSet
    BY <1>1 DEF NoResult, ResultSet
  <1>3. [i \in Indices |-> NoCall] \in [Indices -> CallSet]
    BY Calls
  <1>4. NewStream \in StreamSet
    BY <1>1, <1>3, Calls DEF NewStream, StreamSet
  <1>5. NoRow \in RowSet
    BY <1>1 DEF NoRow, RowSet
  <1>6. NoRequest \in [items : Seq(ItemSet), out : OutSet]
    <2>1. <<>> \in Seq(ItemSet) /\ Nothing \in OutSet
      BY NothingInOrder
    <2>2. QED
      BY <2>1 DEF NoRequest
  <1>7. QED
    BY <1>2, <1>4, <1>5, <1>6

LEMMA NoRequestFits == RequestFits(NoRequest)
  <1>1. InOrder(Nothing) = [n \in 1..0 |-> n] /\ GuidanceFirst(Nothing)
    BY NothingInOrder DEF Order, Nothing
  <1>2. DOMAIN <<>> = 1..0
    OBVIOUS
  <1>3. NoRequest.items = <<>> /\ NoRequest.out = Nothing
    BY DEF NoRequest
  <1>4. KeepsOrder(NoRequest.items, NoRequest.out)
    BY <1>1, <1>2, <1>3 DEF KeepsOrder
  <1>5. QED
    BY <1>1, <1>3, <1>4 DEF RequestFits

\* A result of which nothing is counted.
FailureFair(told, status, code, fault) ==
    status \in {"provider_error", "transport_error"} =>
        /\ \/ told = "error" \/ fault = <<"cancelled">>
           \/ Route = "messages" /\ work.streams
        /\ \/ fault = <<"cancelled">>
           \/ Route = "messages" /\ fault # code
           \/ fault = code /\ code # <<"cancelled">>

LEMMA IdleFits == Fits(Idle)
  <1>1. Idle \in HandlerSet
    <2>1. <<>> \in Seq(KindSet) /\ 1 \in 1..3 /\ None \in Runs \cup {None}
      OBVIOUS
    <2>2. QED
      BY <2>1, Defaults DEF Idle, HandlerSet
  <1>2. /\ Idle.pc = "idle" /\ ~Idle.late /\ Idle.request = NoRequest /\ Idle.told = "nothing"
        /\ Idle.result = NoResult /\ Idle.todo = <<>> /\ Idle.stream = NewStream
    BY DEF Idle
  <1>3. ResultFits("nothing", NoResult)
    BY DEF ResultFits, NoResult
  <1>4. TodoFits(<<>>, NoResult)
    BY DEF TodoFits
  <1>5. QED
    BY <1>1, <1>2, <1>3, <1>4, NoRequestFits DEF Fits

\* What fits, fits in the next state too.
LEMMA StillFits ==
  ASSUME NEW x, Fits(x), work'.route = work.route, work'.streams = work.streams
  PROVE  Fits(x)'
  <1>1. Route' = Route
    BY DEF Route
  <1>2. StreamOK(x.stream)' = StreamOK(x.stream)
    BY <1>1 DEF StreamOK, BlocksWhole, BlocksCounted, Arrived
  <1>3. RequestFits(x.request)' = RequestFits(x.request)
    BY <1>1 DEF RequestFits
  <1>4. ResultFits(x.told, x.result)' = ResultFits(x.told, x.result)
    BY <1>1 DEF ResultFits, Complete, Confused, PrintsOK
  <1>5. TodoFits(x.todo, x.result)' = TodoFits(x.todo, x.result)
    BY DEF TodoFits
  <1>6. QED
    BY <1>2, <1>3, <1>4, <1>5 DEF Fits

LEMMA HandlerGoesOn ==
  ASSUME Handlers, NEW c \in Callers, NEW new, Fits(new), Becomes(c, new),
         work'.route = work.route, work'.streams = work.streams
  PROVE  Handlers'
  <1>1. new \in HandlerSet
    BY DEF Fits
  <1>2. call' \in [Callers -> HandlerSet]
    BY <1>1 DEF Handlers, Becomes
  <1>3. ASSUME NEW d \in Callers PROVE Fits(call[d])'
    <2>1. PICK x : x = call'[d] /\ Fits(x)
      BY DEF Handlers, Becomes
    <2>2. Fits(x)'
      BY <2>1, StillFits
    <2>3. QED
      BY <2>1, <2>2
  <1>4. QED
    BY <1>2, <1>3 DEF Handlers

LEMMA HandlersStay ==
  ASSUME Handlers, UNCHANGED call, work'.route = work.route, work'.streams = work.streams
  PROVE  Handlers'
  <1>1. ASSUME NEW d \in Callers PROVE Fits(call[d])'
    <2>1. PICK x : x = call'[d] /\ Fits(x)
      BY DEF Handlers
    <2>2. Fits(x)'
      BY <2>1, StillFits
    <2>3. QED
      BY <2>1, <2>2
  <1>2. QED
    BY <1>1 DEF Handlers

LEMMA HandlerRecords ==
  ASSUME Handlers, NEW c \in Callers, NEW k, NEW r, NEW new, Fits(new), Recorded(c, k, r, new),
         work'.route = work.route, work'.streams = work.streams
  PROVE  Handlers'
  <1>1. ASSUME NEW d \in Callers PROVE Fits(call'[d])
    <2>1. CASE d = c
      BY <2>1 DEF Recorded
    <2>2. CASE d # c
      <3>1. PICK x \in HandlerSet : x = call[d] /\ Fits(x)
        BY DEF Handlers
      <3>2. PICK late \in BOOLEAN : late = (x.late \/ Saving(d, k, r))
        OBVIOUS
      <3>3. PICK y : y = [x EXCEPT !.late = late] /\ y = call'[d]
        BY <2>2, <3>1, <3>2 DEF Recorded
      <3>4. y \in HandlerSet
        BY <3>3 DEF HandlerSet
      <3>5. /\ y.pc = x.pc /\ y.run = x.run /\ y.todo = x.todo /\ y.stream = x.stream
            /\ y.request = x.request /\ y.told = x.told /\ y.result = x.result /\ y.late = late
        BY <3>3 DEF HandlerSet
      <3>6. x.pc # "save" => ~late
        BY <3>1, <3>2 DEF Fits, Saving
      <3>7. QED
        BY <3>1, <3>3, <3>4, <3>5, <3>6 DEF Fits
    <2>3. QED
      BY <2>1, <2>2
  <1>2. call' \in [Callers -> HandlerSet]
    <2>1. \A d \in Callers : call'[d] \in HandlerSet
      BY <1>1 DEF Fits
    <2>2. call' = [d \in Callers |-> call'[d]]
      BY DEF Recorded
    <2>3. QED
      BY <2>1, <2>2
  <1>3. ASSUME NEW d \in Callers PROVE Fits(call[d])'
    <2>1. PICK x : x = call'[d] /\ Fits(x)
      BY <1>1
    <2>2. Fits(x)'
      BY <2>1, StillFits
    <2>3. QED
      BY <2>1, <2>2
  <1>4. QED
    BY <1>2, <1>3 DEF Handlers

LEMMA Pair == ASSUME NEW a, NEW b PROVE <<a>> \o <<b>> = <<a, b>>
  <1> DEFINE S == Seq({a, b})
  <1>1. <<a>> \in S /\ <<b>> \in S /\ <<a, b>> \in S
    OBVIOUS
  <1>2. PICK s \in S : s = <<a>> \o <<b>> /\ Len(s) = 2 /\ s[1] = a /\ s[2] = b
    <2>1. /\ Len(<<a>> \o <<b>>) = 2 /\ (<<a>> \o <<b>>)[1] = a /\ (<<a>> \o <<b>>)[2] = b
          /\ <<a>> \o <<b>> \in S
      BY <1>1
    <2>2. QED
      BY <2>1
  <1>3. PICK t \in S : t = <<a, b>> /\ Len(t) = 2 /\ t[1] = a /\ t[2] = b
    BY <1>1
  <1>4. \A i \in 1..Len(s) : s[i] = t[i]
    <2>1. 1..2 = {1, 2}
      OBVIOUS
    <2>2. QED
      BY <1>2, <1>3, <2>1
  <1>5. s = t
    BY <1>2, <1>3, <1>4, SeqEqual
  <1>6. QED
    BY <1>2, <1>3, <1>5

LEMMA TodoOfResult ==
  ASSUME NEW result \in ResultSet, NEW todo, todo = Todo(result)
  PROVE  todo \in Seq(KindSet) /\ TodoFits(todo, result)
  <1>1. {"tool_call", "provider_error"} \subseteq KindSet
    BY TheKinds
  <1>2. PICK calls : calls = IF result.prints # <<>> THEN <<"tool_call">> ELSE <<>>
    OBVIOUS
  <1>3. PICK outcome : outcome = IF result.status \in {"success", "provider_error", "transport_error"}
                                 THEN <<"provider_error">> ELSE <<>>
    OBVIOUS
  <1>4. todo = IF Route \in {"chat", "anthropic"} THEN calls \o outcome ELSE outcome \o calls
    BY <1>2, <1>3 DEF Todo
  <1>5. CASE calls = <<>> /\ outcome = <<>>
    <2>1. todo = <<>>
      BY <1>4, <1>5
    <2>2. QED
      BY <2>1 DEF TodoFits
  <1>6. CASE calls = <<"tool_call">> /\ outcome = <<>>
    <2>1. todo = <<"tool_call">> /\ result.prints # <<>>
      BY <1>2, <1>4, <1>6
    <2>2. QED
      BY <1>1, <2>1 DEF TodoFits
  <1>7. CASE calls = <<>> /\ outcome = <<"provider_error">>
    <2>1. todo = <<"provider_error">>
          /\ result.status \in {"success", "provider_error", "transport_error"}
      BY <1>3, <1>4, <1>7
    <2>2. QED
      BY <1>1, <2>1 DEF TodoFits
  <1>8. CASE calls = <<"tool_call">> /\ outcome = <<"provider_error">>
    <2>1. result.prints # <<>> /\ result.status \in {"success", "provider_error", "transport_error"}
      BY <1>2, <1>3, <1>8
    <2>2. todo = <<"tool_call", "provider_error">> \/ todo = <<"provider_error", "tool_call">>
      <3>1. CASE Route \in {"chat", "anthropic"}
        BY <1>4, <1>8, <3>1, Pair
      <3>2. CASE Route \notin {"chat", "anthropic"}
        BY <1>4, <1>8, <3>2, Pair
      <3>3. QED
        BY <3>1, <3>2
    <2>3. todo \in Seq(KindSet)
      <3>1. <<"tool_call", "provider_error">> \in Seq(KindSet)
        BY <1>1
      <3>2. <<"provider_error", "tool_call">> \in Seq(KindSet)
        BY <1>1
      <3>3. QED
        BY <2>2, <3>1, <3>2
    <2>4. QED
      BY <2>1, <2>2, <2>3 DEF TodoFits
  <1>9. QED
    BY <1>2, <1>3, <1>5, <1>6, <1>7, <1>8

LEMMA HandlerConcludes ==
  ASSUME Handlers, NEW c \in Callers, call[c].pc \in {"ask", "stream"},
         NEW told \in {"reply", "done", "refuted", "error", "cut"}, NEW result \in ResultSet,
         ResultFits(told, result), Conclude(c, told, result),
         work'.route = work.route, work'.streams = work.streams
  PROVE  Handlers'
  <1>1. PICK x \in HandlerSet : x = call[c] /\ Fits(x)
    BY DEF Handlers
  <1>2. PICK todo \in Seq(KindSet) : todo = Todo(result) /\ TodoFits(todo, result)
    BY TodoOfResult
  <1>3. PICK new : new = [x EXCEPT !.pc = "record", !.stream = NewStream, !.told = told,
                                   !.result = result, !.todo = todo]
    OBVIOUS
  <1>4. new \in HandlerSet
    BY <1>3, Defaults DEF HandlerSet
  <1>5. /\ new.pc = "record" /\ new.run = x.run /\ new.late = x.late /\ new.request = x.request
        /\ new.told = told /\ new.result = result /\ new.todo = todo /\ new.stream = NewStream
    BY <1>3 DEF HandlerSet
  <1>6. Fits(new)
    BY <1>1, <1>2, <1>4, <1>5 DEF Fits
  <1>7. Becomes(c, new)
    BY <1>1, <1>2, <1>3 DEF Conclude
  <1>8. QED
    BY <1>6, <1>7, HandlerGoesOn

-----------------------------------------------------------------------------
\* Caches.

LEMMA Entries ==
  /\ NoEntry \in EntrySet /\ NoEntry.count = -1 /\ NoEntry.seen = <<>>
  /\ Zero \in EntrySet /\ Zero.count = 0 /\ Zero.seen = <<>> /\ Zero.value = None
  <1>1. NoEntry \in EntrySet /\ NoEntry.count = -1 /\ NoEntry.seen = <<>> /\ NoEntry.value = None
    <2>1. <<>> \in Seq(ResultIds) /\ None \in Values /\ -1 \in Nat \cup {-1}
      BY DEF Values
    <2>2. QED
      BY <2>1 DEF NoEntry, EntrySet
  <1>2. PICK no \in EntrySet : no = NoEntry
    BY <1>1
  <1>3. Zero = [no EXCEPT !.count = 0]
    BY <1>2 DEF Zero
  <1>4. Zero \in EntrySet /\ Zero.count = 0 /\ Zero.seen = no.seen /\ Zero.value = no.value
    BY <1>3 DEF EntrySet
  <1>5. QED
    BY <1>1, <1>2, <1>4

\* An entry of a cache, or the one that a handler starts with.
LEMMA EntryFits ==
  ASSUME Caches, NEW k \in KindSet, NEW r \in Runs
  PROVE  /\ EntryOf(k, r) \in EntrySet /\ EntryOf(k, r).count >= 0 /\ EntryOf(k, r).count \in Nat
         /\ Len(EntryOf(k, r).seen) <= MaxSeen /\ EntryOf(k, r).seen \in Seq(ResultIds)
  <1>1. MaxSeen \in Nat
    BY RepetitionAssumption
  <1>2. PICK e : e = EntryOf(k, r)
    OBVIOUS
  <1>3. CASE Cached(k, r)
    <2>1. e = cache[k][r]
      BY <1>2, <1>3 DEF EntryOf
    <2>2. e \in EntrySet /\ e.count >= 0 /\ Len(e.seen) <= MaxSeen
      BY <1>3, <2>1 DEF Caches, Orderly
    <2>3. e.count \in Nat /\ e.seen \in Seq(ResultIds)
      BY <2>2 DEF EntrySet
    <2>4. QED
      BY <1>2, <2>2, <2>3
  <1>4. CASE ~Cached(k, r)
    <2>1. e = Zero
      BY <1>2, <1>4 DEF EntryOf
    <2>2. e \in EntrySet /\ e.count = 0 /\ e.seen = <<>>
      BY <2>1, Entries
    <2>3. Len(e.seen) <= MaxSeen /\ e.seen \in Seq(ResultIds)
      BY <1>1, <2>2
    <2>4. QED
      BY <1>2, <2>2, <2>3
  <1>5. QED
    BY <1>3, <1>4

\* What one cache holds.
Holds(cached, runs) ==
    /\ Len(runs) <= MaxRuns
    /\ \A r \in Runs : cached[r] # NoEntry <=> \E i \in 1..Len(runs) : runs[i] = r
    /\ \A i, j \in 1..Len(runs) : runs[i] = runs[j] => i = j
    /\ \A r \in Runs : /\ cached[r] # NoEntry => cached[r].count >= 0
                       /\ Len(cached[r].seen) <= MaxSeen

LEMMA OrderlyHolds == Orderly <=> \A k \in KindSet : Holds(cache[k], order[k])
  BY DEF Orderly, Holds, Cached

Puts(old, runs, r, entry, new, after) ==
    LET full == old[r] = NoEntry /\ Len(runs) >= MaxRuns
    IN  /\ new = [q \in Runs |-> IF q = r THEN entry
                                  ELSE IF full /\ q = Head(runs) THEN NoEntry ELSE old[q]]
        /\ after = IF old[r] # NoEntry THEN runs
                   ELSE Append(IF full THEN Tail(runs) ELSE runs, r)

LEMMA HeldRuns ==
  ASSUME NEW old \in [Runs -> EntrySet], NEW runs \in Seq(Runs), Holds(old, runs),
         NEW r \in Runs, NEW entry \in EntrySet, entry.count >= 0, Len(entry.seen) <= MaxSeen,
         NEW new, NEW after, Puts(old, runs, r, entry, new, after)
  PROVE  new \in [Runs -> EntrySet] /\ after \in Seq(Runs) /\ Holds(new, after)
  <1>0. PICK full \in BOOLEAN :
            /\ full = (old[r] = NoEntry /\ Len(runs) >= MaxRuns)
            /\ new = [q \in Runs |-> IF q = r THEN entry
                                      ELSE IF full /\ q = Head(runs) THEN NoEntry ELSE old[q]]
            /\ after = IF old[r] # NoEntry THEN runs
                       ELSE Append(IF full THEN Tail(runs) ELSE runs, r)
    BY DEF Puts
  <1> USE <1>0
  <1>1. MaxRuns \in Nat \ {0} /\ MaxSeen \in Nat /\ Len(runs) \in Nat
    BY RepetitionAssumption
  <1>2. new \in [Runs -> EntrySet]
    BY Entries
  <1>3. entry # NoEntry
    BY Entries
  <1>4. \A q \in Runs : /\ new[q] # NoEntry => new[q].count >= 0
                        /\ Len(new[q].seen) <= MaxSeen
    <2>1. Len(NoEntry.seen) = 0
      BY Entries
    <2>2. QED
      BY <1>1, <2>1 DEF Holds
  <1>5. CASE old[r] # NoEntry
    <2>1. after = runs /\ ~full
      BY <1>5
    <2>2. \A q \in Runs : new[q] # NoEntry <=> old[q] # NoEntry
      BY <1>3, <1>5, <2>1
    <2>3. QED
      BY <1>2, <1>4, <2>1, <2>2 DEF Holds
  <1>6. CASE old[r] = NoEntry /\ Len(runs) < MaxRuns
    <2>1. ~full /\ after = Append(runs, r)
      <3>1. ~full
        <4>1. ~(Len(runs) >= MaxRuns)
          <5>1. \A m, n \in Nat : m < n => ~(m >= n)
            OBVIOUS
          <5>2. QED
            BY <1>1, <1>6, <5>1
        <4>2. QED
          BY <4>1
      <3>2. QED
        BY <1>6, <3>1
    <2>2. /\ after \in Seq(Runs) /\ Len(after) = Len(runs) + 1 /\ after[Len(runs) + 1] = r
          /\ \A i \in 1..Len(runs) : after[i] = runs[i]
      BY <2>1, Appended
    <2>3. \A i \in 1..Len(runs) : runs[i] # r
      BY <1>6 DEF Holds
    <2>4. ASSUME NEW q \in Runs
          PROVE  new[q] # NoEntry <=> \E i \in 1..Len(after) : after[i] = q
      <3>1. CASE q = r
        <4>1. Len(after) \in 1..Len(after)
          BY <1>1, <2>2
        <4>2. QED
          BY <1>3, <2>2, <3>1, <4>1
      <3>2. CASE q # r
        <4>1. new[q] # NoEntry <=> \E i \in 1..Len(runs) : runs[i] = q
          BY <2>1, <3>2 DEF Holds
        <4>2. (\E i \in 1..Len(runs) : runs[i] = q) <=> (\E i \in 1..Len(after) : after[i] = q)
          BY <1>1, <2>2, <3>2
        <4>3. QED
          BY <4>1, <4>2
      <3>3. QED
        BY <3>1, <3>2
    <2>5. \A i, j \in 1..Len(after) : after[i] = after[j] => i = j
      <3>1. \A i \in 1..Len(after) : i = Len(runs) + 1 \/ i \in 1..Len(runs)
        BY <1>1, <2>2
      <3>2. QED
        BY <2>2, <2>3, <3>1 DEF Holds
    <2>6. QED
      BY <1>1, <1>2, <1>4, <1>6, <2>2, <2>4, <2>5 DEF Holds
  <1>7. CASE old[r] = NoEntry /\ Len(runs) >= MaxRuns
    <2>1. full /\ after = Append(Tail(runs), r) /\ Len(runs) = MaxRuns /\ runs # <<>>
      <3>1. full
        BY <1>7
      <3>2. Len(runs) <= MaxRuns
        BY DEF Holds
      <3>3. Len(runs) = MaxRuns
        <4>1. \A m, n \in Nat : m <= n /\ m >= n => m = n
          OBVIOUS
        <4>2. QED
          BY <1>1, <1>7, <3>2, <4>1
      <3>4. runs # <<>>
        <4>1. Len(runs) # 0
          BY <1>1, <3>3
        <4>2. QED
          BY <4>1, EmptySeq
      <3>5. QED
        BY <1>7, <3>1, <3>3, <3>4
    <2>2. PICK tail \in Seq(Runs) :
              /\ tail = Tail(runs) /\ Len(tail) = Len(runs) - 1
              /\ \A i \in 1..Len(tail) : tail[i] = runs[i + 1]
      BY <2>1, HeadTailProperties
    <2>3. /\ after \in Seq(Runs) /\ Len(after) = Len(tail) + 1 /\ after[Len(tail) + 1] = r
          /\ \A i \in 1..Len(tail) : after[i] = tail[i]
      BY <2>1, <2>2, Appended
    <2>4. /\ Len(after) = Len(runs) /\ after[Len(runs)] = r
          /\ \A i \in 1..(Len(runs) - 1) : after[i] = runs[i + 1]
      <3>1. PICK n \in Nat : n = Len(tail) /\ n + 1 = Len(runs) /\ Len(runs) - 1 = n
        <4>1. PICK m \in Nat, l \in Nat : m = Len(tail) /\ l = Len(runs) /\ m = l - 1
          BY <1>1, <2>2, LenProperties
        <4>2. m + 1 = l
          BY <4>1
        <4>3. QED
          BY <4>1, <4>2
      <3>2. Len(after) = Len(runs) /\ after[Len(runs)] = r
        BY <2>3, <3>1
      <3>3. \A i \in 1..n : after[i] = runs[i + 1]
        BY <2>2, <2>3, <3>1
      <3>4. QED
        BY <3>1, <3>2, <3>3
    <2>5. PICK first \in Runs : first = Head(runs) /\ first = runs[1]
      BY <2>1
    <2>6. \A i \in 1..Len(runs) : runs[i] # r
      BY <1>7 DEF Holds
    <2>7. 1 \in 1..Len(runs) /\ first # r
      BY <1>1, <2>1, <2>5, <2>6
    <2>8. ASSUME NEW q \in Runs
          PROVE  new[q] # NoEntry <=> \E i \in 1..Len(after) : after[i] = q
      <3>1. CASE q = r
        <4>1. Len(after) \in 1..Len(after)
          BY <1>1, <2>1, <2>4
        <4>2. QED
          BY <1>3, <2>4, <3>1, <4>1
      <3>2. CASE q = first
        <4>1. new[q] = NoEntry
          BY <2>1, <2>5, <2>7, <3>2
        <4>2. ASSUME NEW i \in 1..Len(after), after[i] = q PROVE FALSE
          <5>1. i \in 1..(Len(runs) - 1)
            BY <1>1, <2>4, <2>7, <3>2, <4>2
          <5>2. runs[i + 1] = runs[1] /\ i + 1 \in 1..Len(runs) /\ i + 1 # 1
            BY <1>1, <2>4, <2>5, <3>2, <4>2, <5>1
          <5>3. QED
            BY <2>7, <5>2 DEF Holds
        <4>3. QED
          BY <4>1, <4>2
      <3>3. CASE q # r /\ q # first
        <4>1. new[q] # NoEntry <=> \E i \in 1..Len(runs) : runs[i] = q
          BY <2>5, <3>3 DEF Holds
        <4>2. ASSUME NEW i \in 1..Len(runs), runs[i] = q PROVE \E j \in 1..Len(after) : after[j] = q
          <5>1. i # 1 /\ i - 1 \in 1..(Len(runs) - 1) /\ i - 1 + 1 = i
            BY <1>1, <2>5, <3>3, <4>2
          <5>2. i - 1 \in 1..Len(after) /\ after[i - 1] = q
            BY <1>1, <2>4, <4>2, <5>1
          <5>3. QED
            BY <5>2
        <4>3. ASSUME NEW i \in 1..Len(after), after[i] = q PROVE \E j \in 1..Len(runs) : runs[j] = q
          <5>1. i \in 1..(Len(runs) - 1)
            BY <1>1, <2>4, <3>3, <4>3
          <5>2. i + 1 \in 1..Len(runs) /\ runs[i + 1] = q
            BY <1>1, <2>4, <4>3, <5>1
          <5>3. QED
            BY <5>2
        <4>4. QED
          BY <4>1, <4>2, <4>3
      <3>4. QED
        BY <3>1, <3>2, <3>3
    <2>9. ASSUME NEW i \in 1..Len(after), NEW j \in 1..Len(after), after[i] = after[j]
          PROVE  i = j
      <3>1. \A n \in 1..Len(after) : n = Len(runs) \/ n \in 1..(Len(runs) - 1)
        BY <1>1, <2>4
      <3>2. \A n \in 1..(Len(runs) - 1) : n + 1 \in 1..Len(runs) /\ after[n] # r
        BY <1>1, <2>4, <2>6
      <3>3. CASE i \in 1..(Len(runs) - 1) /\ j \in 1..(Len(runs) - 1)
        <4>1. runs[i + 1] = runs[j + 1] /\ i + 1 \in 1..Len(runs) /\ j + 1 \in 1..Len(runs)
          BY <2>4, <2>9, <3>2, <3>3
        <4>2. i + 1 = j + 1
          BY <4>1 DEF Holds
        <4>3. QED
          BY <3>3, <4>2
      <3>4. QED
        BY <2>4, <2>9, <3>1, <3>2, <3>3
    <2>10. QED
      BY <1>1, <1>2, <1>4, <2>1, <2>3, <2>4, <2>8, <2>9 DEF Holds
  <1>8. QED
    BY <1>1, <1>5, <1>6, <1>7

LEMMA PutKeeps ==
  ASSUME Caches, NEW k \in KindSet, NEW r \in Runs, NEW entry \in EntrySet, entry.count >= 0,
         Len(entry.seen) <= MaxSeen, Put(k, r, entry), UNCHANGED saved
  PROVE  Caches'
  <1>1. PICK old \in [Runs -> EntrySet] : old = cache[k]
    BY DEF Caches
  <1>2. PICK runs \in Seq(Runs) : runs = order[k]
    BY DEF Caches
  <1>3. Holds(old, runs)
    BY <1>1, <1>2, OrderlyHolds DEF Caches
  <1>4. PICK new, after : Puts(old, runs, r, entry, new, after)
    BY DEF Puts
  <1>5. new \in [Runs -> EntrySet] /\ after \in Seq(Runs) /\ Holds(new, after)
    BY <1>3, <1>4, HeldRuns
  <1>8. cache' = [cache EXCEPT ![k] = new] /\ order' = [order EXCEPT ![k] = after]
    BY <1>1, <1>2, <1>4 DEF Put, Puts, Cached, Caches
  <1>9. /\ cache' \in [KindSet -> [Runs -> EntrySet]] /\ order' \in [KindSet -> Seq(Runs)]
        /\ \A q \in KindSet : Holds(cache'[q], order'[q])
    BY <1>5, <1>8, OrderlyHolds DEF Caches
  <1>10. Orderly'
    BY <1>9 DEF Orderly, Holds, Cached
  <1>11. QED
    BY <1>9, <1>10 DEF Caches

-----------------------------------------------------------------------------
\* Counts.

ActiveSet == [value : Values, count : Nat, seen : Seq(ResultIds)]

LEMMA CountFits ==
  ASSUME NEW entry \in ActiveSet, NEW value \in Values
  PROVE  /\ Count(entry, value) \in ActiveSet
         /\ Count(entry, value).count = IF entry.value = value THEN entry.count + 1 ELSE 1
         /\ Count(entry, value).value = value /\ Count(entry, value).seen = entry.seen
  <1>1. PICK count \in Nat : count = IF entry.value = value THEN entry.count + 1 ELSE 1
    BY DEF ActiveSet
  <1>2. Count(entry, value) = [entry EXCEPT !.count = count, !.value = value]
    BY <1>1 DEF Count, ActiveSet
  <1>3. QED
    BY <1>1, <1>2 DEF ActiveSet

LEMMA ExtendFits ==
  ASSUME NEW s \in StreakSet, NEW value \in Truths, NEW print \in Values
  PROVE  /\ Extend(s, value, print) \in StreakSet
         /\ Extend(s, value, print).value = value /\ Extend(s, value, print).print = print
         /\ Extend(s, value, print).n = IF s.value = value THEN s.n + 1 ELSE 1
  <1>1. PICK n \in Nat : n = IF s.value = value THEN s.n + 1 ELSE 1
    BY DEF StreakSet
  <1>2. Extend(s, value, print) = [value |-> value, print |-> print, n |-> n]
    BY <1>1 DEF Extend
  <1>3. QED
    BY <1>1, <1>2 DEF StreakSet

\* The calls of a reply are counted one after the other,
LEMMA CountSteps ==
  ASSUME NEW entry \in ActiveSet, NEW prints \in Seq(CallSet)
  PROVE  \E r \in [0..Len(prints) -> ActiveSet] :
            /\ r[0] = entry /\ r[Len(prints)] = RecordToolCalls(entry, prints)
            /\ \A m \in 1..Len(prints) : r[m] = Count(r[m - 1], prints[m])
  <1> DEFINE op(acc, n) == Count(acc, n)
             B == CallSet
             f == prints
             step == [acc \in ActiveSet |-> [n \in B |-> op(acc, n)]]
             solves(h) == h = [s \in SUBSET (DOMAIN f) |->
                                 IF s = {} THEN entry ELSE op(h[s \ {Max(s)}], f[Max(s)])]
             g == CHOOSE h : solves(h)
  <1>1. RecordToolCalls(entry, prints) = g[DOMAIN f]
    BY DEF RecordToolCalls, FoldLeft, MapThenFoldSet
  <1>2. PICK N \in Nat : N = Len(prints) /\ DOMAIN f = 1..N /\ f \in [1..N -> B]
                         /\ \A n \in 1..N : f[n] = prints[n]
    OBVIOUS
  <1>4. step \in [ActiveSet -> [B -> ActiveSet]]
    <2>1. \A acc \in ActiveSet, n \in B : op(acc, n) \in ActiveSet
      <3>1. CallSet \subseteq Values
        BY DEF Values
      <3>2. QED
        BY <3>1, CountFits
    <2> HIDE DEF op, B
    <2>2. QED
      BY <2>1
  <1> HIDE DEF B, f
  <1>5. \A s \in SUBSET (1..N) : s # {} => f[Max(s)] \in B
    <2>1. ASSUME NEW s \in SUBSET (1..N), s # {} PROVE f[Max(s)] \in B
      <3>1. Max(s) \in 1..N
        BY <2>1, LargestNumber
      <3>2. QED
        BY <1>2, <3>1
    <2>2. QED
      BY <2>1
  <1>6. solves(g)
    <2>1. PICK h \in [SUBSET (1..N) -> ActiveSet] : Folded(h, step, entry, f, N)
      <3> HIDE DEF step
      <3>1. QED
        BY <1>2, <1>4, StepsExist
    <2>2. ASSUME NEW s \in SUBSET (1..N), s # {}
          PROVE  step[h[s \ {Max(s)}]][f[Max(s)]] = op(h[s \ {Max(s)}], f[Max(s)])
      <3>1. h[s \ {Max(s)}] \in ActiveSet /\ f[Max(s)] \in B
        BY <1>5, <2>2
      <3> HIDE DEF op
      <3>2. QED
        BY <3>1
    <2> HIDE DEF op, step
    <2>3. solves(h)
      BY <1>2, <2>1, <2>2 DEF Folded
    <2> HIDE DEF solves
    <2>4. QED
      BY <2>3
  <1>7. FoldsIn(ActiveSet, g, step, entry, f, N)
    <2> HIDE DEF g, op
    <2>1. ASSUME NEW s \in SUBSET (1..N), s # {}, g[s \ {Max(s)}] \in ActiveSet
          PROVE  g[s] = step[g[s \ {Max(s)}]][f[Max(s)]]
      <3>1. f[Max(s)] \in B
        BY <1>5, <2>1
      <3>2. g[s] = op(g[s \ {Max(s)}], f[Max(s)])
        BY <1>2, <1>6, <2>1
      <3>3. QED
        BY <2>1, <3>1, <3>2
    <2>2. g[{}] = entry
      BY <1>6
    <2> HIDE DEF step
    <2>3. QED
      BY <2>1, <2>2 DEF FoldsIn
  <1>8. PICK r : StepByStep(ActiveSet, r, step, entry, f, N, g[1..N])
    <2> HIDE DEF step, g
    <2>1. QED
      BY <1>2, <1>4, <1>7, FoldTakesSteps
  <1>9. ASSUME NEW m \in 1..N PROVE r[m] = op(r[m - 1], prints[m])
    <2>1. m - 1 \in 0..N /\ f[m] = prints[m] /\ f[m] \in B
      BY <1>2
    <2>2. r[m - 1] \in ActiveSet /\ r[m] = step[r[m - 1]][f[m]]
      BY <1>8, <2>1 DEF StepByStep
    <2> HIDE DEF op
    <2>3. QED
      BY <2>1, <2>2
  <1>10. /\ r \in [0..N -> ActiveSet] /\ r[0] = entry /\ r[N] = g[1..N]
         /\ \A m \in 1..N : r[m] = op(r[m - 1], prints[m])
    BY <1>8, <1>9 DEF StepByStep
  <1> HIDE DEF g
  <1>11. QED
    BY <1>1, <1>2, <1>10

\* and so is what they truly are.
LEMMA RepeatSteps ==
  ASSUME NEW s \in StreakSet, NEW result \in ResultSet,
         Len(result.prints) = Len(result.made)
  PROVE  \E r \in [0..Len(result.prints) -> StreakSet] :
            /\ r[0] = s /\ r[Len(result.prints)] = Repeat(s, result)
            /\ \A m \in 1..Len(result.prints) : r[m] = Extend(r[m - 1], <<result.custom, result.made[m]>>, result.prints[m])
  <1> DEFINE op(acc, n) == Extend(acc, <<result.custom, result.made[n]>>, result.prints[n])
             B == 1..Len(result.prints)
             f == [n \in DOMAIN result.prints |-> n]
             step == [acc \in StreakSet |-> [n \in B |-> op(acc, n)]]
             solves(h) == h = [u \in SUBSET (DOMAIN f) |->
                                 IF u = {} THEN s ELSE op(h[u \ {Max(u)}], f[Max(u)])]
             g == CHOOSE h : solves(h)
  <1>1. Repeat(s, result) = g[DOMAIN f]
    BY DEF Repeat, FoldLeft, MapThenFoldSet
  <1>2. PICK N \in Nat : N = Len(result.prints) /\ DOMAIN f = 1..N /\ f \in [1..N -> B]
                         /\ \A n \in 1..N : f[n] = n
    <2>1. PICK prints \in Seq(CallSet) : prints = result.prints
      BY DEF ResultSet
    <2>2. QED
      BY <2>1
  <1>4. step \in [StreakSet -> [B -> StreakSet]]
    <2>1. \A acc \in StreakSet, n \in B : op(acc, n) \in StreakSet
      <3>1. CallSet \subseteq Values /\ BOOLEAN \X CallSet \subseteq Truths
        BY DEF Values, Truths
      <3>2. \A n \in B : /\ <<result.custom, result.made[n]>> \in BOOLEAN \X CallSet
                         /\ result.prints[n] \in CallSet
        BY DEF ResultSet
      <3>3. QED
        BY <3>1, <3>2, ExtendFits
    <2> HIDE DEF op, B
    <2>2. QED
      BY <2>1
  <1> HIDE DEF B, f
  <1>5. \A u \in SUBSET (1..N) : u # {} => f[Max(u)] \in B
    <2>1. ASSUME NEW u \in SUBSET (1..N), u # {} PROVE f[Max(u)] \in B
      <3>1. Max(u) \in 1..N
        BY <2>1, LargestNumber
      <3>2. QED
        BY <1>2, <3>1
    <2>2. QED
      BY <2>1
  <1>6. solves(g)
    <2>1. PICK h \in [SUBSET (1..N) -> StreakSet] : Folded(h, step, s, f, N)
      <3> HIDE DEF step
      <3>1. QED
        BY <1>2, <1>4, StepsExist
    <2>2. ASSUME NEW u \in SUBSET (1..N), u # {}
          PROVE  step[h[u \ {Max(u)}]][f[Max(u)]] = op(h[u \ {Max(u)}], f[Max(u)])
      <3>1. h[u \ {Max(u)}] \in StreakSet /\ f[Max(u)] \in B
        BY <1>5, <2>2
      <3> HIDE DEF op
      <3>2. QED
        BY <3>1
    <2> HIDE DEF op, step
    <2>3. solves(h)
      BY <1>2, <2>1, <2>2 DEF Folded
    <2> HIDE DEF solves
    <2>4. QED
      BY <2>3
  <1>7. FoldsIn(StreakSet, g, step, s, f, N)
    <2> HIDE DEF g, op
    <2>1. ASSUME NEW u \in SUBSET (1..N), u # {}, g[u \ {Max(u)}] \in StreakSet
          PROVE  g[u] = step[g[u \ {Max(u)}]][f[Max(u)]]
      <3>1. f[Max(u)] \in B
        BY <1>5, <2>1
      <3>2. g[u] = op(g[u \ {Max(u)}], f[Max(u)])
        BY <1>2, <1>6, <2>1
      <3>3. QED
        BY <2>1, <3>1, <3>2
    <2>2. g[{}] = s
      BY <1>6
    <2> HIDE DEF step
    <2>3. QED
      BY <2>1, <2>2 DEF FoldsIn
  <1>8. PICK r : StepByStep(StreakSet, r, step, s, f, N, g[1..N])
    <2> HIDE DEF step, g
    <2>1. QED
      BY <1>2, <1>4, <1>7, FoldTakesSteps
  <1>9. ASSUME NEW m \in 1..N PROVE r[m] = op(r[m - 1], m)
    <2>1. m - 1 \in 0..N /\ f[m] = m /\ f[m] \in B
      BY <1>2
    <2>2. r[m - 1] \in StreakSet /\ r[m] = step[r[m - 1]][f[m]]
      BY <1>8, <2>1 DEF StepByStep
    <2> HIDE DEF op
    <2>3. QED
      BY <2>1, <2>2
  <1>10. /\ r \in [0..N -> StreakSet] /\ r[0] = s /\ r[N] = g[1..N]
         /\ \A m \in 1..N : r[m] = op(r[m - 1], m)
    BY <1>8, <1>9 DEF StepByStep
  <1> HIDE DEF g
  <1>11. QED
    BY <1>1, <1>2, <1>10

LEMMA CallsCounted ==
  ASSUME NEW entry \in ActiveSet, NEW prints \in Seq(CallSet)
  PROVE  /\ RecordToolCalls(entry, prints) \in ActiveSet
         /\ RecordToolCalls(entry, prints).seen = entry.seen
  <1>1. PICK r \in [0..Len(prints) -> ActiveSet] :
            /\ r[0] = entry /\ r[Len(prints)] = RecordToolCalls(entry, prints)
            /\ \A m \in 1..Len(prints) : r[m] = Count(r[m - 1], prints[m])
    BY CountSteps
  <1>2. PICK N \in Nat : N = Len(prints)
    OBVIOUS
  <1> DEFINE T == {m \in 0..N : r[m].seen = entry.seen}
  <1>3. 0 \in T
    BY <1>1, <1>2
  <1>4. ASSUME NEW m \in 1..N, m - 1 \in T PROVE m \in T
    <2>1. PICK e \in ActiveSet, value \in Values : e = r[m - 1] /\ value = prints[m]
      <3>1. m - 1 \in 0..N
        OBVIOUS
      <3>2. prints[m] \in Values
        BY <1>2 DEF Values
      <3>3. QED
        BY <1>1, <1>2, <3>1, <3>2
    <2>2. r[m].seen = r[m - 1].seen
      BY <1>1, <1>2, <2>1, CountFits
    <2>3. QED
      BY <1>4, <2>2
  <1>5. 0..N \subseteq T
    <2> HIDE DEF T
    <2>1. QED
      BY <1>3, <1>4, StepInduction
  <1>6. N \in 0..N
    OBVIOUS
  <1>7. QED
    BY <1>1, <1>2, <1>5, <1>6

LEMMA ActiveFits ==
  ASSUME NEW e \in ActiveSet
  PROVE  e \in EntrySet /\ e.count >= 0 /\ Row(e) \in RowSet
         /\ Row(e).count = e.count /\ Row(e).value = e.value
  <1>1. e.count \in Nat /\ e.value \in Values /\ e.seen \in Seq(ResultIds)
    BY DEF ActiveSet
  <1>2. e \in EntrySet
    BY DEF ActiveSet, EntrySet
  <1>3. Row(e) \in RowSet
    BY <1>1 DEF Row, RowSet
  <1>4. QED
    BY <1>1, <1>2, <1>3 DEF Row

LEMMA EntryActive ==
  ASSUME Caches, NEW k \in KindSet, NEW r \in Runs
  PROVE  EntryOf(k, r) \in ActiveSet /\ Len(EntryOf(k, r).seen) <= MaxSeen
  <1>1. PICK e \in EntrySet : e = EntryOf(k, r) /\ e.count \in Nat /\ Len(e.seen) <= MaxSeen
    BY EntryFits
  <1>2. e \in ActiveSet
    BY <1>1 DEF EntrySet, ActiveSet
  <1>3. QED
    BY <1>1, <1>2

\* A tool result leaves an entry that fits; an id that was seen is no news.
LEMMA ResultCounted ==
  ASSUME NEW old \in ActiveSet, Len(old.seen) <= MaxSeen, NEW id \in ResultIds,
         NEW result \in ToolErrors \cup {"success"},
         NEW e, e = RecordToolResult(old, id, result)
  PROVE  /\ e \in ActiveSet /\ Len(e.seen) <= MaxSeen
         /\ IF Contains(old.seen, id) THEN e = old
            ELSE /\ \A n \in 1..Len(e.seen) : e.seen[n] = id \/ \E i \in 1..Len(old.seen) : e.seen[n] = old.seen[i]
                 /\ e.value = result
                 /\ e.count = IF result = "success" THEN 0
                              ELSE IF old.value = result THEN old.count + 1 ELSE 1
  <1>1. CASE Contains(old.seen, id)
    <2>1. e = old
      BY <1>1 DEF RecordToolResult
    <2>2. QED
      BY <1>1, <2>1
  <1>2. CASE ~Contains(old.seen, id)
    <2>1. MaxSeen \in Nat \ {0} /\ old.seen \in Seq(ResultIds)
      BY RepetitionAssumption DEF ActiveSet
    <2>2. PICK kept \in Seq(ResultIds) :
              /\ kept = IF Len(old.seen) >= MaxSeen THEN Tail(old.seen) ELSE old.seen
              /\ Len(kept) + 1 <= MaxSeen
              /\ \A n \in 1..Len(kept) : \E i \in 1..Len(old.seen) : kept[n] = old.seen[i]
      <3>1. CASE Len(old.seen) >= MaxSeen
        <4>1. old.seen # <<>>
          BY <2>1, <3>1
        <4>2. PICK kept \in Seq(ResultIds) :
                  /\ kept = Tail(old.seen) /\ Len(kept) = Len(old.seen) - 1
                  /\ \A n \in 1..Len(kept) : kept[n] = old.seen[n + 1]
          BY <2>1, <4>1, HeadTailProperties
        <4>3. Len(old.seen) \in Nat /\ Len(kept) \in Nat
          BY <2>1, LenProperties
        <4>4. Len(kept) + 1 <= MaxSeen
          BY <2>1, <4>2, <4>3
        <4>5. \A n \in 1..Len(kept) : n + 1 \in 1..Len(old.seen)
          BY <4>2, <4>3
        <4>6. QED
          BY <3>1, <4>2, <4>4, <4>5
      <3>2. CASE ~(Len(old.seen) >= MaxSeen)
        BY <2>1, <3>2
      <3>3. QED
        BY <3>1, <3>2
    <2>3. PICK seen \in Seq(ResultIds) :
              /\ seen = Append(kept, id) /\ Len(seen) = Len(kept) + 1 /\ seen[Len(kept) + 1] = id
              /\ \A n \in 1..Len(kept) : seen[n] = kept[n]
      <3>1. PICK seen : seen = Append(kept, id)
        OBVIOUS
      <3>2. QED
        BY <3>1, Appended
    <2>4. PICK e1 \in ActiveSet : e1 = [old EXCEPT !.seen = seen] /\ e1.value = old.value
                                  /\ e1.count = old.count /\ e1.seen = seen
      <3>1. PICK e1 : e1 = [old EXCEPT !.seen = seen]
        OBVIOUS
      <3>2. e1 \in ActiveSet /\ e1.value = old.value /\ e1.count = old.count /\ e1.seen = seen
        BY <3>1 DEF ActiveSet
      <3>3. QED
        BY <3>1, <3>2
    <2>5. e = IF result = "success" THEN [e1 EXCEPT !.count = 0, !.value = result]
              ELSE Count(e1, result)
      BY <1>2, <2>2, <2>3, <2>4 DEF RecordToolResult, ActiveSet
    <2>6. result \in Values
      BY DEF Values
    <2>7. /\ e \in ActiveSet /\ e.seen = seen /\ e.value = result
          /\ e.count = IF result = "success" THEN 0
                       ELSE IF old.value = result THEN old.count + 1 ELSE 1
      <3>1. CASE result = "success"
        <4>1. e = [e1 EXCEPT !.count = 0, !.value = result]
          BY <2>5, <3>1
        <4>2. PICK n \in Nat, value \in Values : n = 0 /\ value = result
          BY <2>6
        <4>3. e = [e1 EXCEPT !.count = n, !.value = value]
          BY <4>1, <4>2
        <4>4. e \in ActiveSet /\ e.seen = e1.seen /\ e.value = value /\ e.count = n
          BY <4>3 DEF ActiveSet
        <4>5. QED
          BY <2>4, <3>1, <4>2, <4>4
      <3>2. CASE result # "success"
        <4>1. e = Count(e1, result)
          BY <2>5, <3>2
        <4>2. /\ e \in ActiveSet /\ e.seen = e1.seen /\ e.value = result
              /\ e.count = IF e1.value = result THEN e1.count + 1 ELSE 1
          BY <2>6, <4>1, CountFits
        <4>3. QED
          BY <2>4, <3>2, <4>2
      <3>3. QED
        BY <3>1, <3>2
    <2>8. \A n \in 1..Len(seen) : seen[n] = id \/ \E i \in 1..Len(old.seen) : seen[n] = old.seen[i]
      <3>1. \A n \in 1..Len(seen) : n = Len(kept) + 1 \/ n \in 1..Len(kept)
        BY <2>3, LenProperties
      <3>2. QED
        BY <2>2, <2>3, <3>1
    <2>9. QED
      BY <1>2, <2>2, <2>3, <2>7, <2>8
  <1>3. QED
    BY <1>1, <1>2

-----------------------------------------------------------------------------
\* Steps.

LEMMA CountsLost ==
  ASSUME History, NEW k \in KindSet, NEW r \in Runs, NEW when, Lose(k, r, when),
         streak' \in [KindSet -> [Runs -> StreakSet]], reported' \subseteq Runs \X ResultIds
  PROVE  History'
  BY DEF History, Lose

\* A handler that has only moved on.
SameAnswer(x, new) ==
    /\ new.run = x.run /\ new.request = x.request /\ new.stream = x.stream
    /\ new.told = x.told /\ new.result = x.result /\ new.todo = x.todo /\ new.late = x.late

LEMMA Moved ==
  ASSUME NEW x, Fits(x), x.pc \notin {"idle", "save", "stream"}, NEW new \in HandlerSet,
         SameAnswer(x, new), new.pc \notin {"idle", "save", "stream"}
  PROVE  Fits(new)
  BY DEF Fits, SameAnswer

LEMMA Passed ==
  ASSUME NEW x, Fits(x), x.pc \in {"check", "fill"}
  PROVE  /\ Pass(x) \in HandlerSet /\ SameAnswer(x, Pass(x)) /\ Pass(x).pc \in {"check", "policy"}
         /\ Fits(Pass(x))
  <1>1. x \in HandlerSet
    BY DEF Fits
  <1>2. CASE x.kind < Len(Kinds)
    <2>1. PICK kind \in 1..3 : kind = x.kind + 1
      BY <1>1, <1>2, TheKinds DEF HandlerSet
    <2>2. PICK new : new = [x EXCEPT !.pc = "check", !.kind = kind]
      OBVIOUS
    <2>3. Pass(x) = new
      BY <1>1, <1>2, <2>1, <2>2 DEF Pass, HandlerSet
    <2>4. new \in HandlerSet /\ new.pc = "check" /\ SameAnswer(x, new)
      BY <1>1, <2>2 DEF HandlerSet, SameAnswer
    <2>5. QED
      BY <2>3, <2>4, Moved
  <1>3. CASE ~(x.kind < Len(Kinds))
    <2>1. PICK new : new = [x EXCEPT !.pc = "policy"]
      OBVIOUS
    <2>2. Pass(x) = new
      BY <1>3, <2>1 DEF Pass
    <2>3. new \in HandlerSet /\ new.pc = "policy" /\ SameAnswer(x, new)
      BY <1>1, <2>1 DEF HandlerSet, SameAnswer
    <2>4. QED
      BY <2>2, <2>3, Moved
  <1>4. QED
    BY <1>2, <1>3

LEMMA Decided ==
  ASSUME NEW x, Fits(x), x.pc \in {"check", "fill"}, NEW count
  PROVE  /\ Decide(x, count) \in HandlerSet /\ SameAnswer(x, Decide(x, count))
         /\ Decide(x, count).pc = IF count >= Threshold THEN "blocked" ELSE Pass(x).pc
         /\ Decide(x, count).pc \in {"blocked", "check", "policy"}
         /\ Fits(Decide(x, count))
  <1>1. x \in HandlerSet
    BY DEF Fits
  <1>2. CASE count >= Threshold
    <2>1. PICK new : new = [x EXCEPT !.pc = "blocked"]
      OBVIOUS
    <2>2. Decide(x, count) = new
      BY <1>2, <2>1 DEF Decide
    <2>3. new \in HandlerSet /\ new.pc = "blocked" /\ SameAnswer(x, new)
      BY <1>1, <2>1 DEF HandlerSet, SameAnswer
    <2>4. QED
      BY <1>2, <2>2, <2>3, Moved
  <1>3. CASE ~(count >= Threshold)
    <2>1. Decide(x, count) = Pass(x)
      BY <1>3 DEF Decide
    <2>2. QED
      BY <1>3, <2>1, Passed
  <1>4. QED
    BY <1>2, <1>3

LEMMA AskStep == ASSUME Inv, NEW c \in Callers, Ask(c) PROVE Inv'
  <1>1. work \in WorkSet /\ work.calls > 0
    BY DEF Inv, Ask
  <1>2. PICK calls \in Nat : calls = work.calls - 1
    BY <1>1 DEF WorkSet
  <1>3. work' = [work EXCEPT !.calls = calls]
    BY <1>2 DEF Ask
  <1>4. work' \in WorkSet /\ work'.route = work.route /\ work'.streams = work.streams
    BY <1>1, <1>3 DEF WorkSet
  <1>5. PICK r \in work.runs, items \in work.prompts :
            Becomes(c, [Idle EXCEPT !.pc = "check", !.run = r, !.request = Request(items)])
    BY DEF Ask
  <1>6. r \in Runs /\ items \in Seq(ItemSet)
    BY <1>1 DEF WorkSet
  <1>7. PICK request \in [items : Seq(ItemSet), out : OutSet] :
            request = Request(items) /\ RequestFits(request)
    BY <1>6, RequestInOrder DEF RequestFits
  <1>8. PICK idle \in HandlerSet : idle = Idle /\ Fits(idle) /\ idle.pc = "idle"
    BY IdleFits DEF Fits, Idle
  <1>9. PICK new : new = [idle EXCEPT !.pc = "check", !.run = r, !.request = request]
    OBVIOUS
  <1>10. /\ new \in HandlerSet /\ new.pc = "check" /\ new.run = r /\ new.request = request
         /\ new.stream = idle.stream /\ new.told = idle.told /\ new.result = idle.result
         /\ new.todo = idle.todo /\ new.late = idle.late
    BY <1>6, <1>9 DEF HandlerSet
  <1>11. Fits(new)
    BY <1>6, <1>7, <1>8, <1>10 DEF Fits
  <1>12. Handlers'
    <2>1. Becomes(c, new)
      BY <1>5, <1>7, <1>8, <1>9
    <2>2. QED
      BY <1>4, <1>11, <2>1, HandlerGoesOn DEF Inv
  <1>13. Caches' /\ History'
    BY DEF Inv, Ask, Caches, History, Orderly, Cached, repetition
  <1>14. QED
    BY <1>4, <1>12, <1>13 DEF Inv

LEMMA CheckCachedStep == ASSUME Inv, NEW c \in Callers, CheckCached(c) PROVE Inv'
  <1>1. PICK x : x = call[c] /\ Fits(x) /\ x.pc = "check"
    BY DEF Inv, Handlers, CheckCached
  <1>2. PICK count : Becomes(c, Decide(x, count))
    BY <1>1 DEF CheckCached
  <1>3. Handlers'
    <2>1. PICK new : new = Decide(x, count) /\ Fits(new)
      BY <1>1, Decided
    <2>2. UNCHANGED work
      BY DEF CheckCached
    <2>3. QED
      BY <1>2, <2>1, <2>2, HandlerGoesOn DEF Inv
  <1>4. Caches' /\ History' /\ UNCHANGED work
    BY DEF Inv, CheckCached, Caches, History, Orderly, Cached, repetition
  <1>5. QED
    BY <1>3, <1>4 DEF Inv

LEMMA CheckSavedStep == ASSUME Inv, NEW c \in Callers, CheckSaved(c) PROVE Inv'
  <1>1. PICK x \in HandlerSet : x = call[c] /\ Fits(x) /\ x.pc = "check" /\ x.run \in Runs
    BY DEF Inv, Handlers, CheckSaved, Fits
  <1>2. PICK k \in KindSet : k = Kinds[x.kind]
    BY <1>1, TheKinds DEF HandlerSet
  <1>3. PICK row \in RowSet : row = saved[k][x.run]
    BY <1>1 DEF Inv, Caches
  <1>4. PICK due \in BOOLEAN : due = Due(k, x.run)
    <2>1. PICK n, m : n = streak[k][x.run].n /\ m = Threshold
      OBVIOUS
    <2>2. (n >= m) \in BOOLEAN
      OBVIOUS
    <2>3. QED
      BY <2>1, <2>2 DEF Due
  <1>5. PICK fill : fill = [x EXCEPT !.pc = "fill", !.row = row, !.due = due]
    OBVIOUS
  <1>6. Fits(fill)
    <2>1. fill \in HandlerSet /\ fill.pc = "fill" /\ SameAnswer(x, fill)
      BY <1>1, <1>5 DEF HandlerSet, SameAnswer
    <2>2. QED
      BY <1>1, <2>1, Moved
  <1>7. PICK new : Fits(new) /\ Becomes(c, new)
    <2>1. Becomes(c, Pass(x)) \/ Becomes(c, fill)
      BY <1>1, <1>2, <1>3, <1>4, <1>5 DEF CheckSaved
    <2>2. Fits(Pass(x))
      BY <1>1, Passed
    <2>3. QED
      BY <1>6, <2>1, <2>2
  <1>8. Handlers'
    <2>1. UNCHANGED work
      BY DEF CheckSaved
    <2>2. QED
      BY <1>7, <2>1, HandlerGoesOn DEF Inv
  <1>9. History'
    <2>1. PICK when : Lose(k, x.run, when)
      BY <1>1, <1>2 DEF CheckSaved
    <2>2. UNCHANGED <<streak, reported>>
      BY DEF CheckSaved
    <2>3. QED
      BY <1>1, <2>1, <2>2, CountsLost DEF Inv, History
  <1>10. Caches' /\ UNCHANGED work
    BY DEF Inv, CheckSaved, Caches, Orderly, Cached, repetition
  <1>11. QED
    BY <1>8, <1>9, <1>10 DEF Inv

LEMMA FillCacheStep == ASSUME Inv, NEW c \in Callers, FillCache(c) PROVE Inv'
  <1>1. PICK x \in HandlerSet : x = call[c] /\ Fits(x) /\ x.pc = "fill" /\ x.run \in Runs
    BY DEF Inv, Handlers, FillCache, Fits
  <1>2. PICK k \in KindSet : k = Kinds[x.kind]
    BY <1>1, TheKinds DEF HandlerSet
  <1>3. PICK row \in RowSet : row = x.row
    BY <1>1 DEF HandlerSet
  <1>4. Caches'
    <2>1. PICK zero \in EntrySet : zero = Zero /\ zero.seen = <<>>
      BY Entries
    <2>2. PICK value \in Values, count \in Nat :
              value = (IF k = "tool_error" THEN None ELSE row.value) /\ count = row.count
      BY DEF RowSet, Values
    <2>3. PICK entry : entry = [zero EXCEPT !.count = count, !.value = value]
      OBVIOUS
    <2>4. entry \in EntrySet /\ entry.count = count /\ entry.seen = <<>>
      BY <2>1, <2>3 DEF EntrySet
    <2>5. entry.count >= 0 /\ Len(entry.seen) <= MaxSeen
      BY <2>2, <2>4, RepetitionAssumption
    <2>6. Fill(k, x.run, row) /\ UNCHANGED saved
      BY <1>1, <1>2, <1>3 DEF FillCache
    <2>7. UNCHANGED <<cache, order>> \/ Put(k, x.run, entry)
      BY <2>1, <2>2, <2>3, <2>6 DEF Fill
    <2>8. CASE UNCHANGED <<cache, order>>
      BY <2>6, <2>8 DEF Inv, Caches, Orderly, Cached
    <2>9. CASE Put(k, x.run, entry)
      BY <1>1, <2>4, <2>5, <2>6, <2>9, PutKeeps DEF Inv
    <2>10. QED
      BY <2>7, <2>8, <2>9
  <1>5. Handlers'
    <2>1. PICK y \in HandlerSet : /\ y = Decide(x, x.row.count) /\ SameAnswer(x, y)
                                  /\ y.pc \in {"blocked", "check", "policy"}
      BY <1>1, Decided
    <2>2. PICK new : new = [y EXCEPT !.row = NoRow, !.due = FALSE]
      OBVIOUS
    <2>3. new \in HandlerSet /\ SameAnswer(x, new) /\ new.pc = y.pc
      BY <2>1, <2>2, Defaults DEF HandlerSet, SameAnswer
    <2>4. Fits(new)
      BY <1>1, <2>1, <2>3, Moved
    <2>5. Becomes(c, new) /\ UNCHANGED work
      BY <1>1, <2>1, <2>2 DEF FillCache
    <2>6. QED
      BY <2>4, <2>5, HandlerGoesOn DEF Inv
  <1>6. History'
    <2>1. PICK when : Lose(k, x.run, when)
      BY <1>1, <1>2 DEF FillCache
    <2>2. UNCHANGED <<streak, reported>>
      BY DEF FillCache
    <2>3. QED
      BY <1>1, <2>1, <2>2, CountsLost DEF Inv, History
  <1>7. UNCHANGED work
    BY DEF FillCache
  <1>8. QED
    BY <1>4, <1>5, <1>6, <1>7 DEF Inv

LEMMA CachesStay == ASSUME Caches, UNCHANGED repetition PROVE Caches'
  <1>1. UNCHANGED <<cache, order, saved>>
    BY DEF repetition
  <1>2. QED
    BY <1>1 DEF Caches, Orderly, Cached

LEMMA NothingCounted ==
  ASSUME Caches, History, UNCHANGED <<repetition, streak, reported, lost>>
  PROVE  Caches' /\ History'
  BY CachesStay DEF History

\* A step of one handler, and of nothing else.
LEMMA QuietStep ==
  ASSUME Inv, NEW c \in Callers, NEW new, Fits(new), Becomes(c, new),
         UNCHANGED <<work, repetition, streak, reported, lost>>
  PROVE  Inv'
  <1>1. Handlers'
    BY HandlerGoesOn DEF Inv
  <1>2. QED
    BY <1>1, NothingCounted DEF Inv

LEMMA AdmitStep == ASSUME Inv, NEW c \in Callers, Admit(c) PROVE Inv'
  <1>1. PICK x \in HandlerSet : x = call[c] /\ Fits(x) /\ x.pc = "policy"
    BY DEF Inv, Handlers, Admit, Fits
  <1>2. PICK ask : ask = [x EXCEPT !.pc = "ask", !.request = NoRequest]
    OBVIOUS
  <1>3. PICK blocked : blocked = [x EXCEPT !.pc = "blocked"]
    OBVIOUS
  <1>4. Fits(ask)
    <2>1. /\ ask \in HandlerSet /\ ask.pc = "ask" /\ ask.run = x.run /\ ask.request = NoRequest
          /\ ask.stream = x.stream /\ ask.told = x.told /\ ask.result = x.result
          /\ ask.todo = x.todo /\ ask.late = x.late
      BY <1>1, <1>2, Defaults DEF HandlerSet
    <2>2. QED
      BY <1>1, <2>1, NoRequestFits DEF Fits
  <1>5. Fits(blocked)
    <2>1. blocked \in HandlerSet /\ blocked.pc = "blocked" /\ SameAnswer(x, blocked)
      BY <1>1, <1>3 DEF HandlerSet, SameAnswer
    <2>2. QED
      BY <1>1, <2>1, Moved
  <1>6. Becomes(c, ask) \/ Becomes(c, blocked)
    BY <1>1, <1>2, <1>3 DEF Admit
  <1>7. QED
    BY <1>4, <1>5, <1>6, QuietStep DEF Admit

LEMMA BlockStep == ASSUME Inv, NEW c \in Callers, Block(c) PROVE Inv'
  BY IdleFits, QuietStep DEF Block

LEMMA ReturnStep == ASSUME Inv, NEW c \in Callers, Return(c) PROVE Inv'
  BY IdleFits, QuietStep DEF Return

LEMMA OpenStep == ASSUME Inv, NEW c \in Callers, Open(c) PROVE Inv'
  <1>1. PICK x \in HandlerSet : x = call[c] /\ Fits(x) /\ x.pc = "ask"
    BY DEF Inv, Handlers, Open, Fits
  <1>2. PICK new : new = [x EXCEPT !.pc = "stream"]
    OBVIOUS
  <1>3. new \in HandlerSet /\ new.pc = "stream" /\ SameAnswer(x, new)
    BY <1>1, <1>2 DEF HandlerSet, SameAnswer
  <1>4. StreamOK(NewStream)
    <2>1. /\ NewStream.status = "open" /\ NewStream.calls = NewStream.made
          /\ NewStream.block = NoBlock /\ NewStream.prints = <<>>
          /\ \A i \in Indices : NewStream.made[i] = NoCall
      BY DEF NewStream
    <2>2. BlocksWhole(NewStream)
      BY <2>1 DEF BlocksWhole, Arrived
    <2>3. BlocksCounted(NewStream)
      <3>1. Len(NewStream.prints) = 0 /\ 0 <= MaxCalls
        BY <2>1, MaxCallsAssumption
      <3>2. \A i \in Indices : ~(i < 0)
        BY Calls
      <3>3. QED
        BY <2>1, <3>1, <3>2 DEF BlocksCounted
    <2>4. QED
      BY <2>1, <2>2, <2>3 DEF StreamOK
  <1>5. Fits(new)
    BY <1>1, <1>3, <1>4 DEF Fits, SameAnswer, Open
  <1>6. Becomes(c, new)
    BY <1>1, <1>2 DEF Open
  <1>7. QED
    BY <1>5, <1>6, QuietStep DEF Open

\* A step that ends the answer.
LEMMA ConcludeStep ==
  ASSUME Inv, NEW c \in Callers, call[c].pc \in {"ask", "stream"},
         NEW told \in {"reply", "done", "refuted", "error", "cut"}, NEW result \in ResultSet,
         ResultFits(told, result), Conclude(c, told, result),
         UNCHANGED <<work, repetition, streak, reported, lost>>
  PROVE  Inv'
  <1>1. Handlers'
    BY HandlerConcludes DEF Inv
  <1>2. QED
    BY <1>1, NothingCounted DEF Inv

LEMMA CancelledFits ==
  ASSUME NEW told \in {"nothing", "error", "cut"}
  PROVE  Cancelled \in ResultSet /\ ResultFits(told, Cancelled)
  <1>1. PICK none \in ResultSet : none = NoResult /\ none.prints = <<>> /\ ~none.custom
    BY Defaults DEF NoResult
  <1>2. PICK fault \in Codes \cup {None} : fault = <<"cancelled">>
    BY DEF Codes
  <1>3. PICK result : result = [none EXCEPT !.status = "client_cancelled", !.fault = fault]
    OBVIOUS
  <1>4. /\ result \in ResultSet /\ result.status = "client_cancelled" /\ result.prints = <<>>
        /\ ~result.custom
    BY <1>1, <1>3 DEF ResultSet
  <1>5. Cancelled = result
    BY <1>1, <1>2, <1>3 DEF Cancelled
  <1>6. ResultFits(told, result)
    BY <1>4 DEF ResultFits
  <1>7. QED
    BY <1>4, <1>5, <1>6

LEMMA FailedFits ==
  ASSUME NEW status \in {"provider_error", "transport_error"}, NEW code \in Codes, NEW fault \in Codes,
         NEW told \in {"error", "cut"}, FailureFair(told, status, code, fault)
  PROVE  Failed(status, code, fault) \in ResultSet /\ ResultFits(told, Failed(status, code, fault))
  <1>1. PICK result : result = Failed(status, code, fault)
    OBVIOUS
  <1>2. result = [NoResult EXCEPT !.status = status, !.code = code, !.fault = fault]
    BY <1>1 DEF Failed
  <1>3. PICK none \in ResultSet : none = NoResult /\ none.prints = <<>> /\ ~none.custom
    BY Defaults DEF NoResult
  <1>4. result = [none EXCEPT !.status = status, !.code = code, !.fault = fault]
    BY <1>2, <1>3
  <1>5. result \in ResultSet
    BY <1>4 DEF ResultSet
  <1>6. /\ result.status = status /\ result.code = code /\ result.fault = fault
        /\ result.prints = <<>> /\ ~result.custom
    BY <1>3, <1>4 DEF ResultSet
  <1>7. ResultFits(told, result)
    BY <1>6 DEF ResultFits, Confused, FailureFair
  <1>8. QED
    BY <1>1, <1>5, <1>7

LEMMA TheCodes ==
  /\ {<<"transport">>, <<"stream">>, <<"response">>, <<"cancelled">>, <<"http", "any">>} \subseteq Codes
  /\ \A n \in HttpErrors : <<"http", n>> \in Codes /\ <<"http", n>> # <<"cancelled">>
  /\ <<"transport">> # <<"cancelled">> /\ <<"stream">> # <<"cancelled">>
  /\ <<"response">> # <<"cancelled">> /\ <<"http", "any">> # <<"cancelled">>
  BY DEF Codes

LEMMA NoAnswerStep == ASSUME Inv, NEW c \in Callers, NoAnswer(c) PROVE Inv'
  <1>1. call[c].pc \in {"ask", "stream"} /\ UNCHANGED <<work, repetition, streak, reported, lost>>
    BY DEF NoAnswer
  <1>2. CASE Conclude(c, "error", Failed("transport_error", <<"transport">>, <<"transport">>))
    <2>1. FailureFair("error", "transport_error", <<"transport">>, <<"transport">>)
      BY TheCodes DEF FailureFair
    <2>2. <<"transport">> \in Codes
      BY TheCodes
    <2>3. PICK result \in ResultSet : /\ result = Failed("transport_error", <<"transport">>, <<"transport">>)
                                      /\ ResultFits("error", result)
      BY <2>1, <2>2, FailedFits
    <2>4. QED
      BY <1>1, <1>2, <2>3, ConcludeStep
  <1>3. CASE Conclude(c, "cut", CancelledEarly)
    <2>1. PICK result \in ResultSet : result = CancelledEarly /\ ResultFits("cut", result)
      <3>1. CASE Route = "messages"
        <4>1. <<"transport">> # <<"cancelled">> /\ <<"transport">> \in Codes /\ <<"cancelled">> \in Codes
          BY TheCodes
        <4>2. FailureFair("cut", "transport_error", <<"transport">>, <<"cancelled">>)
          BY <3>1, <4>1 DEF FailureFair
        <4>3. CancelledEarly = Failed("transport_error", <<"transport">>, <<"cancelled">>)
          BY <3>1 DEF CancelledEarly
        <4>4. QED
          BY <4>1, <4>2, <4>3, FailedFits
      <3>2. CASE Route # "messages"
        <4>1. CancelledEarly = Cancelled
          BY <3>2 DEF CancelledEarly
        <4>2. QED
          BY <4>1, CancelledFits
      <3>3. QED
        BY <3>1, <3>2
    <2>2. QED
      BY <1>1, <1>3, <2>1, ConcludeStep
  <1>4. ASSUME NEW n \in HttpErrors,
               Conclude(c, "error", Failed("provider_error", HttpCode(n), <<"http", n>>))
        PROVE  Inv'
    <2>1. PICK code \in Codes : code = HttpCode(n) /\ code # <<"cancelled">>
               /\ (Route # "messages" => code = <<"http", n>>)
      BY TheCodes DEF HttpCode
    <2>2. PICK fault \in Codes : fault = <<"http", n>>
      BY TheCodes
    <2>3. FailureFair("error", "provider_error", code, fault)
      BY <2>1, <2>2 DEF FailureFair
    <2>4. PICK result \in ResultSet : /\ result = Failed("provider_error", code, fault)
                                      /\ ResultFits("error", result)
      BY <2>3, FailedFits
    <2>5. QED
      BY <1>1, <1>4, <2>1, <2>2, <2>4, ConcludeStep
  <1>5. QED
    BY <1>2, <1>3, <1>4 DEF NoAnswer

LEMMA CutStep == ASSUME Inv, NEW c \in Callers, Cut(c) PROVE Inv'
  <1>1. call[c].pc \in {"ask", "stream"} /\ UNCHANGED <<work, repetition, streak, reported, lost>>
    BY DEF Cut
  <1>2. PICK status \in {"provider_error", "transport_error"} :
            status = IF Route = "translated" THEN "provider_error" ELSE "transport_error"
    OBVIOUS
  <1>3. Conclude(c, ErrorEvent, Failed(status, <<"stream">>, <<"stream">>))
    BY <1>2 DEF Cut
  <1>4. work.streams
    BY DEF Inv, Handlers, Fits, Cut
  <1>5. PICK told \in {"error", "cut"} : told = ErrorEvent /\ (Route # "messages" => told = "error")
    BY DEF ErrorEvent
  <1>6. <<"stream">> # <<"cancelled">> /\ <<"stream">> \in Codes
    BY TheCodes
  <1>7. FailureFair(told, status, <<"stream">>, <<"stream">>)
    BY <1>4, <1>5, <1>6 DEF FailureFair
  <1>8. PICK result \in ResultSet : /\ result = Failed(status, <<"stream">>, <<"stream">>)
                                    /\ ResultFits(told, result)
    BY <1>6, <1>7, FailedFits
  <1>9. QED
    BY <1>1, <1>3, <1>5, <1>8, ConcludeStep

LEMMA CutShortFits ==
  ASSUME work.streams, NEW result \in CutShort
  PROVE  result \in ResultSet /\ ResultFits("cut", result)
  <1>1. CASE result = Cancelled
    BY <1>1, CancelledFits
  <1>2. CASE result = Failed("transport_error", <<"stream">>, <<"cancelled">>)
    <2>1. <<"stream">> \in Codes /\ <<"cancelled">> \in Codes
      BY TheCodes
    <2>2. FailureFair("cut", "transport_error", <<"stream">>, <<"cancelled">>)
      BY DEF FailureFair
    <2>3. QED
      BY <1>2, <2>1, <2>2, FailedFits
  <1>3. QED
    BY <1>1, <1>2 DEF CutShort

LEMMA LeaveStep == ASSUME Inv, NEW c \in Callers, Leave(c) PROVE Inv'
  <1>1. PICK result \in CutShort :
            /\ call[c].pc \in {"ask", "stream"} /\ UNCHANGED <<work, repetition, streak, reported, lost>>
            /\ Conclude(c, "cut", result)
    BY DEF Leave
  <1>2. work.streams
    BY DEF Inv, Handlers, Fits, Leave
  <1>3. result \in ResultSet /\ ResultFits("cut", result)
    BY <1>2, CutShortFits
  <1>4. QED
    BY <1>1, <1>3, ConcludeStep

LEMMA ReplyCalls ==
  ASSUME NEW calls \in Replies
  PROVE  /\ calls \in Seq(CallSet) /\ Len(calls) <= 1 /\ DOMAIN calls = 1..Len(calls)
         /\ \A n \in 1..Len(calls) : calls[n].named
  <1>1. CASE calls = <<>>
    BY <1>1
  <1>2. CASE calls # <<>>
    <2>1. PICK args \in {<<>>} \cup {<<x>> : x \in Args} : calls = <<Call(args)>>
      BY <1>2 DEF Replies
    <2>2. args \in Seq(Args \cup {Empty})
      <3>1. CASE args = <<>>
        BY <3>1
      <3>2. ASSUME NEW x \in Args, args = <<x>> PROVE args \in Seq(Args \cup {Empty})
        <4>1. x \in Args \cup {Empty}
          OBVIOUS
        <4>2. <<x>> \in Seq(Args \cup {Empty})
          BY <4>1
        <4>3. QED
          BY <3>2, <4>2
      <3>3. QED
        BY <2>1, <3>1, <3>2
    <2>3. PICK one \in CallSet : one = Call(args) /\ one.named
      BY <2>2, Calls
    <2>4. calls = <<one>>
      BY <2>1, <2>3
    <2>5. QED
      BY <2>3, <2>4
  <1>3. QED
    BY <1>1, <1>2

LEMMA WholeReplyStep == ASSUME Inv, NEW c \in Callers, WholeReply(c) PROVE Inv'
  <1>1. call[c].pc \in {"ask", "stream"} /\ UNCHANGED <<work, repetition, streak, reported, lost>>
    BY DEF WholeReply
  <1>2. CASE Conclude(c, "error", Failed("provider_error", <<"response">>, <<"response">>))
    <2>1. <<"response">> \in Codes /\ <<"response">> # <<"cancelled">>
      BY TheCodes
    <2>2. FailureFair("error", "provider_error", <<"response">>, <<"response">>)
      BY <2>1 DEF FailureFair
    <2>3. PICK result \in ResultSet : /\ result = Failed("provider_error", <<"response">>, <<"response">>)
                                      /\ ResultFits("error", result)
      BY <2>1, <2>2, FailedFits
    <2>4. QED
      BY <1>1, <1>2, <2>3, ConcludeStep
  <1>3. ASSUME NEW text \in BOOLEAN, NEW calls \in Replies, NEW custom \in {FALSE, Route = "responses"},
               NEW reply, reply = [NoResult EXCEPT !.status = "success", !.text = text,
                    !.prints = Prints(custom, calls), !.made = calls, !.custom = custom],
               Route \in {"anthropic", "translated"} => \A n \in DOMAIN calls : Whole(calls[n]),
               \/ Conclude(c, "reply", reply)
               \/ \E result \in Unread(reply) : Conclude(c, "cut", result)
        PROVE  Inv'
    <2>1. /\ calls \in Seq(CallSet) /\ Len(calls) <= 1 /\ DOMAIN calls = 1..Len(calls)
          /\ \A n \in 1..Len(calls) : calls[n].named
      BY ReplyCalls
    <2>2. PICK flag \in BOOLEAN : flag = custom /\ (flag => Route = "responses")
      OBVIOUS
    <2>3. PICK prints \in Seq(CallSet) :
              /\ prints = Prints(flag, calls) /\ Len(prints) = Len(calls)
              /\ \A n \in 1..Len(calls) : prints[n] = responsesPrint(flag, calls[n])
      <3>1. CASE Route = "responses"
        <4>1. ASSUME NEW n \in 1..Len(calls) PROVE responsesPrint(flag, calls[n]) \in CallSet
          <5>1. PICK one \in CallSet : one = calls[n]
            BY <2>1
          <5>2. <<>> \in Seq(Args \cup {Empty})
            OBVIOUS
          <5>3. [one EXCEPT !.args = <<>>] \in CallSet
            BY <5>2 DEF CallSet
          <5>4. QED
            BY <5>1, <5>3 DEF responsesPrint
        <4>2. Prints(flag, calls) = [n \in 1..Len(calls) |-> responsesPrint(flag, calls[n])]
          BY <2>1, <3>1 DEF Prints, inspectResponsesPayload
        <4>3. Prints(flag, calls) \in [1..Len(calls) -> CallSet] /\ Len(calls) \in Nat
          BY <2>1, <4>1, <4>2
        <4>4. QED
          BY <4>2, <4>3, FunctionIsSequence
      <3>2. CASE Route # "responses"
        <4>1. Prints(flag, calls) = calls /\ ~flag
          BY <2>2, <3>2 DEF Prints
        <4>2. QED
          BY <2>1, <4>1 DEF responsesPrint
      <3>3. QED
        BY <3>1, <3>2
    <2>4. PICK none \in ResultSet : none = NoResult
      BY Defaults
    <2>5. PICK result : result = [none EXCEPT !.status = "success", !.text = text,
                                              !.prints = prints, !.made = calls, !.custom = flag]
      OBVIOUS
    <2>6. /\ result \in ResultSet /\ result.status = "success" /\ result.prints = prints
          /\ result.made = calls /\ result.custom = flag
      BY <2>1, <2>4, <2>5 DEF ResultSet
    <2>7. Complete(result)
      <3>1. ASSUME Route \in {"anthropic", "translated"}, NEW n \in 1..Len(calls)
            PROVE  Whole(calls[n]) /\ calls[n].named /\ calls[n].args # <<>>
        <4>1. Whole(calls[n])
          BY <1>3, <2>1, <3>1
        <4>2. calls[n].named /\ Len(calls[n].args) = 1
          BY <4>1 DEF Whole
        <4>3. calls[n].args # <<>>
          <5>1. PICK one \in CallSet : one = calls[n]
            BY <2>1
          <5>2. PICK args \in Seq(Args \cup {Empty}) : args = one.args
            BY Calls
          <5>3. Len(args) = 1
            BY <4>2, <5>1, <5>2
          <5>4. args # <<>>
            <6>1. Len(<<>>) # 1
              OBVIOUS
            <6>2. QED
              BY <5>3, <6>1
          <5>5. QED
            BY <5>1, <5>2, <5>4
        <4>4. QED
          BY <4>1, <4>2, <4>3
      <3>2. QED
        BY <2>6, <3>1 DEF Complete
    <2>8. PrintsOK(result)
      BY <2>3, <2>6 DEF PrintsOK
    <2>9. ResultFits("reply", result) /\ ResultFits("cut", result)
      BY <2>1, <2>2, <2>6, <2>7, <2>8 DEF ResultFits
    <2>10. reply = result
      BY <1>3, <2>2, <2>3, <2>4, <2>5
    <2>11. CASE Conclude(c, "reply", result) \/ Conclude(c, "cut", result)
      BY <1>1, <2>6, <2>9, <2>11, ConcludeStep
    <2>12. CASE /\ Route = "anthropic"
                /\ Conclude(c, "cut", [result EXCEPT !.status = "provider_error", !.code = <<"response">>,
                                                     !.fault = <<"cancelled">>])
      <3>1. PICK code \in Codes, fault \in Codes : code = <<"response">> /\ fault = <<"cancelled">>
        BY TheCodes
      <3>2. PICK gone : gone = [result EXCEPT !.status = "provider_error", !.code = code, !.fault = fault]
        OBVIOUS
      <3>3. /\ gone \in ResultSet /\ gone.status = "provider_error" /\ gone.fault = fault
            /\ gone.prints = prints /\ gone.made = calls /\ gone.custom = flag
        BY <2>6, <3>2 DEF ResultSet
      <3>4. PrintsOK(gone)
        BY <2>3, <3>3 DEF PrintsOK
      <3>5. Confused(gone)
        BY <3>1, <3>3 DEF Confused
      <3>6. ResultFits("cut", gone)
        BY <2>1, <2>2, <3>1, <3>3, <3>4, <3>5 DEF ResultFits
      <3>7. Conclude(c, "cut", gone)
        BY <2>12, <3>1, <3>2
      <3>8. QED
        BY <1>1, <3>3, <3>6, <3>7, ConcludeStep
    <2>13. QED
      BY <1>3, <2>10, <2>11, <2>12 DEF Unread
  <1>4. CASE Conclude(c, "cut", Failed("provider_error", <<"response">>, <<"cancelled">>))
    <2>1. <<"response">> \in Codes /\ <<"cancelled">> \in Codes
      BY TheCodes
    <2>2. FailureFair("cut", "provider_error", <<"response">>, <<"cancelled">>)
      BY DEF FailureFair
    <2>3. PICK result \in ResultSet : /\ result = Failed("provider_error", <<"response">>, <<"cancelled">>)
                                      /\ ResultFits("cut", result)
      BY <2>1, <2>2, FailedFits
    <2>4. QED
      BY <1>1, <1>4, <2>3, ConcludeStep
  <1>5. ASSUME NEW text \in BOOLEAN, NEW calls \in Replies, NEW custom \in {FALSE, Route = "responses"},
               Route \in {"anthropic", "translated"} => \A n \in DOMAIN calls : Whole(calls[n]),
               \/ Conclude(c, "reply", [NoResult EXCEPT !.status = "success", !.text = text,
                     !.prints = Prints(custom, calls), !.made = calls, !.custom = custom])
               \/ \E result \in Unread([NoResult EXCEPT !.status = "success", !.text = text,
                     !.prints = Prints(custom, calls), !.made = calls, !.custom = custom]) :
                   Conclude(c, "cut", result)
        PROVE  Inv'
    <2>1. PICK reply : reply = [NoResult EXCEPT !.status = "success", !.text = text,
                     !.prints = Prints(custom, calls), !.made = calls, !.custom = custom]
      OBVIOUS
    <2>2. \/ Conclude(c, "reply", reply)
          \/ \E result \in Unread(reply) : Conclude(c, "cut", result)
      BY <1>5, <2>1
    <2>3. QED
      BY <1>3, <1>5, <2>1, <2>2
  <1>6. CASE \E text \in BOOLEAN : \E calls \in Replies : \E custom \in {FALSE, Route = "responses"} :
               /\ Route \in {"anthropic", "translated"} => \A n \in DOMAIN calls : Whole(calls[n])
               /\ \/ Conclude(c, "reply", [NoResult EXCEPT !.status = "success", !.text = text,
                        !.prints = Prints(custom, calls), !.made = calls, !.custom = custom])
                  \/ \E result \in Unread([NoResult EXCEPT !.status = "success", !.text = text,
                        !.prints = Prints(custom, calls), !.made = calls, !.custom = custom]) :
                      Conclude(c, "cut", result)
    BY <1>5, <1>6
  <1>7. QED
    BY <1>2, <1>4, <1>6 DEF WholeReply

LEMMA StreakChanges ==
  ASSUME streak \in [KindSet -> [Runs -> StreakSet]], NEW k \in KindSet, NEW r \in Runs,
         NEW s \in StreakSet, streak' = [streak EXCEPT ![k][r] = s]
  PROVE  streak' \in [KindSet -> [Runs -> StreakSet]]
  OBVIOUS

LEMMA RepeatFits ==
  ASSUME NEW s \in StreakSet, NEW result \in ResultSet, Len(result.prints) = Len(result.made)
  PROVE  Repeat(s, result) \in StreakSet
  <1>1. PICK r \in [0..Len(result.prints) -> StreakSet] : r[Len(result.prints)] = Repeat(s, result)
    BY SMTT(30), RepeatSteps
  <1>2. result.prints \in Seq(CallSet)
    BY DEF ResultSet
  <1>3. Len(result.prints) \in 0..Len(result.prints)
    BY <1>2
  <1>4. QED
    BY <1>1, <1>3

LEMMA ReceiveFrameStep == ASSUME Inv, NEW c \in Callers, ReceiveFrame(c) PROVE Inv'
  <1>1. call[c].pc \in {"ask", "stream"} /\ UNCHANGED <<work, repetition, reported>>
    BY DEF ReceiveFrame
  <1>2. PICK x \in HandlerSet : x = call[c] /\ Fits(x) /\ x.pc = "stream"
    BY DEF Inv, Handlers, ReceiveFrame, Fits
  <1>3. PICK s \in StreamSet : s = x.stream /\ work.streams /\ StreamOK(s)
    BY <1>2 DEF Fits, HandlerSet
  <1>a. PICK f \in Frames(s) : \E t \in {Sent(Inspect(s, f), f)} :
               \/ /\ \/ t.status = "open" /\ Becomes(c, [call[c] EXCEPT !.stream = t])
                     \/ t.status = "success" /\ Conclude(c, "done", Outcome(t, f))
                     \/ t.status \notin {"open", "success"} /\ Conclude(c, ErrorEvent, Outcome(t, f))
                     \/ \E result \in Unwritten(t, f) : Conclude(c, "cut", result)
                  /\ UNCHANGED <<streak, lost>>
               \/ Refuted(t, f) /\ Refute(c, t, f)
    BY <1>2, <1>3 DEF ReceiveFrame
  <1>4. PICK t : /\ t = Sent(Inspect(s, f), f)
                 /\ \/ /\ \/ t.status = "open" /\ Becomes(c, [call[c] EXCEPT !.stream = t])
                          \/ t.status = "success" /\ Conclude(c, "done", Outcome(t, f))
                          \/ t.status \notin {"open", "success"} /\ Conclude(c, ErrorEvent, Outcome(t, f))
                          \/ \E result \in Unwritten(t, f) : Conclude(c, "cut", result)
                       /\ UNCHANGED <<streak, lost>>
                    \/ Refuted(t, f) /\ Refute(c, t, f)
    BY <1>a
  <1>5. /\ t \in StreamSet
        /\ t.status = "open" => StreamOK(t)
        /\ f.kind = "completedCustom" => Route = "responses" /\ t.status = "success"
        /\ t.status = "success" => /\ PrintsOK(Outcome(t, f)) /\ Complete(Outcome(t, f))
                                   /\ f.kind = "completedCustom" => Len(Outcome(t, f).made) <= 1
        /\ Refuted(t, f) => t.status = "provider_error" /\ t.prints = Arrivals(t.made)
    BY <1>3, <1>4, StreamStep DEF Inv
  <1>6. PICK ending : ending = Outcome(t, f)
    OBVIOUS
  <1>7. t.status # "open" =>
            /\ ending \in ResultSet /\ ending.status = t.status
            /\ ending.custom = (f.kind = "completedCustom") /\ ending.made = Arrivals(t.made)
            /\ ending.prints = IF t.status = "success" THEN t.prints ELSE <<>>
            /\ t.status # "success" => ending.fault = ending.code /\ ending.code # <<"cancelled">>
    BY <1>5, <1>6, OutcomeFields
  <1>8. CASE /\ t.status = "open" /\ Becomes(c, [call[c] EXCEPT !.stream = t])
             /\ UNCHANGED <<streak, lost>>
    <2>1. PICK new : new = [x EXCEPT !.stream = t]
      OBVIOUS
    <2>2. /\ new \in HandlerSet /\ new.pc = x.pc /\ new.run = x.run /\ new.request = x.request
          /\ new.stream = t /\ new.told = x.told /\ new.result = x.result
          /\ new.todo = x.todo /\ new.late = x.late
      BY <1>2, <1>5, <2>1 DEF HandlerSet
    <2>3. Fits(new)
      BY <1>2, <1>3, <1>5, <1>8, <2>2 DEF Fits
    <2>4. QED
      BY <1>1, <1>2, <1>8, <2>1, <2>3, QuietStep
  <1>9. CASE t.status = "success" /\ Conclude(c, "done", ending) /\ UNCHANGED <<streak, lost>>
    <2>1. ending \in ResultSet /\ ResultFits("done", ending)
      BY <1>5, <1>6, <1>7, <1>9 DEF ResultFits
    <2>2. QED
      BY <1>1, <1>9, <2>1, ConcludeStep
  <1>10. CASE /\ t.status \notin {"open", "success"} /\ Conclude(c, ErrorEvent, ending)
              /\ UNCHANGED <<streak, lost>>
    <2>1. PICK told \in {"error", "cut"} : told = ErrorEvent /\ (Route # "messages" => told = "error")
      BY DEF ErrorEvent
    <2>2. /\ ending \in ResultSet /\ ending.status # "success" /\ ending.prints = <<>>
          /\ ~ending.custom /\ ending.fault = ending.code /\ ending.code # <<"cancelled">>
      BY <1>5, <1>7, <1>10
    <2>3. ResultFits(told, ending)
      BY <1>3, <2>1, <2>2 DEF ResultFits
    <2>4. QED
      BY <1>1, <1>10, <2>1, <2>2, <2>3, ConcludeStep
  <1>11. ASSUME NEW result \in Unwritten(t, f), Conclude(c, "cut", result), UNCHANGED <<streak, lost>>
         PROVE  Inv'
    <2>1. CASE result = Cancelled
      BY <1>1, <1>11, <2>1, CancelledFits, ConcludeStep
    <2>2. CASE Route = "translated" /\ result = Failed("provider_error", <<"stream">>, <<"cancelled">>)
      <3>1. <<"stream">> \in Codes /\ <<"cancelled">> \in Codes
        BY TheCodes
      <3>2. FailureFair("cut", "provider_error", <<"stream">>, <<"cancelled">>)
        BY <2>2 DEF FailureFair
      <3>3. result \in ResultSet /\ ResultFits("cut", result)
        BY <2>2, <3>1, <3>2, FailedFits
      <3>4. QED
        BY <1>1, <1>11, <3>3, ConcludeStep
    <2>3. CASE t.status = "success"
               /\ result = [ending EXCEPT !.status = "client_cancelled", !.fault = <<"cancelled">>]
      <3>1. PICK fault \in Codes \cup {None} : fault = <<"cancelled">>
        BY TheCodes
      <3>2. result = [ending EXCEPT !.status = "client_cancelled", !.fault = fault]
        BY <2>3, <3>1
      <3>3. ending \in ResultSet /\ ending.custom = (f.kind = "completedCustom")
        BY <1>7, <2>3
      <3>4. /\ result \in ResultSet /\ result.status = "client_cancelled"
            /\ result.prints = ending.prints /\ result.made = ending.made
            /\ result.custom = ending.custom
        BY <3>2, <3>3 DEF ResultSet
      <3>5. PrintsOK(result)
        <4>1. PrintsOK(ending)
          BY <1>5, <1>6, <2>3
        <4>2. QED
          BY <3>4, <4>1 DEF PrintsOK
      <3>6. result.custom => Route = "responses" /\ Len(result.made) <= 1
        BY <1>5, <1>6, <2>3, <3>3, <3>4
      <3>7. ResultFits("cut", result)
        BY <3>4, <3>5, <3>6 DEF ResultFits
      <3>8. QED
        BY <1>1, <1>11, <3>4, <3>7, ConcludeStep
    <2>4. QED
      BY <1>6, <1>11, <2>1, <2>2, <2>3 DEF Unwritten
  <1>12. CASE Refuted(t, f) /\ Refute(c, t, f)
    <2>1. /\ t.status = "provider_error" /\ ending \in ResultSet /\ ending.status = "provider_error"
          /\ ending.prints = <<>> /\ ~ending.custom /\ ending.made = t.prints
          /\ ending.fault = ending.code /\ ending.code # <<"cancelled">>
      BY <1>5, <1>7, <1>12
    <2>2. ResultFits("refuted", ending)
      BY <2>1 DEF ResultFits
    <2>3. Conclude(c, "refuted", ending)
      BY <1>6, <1>12 DEF Refute
    <2>4. Handlers'
      BY <1>1, <2>1, <2>2, <2>3, HandlerConcludes DEF Inv
    <2>5. Caches'
      BY <1>1, CachesStay DEF Inv
    <2>6. x.run \in Runs /\ "tool_call" \in KindSet
      BY <1>2, TheKinds DEF Fits
    <2>7. History'
      <3>1. CASE UNCHANGED <<streak, lost>>
        BY <1>1, <3>1 DEF Inv, History
      <3>2. CASE /\ streak' = [streak EXCEPT !["tool_call"][x.run] =
                                  Repeat(@, [ending EXCEPT !.prints = t.prints])]
                 /\ Lose("tool_call", x.run, TRUE)
        <4>1. PICK z \in StreakSet : z = streak["tool_call"][x.run]
          BY <2>6 DEF Inv, History
        <4>2. t.prints \in Seq(CallSet)
          BY <1>5 DEF StreamSet
        <4>3. PICK full : full = [ending EXCEPT !.prints = t.prints]
          OBVIOUS
        <4>4. full \in ResultSet /\ full.prints = t.prints /\ full.made = t.prints
          BY <2>1, <4>2, <4>3 DEF ResultSet
        <4>5. Repeat(z, full) \in StreakSet
          BY <4>1, <4>4, RepeatFits
        <4>6. streak \in [KindSet -> [Runs -> StreakSet]]
          BY DEF Inv, History
        <4>7. streak' = [streak EXCEPT !["tool_call"][x.run] = Repeat(z, full)]
          BY <2>6, <3>2, <4>1, <4>3, <4>6
        <4>8. streak' \in [KindSet -> [Runs -> StreakSet]]
          BY <2>6, <4>5, <4>6, <4>7, StreakChanges
        <4>9. QED
          BY <1>1, <2>6, <3>2, <4>8, CountsLost DEF Inv, History
      <3>3. QED
        BY <1>2, <1>6, <1>12, <3>1, <3>2 DEF Refute
    <2>8. QED
      BY <1>1, <2>4, <2>5, <2>7 DEF Inv
  <1>13. QED
    BY <1>4, <1>6, <1>8, <1>9, <1>10, <1>11, <1>12


-----------------------------------------------------------------------------
\* What is recorded.

\* A handler that has a count to save.
LEMMA ReadyToSave ==
  ASSUME NEW x \in HandlerSet, Fits(x), x.pc = "record", x.todo # <<>>, NEW row \in RowSet,
         NEW new, new = [x EXCEPT !.pc = "save", !.pending = row]
  PROVE  Fits(new)
  <1>1. /\ new \in HandlerSet /\ new.pc = "save" /\ new.pending = row /\ SameAnswer(x, new)
    BY DEF HandlerSet, SameAnswer
  <1>2. QED
    BY <1>1 DEF Fits, SameAnswer

LEMMA RecordCallsStep == ASSUME Inv, NEW c \in Callers, RecordCalls(c) PROVE Inv'
  <1>1. PICK x \in HandlerSet : /\ x = call[c] /\ Fits(x) /\ x.pc = "record" /\ x.todo # <<>>
                                /\ Head(x.todo) = "tool_call" /\ x.run \in Runs
    BY DEF Inv, Handlers, RecordCalls, Fits
  <1>2. PICK result \in ResultSet : result = x.result /\ TodoFits(x.todo, result)
                                    /\ ResultFits(x.told, result)
    BY <1>1 DEF Fits, HandlerSet
  <1>3. "tool_call" \in KindSet
    BY TheKinds
  <1>4. result.prints # <<>>
    <2>1. PICK todo \in Seq(KindSet) : todo = x.todo /\ todo # <<>>
      BY <1>1 DEF HandlerSet
    <2>2. 1 \in 1..Len(todo) /\ todo[1] = "tool_call"
      BY <1>1, <2>1
    <2>3. QED
      BY <1>2, <2>1, <2>2 DEF TodoFits
  <1>5. Len(result.prints) = Len(result.made)
    BY <1>2, <1>4 DEF ResultFits, PrintsOK
  <1>6. PICK old \in ActiveSet : old = EntryOf("tool_call", x.run) /\ Len(old.seen) <= MaxSeen
    BY <1>1, <1>3, EntryActive DEF Inv
  <1>7. PICK prints \in Seq(CallSet) : prints = result.prints
    BY <1>2 DEF ResultSet
  <1>8. PICK entry \in ActiveSet : entry = RecordToolCalls(old, prints) /\ Len(entry.seen) <= MaxSeen
    BY <1>6, CallsCounted
  <1>9. entry \in EntrySet /\ entry.count >= 0 /\ Row(entry) \in RowSet
    BY <1>8, ActiveFits
  <1>10. /\ Put("tool_call", x.run, entry) /\ UNCHANGED <<work, saved, reported>>
         /\ Recorded(c, "tool_call", x.run, [x EXCEPT !.pc = "save", !.pending = Row(entry)])
         /\ streak' = [streak EXCEPT !["tool_call"][x.run] = Repeat(streak["tool_call"][x.run], result)]
         /\ \E when : Lose("tool_call", x.run, when)
    BY <1>1, <1>2, <1>6, <1>7, <1>8 DEF RecordCalls
  <1>11. Caches'
    BY <1>1, <1>3, <1>8, <1>9, <1>10, PutKeeps DEF Inv
  <1>12. Handlers'
    <2>1. PICK new : new = [x EXCEPT !.pc = "save", !.pending = Row(entry)]
      OBVIOUS
    <2>2. Fits(new)
      BY <1>1, <1>9, <2>1, ReadyToSave
    <2>3. QED
      BY <1>10, <2>1, <2>2, HandlerRecords DEF Inv
  <1>13. History'
    <2>1. PICK s \in StreakSet : s = streak["tool_call"][x.run]
      BY <1>1, <1>3 DEF Inv, History
    <2>2. Repeat(s, result) \in StreakSet
      BY <1>5, <2>1, RepeatFits
    <2>3. streak' \in [KindSet -> [Runs -> StreakSet]]
      BY <1>1, <1>3, <1>10, <2>1, <2>2, StreakChanges DEF Inv, History
    <2>4. QED
      BY <1>1, <1>3, <1>10, <2>3, CountsLost DEF Inv, History
  <1>14. QED
    BY <1>10, <1>11, <1>12, <1>13 DEF Inv

LEMMA RecordOutcomeStep == ASSUME Inv, NEW c \in Callers, RecordOutcome(c) PROVE Inv'
  <1>1. PICK x \in HandlerSet : /\ x = call[c] /\ Fits(x) /\ x.pc = "record" /\ x.todo # <<>>
                                /\ x.run \in Runs
    BY DEF Inv, Handlers, RecordOutcome, Fits
  <1>2. PICK result \in ResultSet : result = x.result
    BY <1>1 DEF HandlerSet
  <1>3. "provider_error" \in KindSet
    BY TheKinds
  <1>4. PICK old \in ActiveSet : old = EntryOf("provider_error", x.run) /\ Len(old.seen) <= MaxSeen
    BY <1>1, <1>3, EntryActive DEF Inv
  <1>5. PICK code \in Values, fault \in Values : code = result.code /\ fault = result.fault
    BY <1>2 DEF ResultSet, Values
  <1>6. PICK entry \in ActiveSet : /\ entry = RecordProviderOutcome(old, result.status, code)
                                   /\ Len(entry.seen) <= MaxSeen
    <2>1. CASE result.status = "success"
      <3>1. PICK zero \in EntrySet : zero = Zero /\ zero.count = 0 /\ zero.seen = <<>> /\ zero.value = None
        BY Entries
      <3>2. zero \in ActiveSet /\ Len(zero.seen) <= MaxSeen
        BY <3>1, RepetitionAssumption DEF EntrySet, ActiveSet
      <3>3. QED
        BY <2>1, <3>1, <3>2 DEF RecordProviderOutcome
    <2>2. CASE result.status # "success"
      BY <1>4, <1>5, <2>2, CountFits DEF RecordProviderOutcome
    <2>3. QED
      BY <2>1, <2>2
  <1>7. entry \in EntrySet /\ entry.count >= 0 /\ Row(entry) \in RowSet
    BY <1>6, ActiveFits
  <1>8. PICK s \in StreakSet : s = streak["provider_error"][x.run]
    BY <1>1, <1>3 DEF Inv, History
  <1>9. PICK more \in StreakSet :
            more = IF result.status = "success" THEN NoStreak
                   ELSE IF result.fault = <<"cancelled">> THEN s ELSE Extend(s, result.fault, result.code)
    <2>1. NoStreak \in StreakSet
      BY DEF NoStreak, StreakSet, Truths, Values
    <2>2. Extend(s, result.fault, result.code) \in StreakSet
      <3>1. fault \in Truths
        BY <1>5 DEF Truths
      <3>2. QED
        BY <1>5, <1>8, <3>1, ExtendFits
    <2>3. QED
      BY <1>8, <2>1, <2>2
  <1>10. /\ Put("provider_error", x.run, entry) /\ UNCHANGED <<work, saved, reported>>
         /\ Recorded(c, "provider_error", x.run, [x EXCEPT !.pc = "save", !.pending = Row(entry)])
         /\ streak' = [streak EXCEPT !["provider_error"][x.run] = more]
         /\ \E when : Lose("provider_error", x.run, when)
    BY <1>1, <1>2, <1>3, <1>4, <1>5, <1>6, <1>8, <1>9 DEF RecordOutcome, Inv, History
  <1>11. Caches'
    BY <1>1, <1>3, <1>6, <1>7, <1>10, PutKeeps DEF Inv
  <1>12. Handlers'
    <2>1. PICK new : new = [x EXCEPT !.pc = "save", !.pending = Row(entry)]
      OBVIOUS
    <2>2. Fits(new)
      BY <1>1, <1>7, <2>1, ReadyToSave
    <2>3. QED
      BY <1>10, <2>1, <2>2, HandlerRecords DEF Inv
  <1>13. History'
    <2>1. streak' \in [KindSet -> [Runs -> StreakSet]]
      BY <1>1, <1>3, <1>9, <1>10, StreakChanges DEF Inv, History
    <2>2. QED
      BY <1>1, <1>3, <1>10, <2>1, CountsLost DEF Inv, History
  <1>14. QED
    BY <1>10, <1>11, <1>12, <1>13 DEF Inv

\* The work that is left.
LEMMA WorkDone ==
  ASSUME work \in WorkSet,
         \/ work.results > 0 /\ work' = [work EXCEPT !.results = @ - 1]
         \/ work.stops > 0 /\ work' = [work EXCEPT !.stops = @ - 1]
         \/ work.prunes > 0 /\ work' = [work EXCEPT !.prunes = @ - 1]
  PROVE  work' \in WorkSet /\ work'.route = work.route /\ work'.streams = work.streams
  <1>1. CASE work.results > 0 /\ work' = [work EXCEPT !.results = @ - 1]
    <2>1. PICK n \in Nat : n = work.results - 1
      BY <1>1 DEF WorkSet
    <2>2. work' = [work EXCEPT !.results = n]
      BY <1>1, <2>1 DEF WorkSet
    <2>3. QED
      BY <2>1, <2>2 DEF WorkSet
  <1>2. CASE work.stops > 0 /\ work' = [work EXCEPT !.stops = @ - 1]
    <2>1. PICK n \in Nat : n = work.stops - 1
      BY <1>2 DEF WorkSet
    <2>2. work' = [work EXCEPT !.stops = n]
      BY <1>2, <2>1 DEF WorkSet
    <2>3. QED
      BY <2>1, <2>2 DEF WorkSet
  <1>3. CASE work.prunes > 0 /\ work' = [work EXCEPT !.prunes = @ - 1]
    <2>1. PICK n \in Nat : n = work.prunes - 1
      BY <1>3 DEF WorkSet
    <2>2. work' = [work EXCEPT !.prunes = n]
      BY <1>3, <2>1 DEF WorkSet
    <2>3. QED
      BY <2>1, <2>2 DEF WorkSet
  <1>4. QED
    BY <1>1, <1>2, <1>3

LEMMA ReportResultStep == ASSUME Inv, NEW c \in Callers, ReportResult(c) PROVE Inv'
  <1>0. PICK r \in work.runs, id \in ResultIds, result \in ToolErrors \cup {"success"} :
            LET before == EntryOf("tool_error", r)
                after == RecordToolResult(before, id, result)
            IN  /\ Put("tool_error", r, after)
                /\ IF Contains(before.seen, id) THEN UNCHANGED call
                   ELSE Recorded(c, "tool_error", r,
                            [Idle EXCEPT !.pc = "save", !.run = r, !.todo = <<"tool_error">>,
                                         !.pending = Row(after)])
                /\ streak' = [streak EXCEPT !["tool_error"][r] =
                       IF <<r, id>> \in reported THEN @ ELSE IF result = "success" THEN NoStreak
                       ELSE Extend(@, result, result)]
                /\ \E when : Lose("tool_error", r, when)
                /\ reported' = reported \cup {<<r, id>>}
    BY DEF ReportResult
  <1>1. PICK old, entry :
            /\ old = EntryOf("tool_error", r) /\ entry = RecordToolResult(old, id, result)
            /\ Put("tool_error", r, entry)
            /\ IF Contains(old.seen, id) THEN UNCHANGED call
               ELSE Recorded(c, "tool_error", r,
                        [Idle EXCEPT !.pc = "save", !.run = r, !.todo = <<"tool_error">>,
                                     !.pending = Row(entry)])
            /\ streak' = [streak EXCEPT !["tool_error"][r] =
                   IF <<r, id>> \in reported THEN @ ELSE IF result = "success" THEN NoStreak
                   ELSE Extend(@, result, result)]
            /\ \E when : Lose("tool_error", r, when)
            /\ reported' = reported \cup {<<r, id>>}
    BY <1>0
  <1>2. r \in Runs
    BY DEF Inv, WorkSet
  <1>3. "tool_error" \in KindSet
    BY TheKinds
  <1>4. work' \in WorkSet /\ work'.route = work.route /\ work'.streams = work.streams
    BY WorkDone DEF Inv, ReportResult
  <1>5. old \in ActiveSet /\ Len(old.seen) <= MaxSeen
    BY <1>1, <1>2, <1>3, EntryActive DEF Inv
  <1>6. entry \in ActiveSet /\ Len(entry.seen) <= MaxSeen
    BY <1>1, <1>5, ResultCounted
  <1>7. entry \in EntrySet /\ entry.count >= 0 /\ Row(entry) \in RowSet
    BY <1>6, ActiveFits
  <1>8. Caches'
    BY <1>1, <1>2, <1>3, <1>6, <1>7, PutKeeps DEF Inv, ReportResult
  <1>9. Handlers'
    <2>1. CASE Contains(old.seen, id)
      BY <1>1, <1>4, <2>1, HandlersStay DEF Inv
    <2>2. CASE ~Contains(old.seen, id)
      <3>1. PICK none \in HandlerSet : none = Idle /\ Fits(none) /\ none.request = NoRequest
                /\ none.stream = NewStream /\ none.told = "nothing" /\ none.result = NoResult /\ ~none.late
        BY IdleFits DEF Fits, Idle
      <3>2. PICK row \in RowSet, todo \in Seq(KindSet) : row = Row(entry) /\ todo = <<"tool_error">>
        <4>1. <<"tool_error">> \in Seq(KindSet)
          BY <1>3
        <4>2. QED
          BY <1>7, <4>1
      <3>3. PICK new : new = [none EXCEPT !.pc = "save", !.run = r, !.todo = todo, !.pending = row]
        OBVIOUS
      <3>4. /\ new \in HandlerSet /\ new.pc = "save" /\ new.run = r /\ new.todo = todo
            /\ new.request = none.request /\ new.stream = none.stream /\ new.told = none.told
            /\ new.result = none.result /\ new.late = none.late
        BY <1>2, <3>1, <3>2, <3>3 DEF HandlerSet
      <3>5. todo # <<>> /\ TodoFits(todo, NoResult)
        <4>1. Len(todo) = 1 /\ todo[1] = "tool_error"
          BY <3>2
        <4>2. \A n \in 1..1 : n = 1
          OBVIOUS
        <4>3. QED
          BY <3>2, <4>1, <4>2 DEF TodoFits
      <3>6. Fits(new)
        BY <1>2, <3>1, <3>4, <3>5 DEF Fits
      <3>7. Recorded(c, "tool_error", r, new)
        BY <1>1, <2>2, <3>1, <3>2, <3>3
      <3>8. QED
        BY <1>4, <3>6, <3>7, HandlerRecords DEF Inv
    <2>3. QED
      BY <2>1, <2>2
  <1>10. History'
    <2>1. PICK s \in StreakSet : s = streak["tool_error"][r]
      BY <1>2, <1>3 DEF Inv, History
    <2>2. PICK more \in StreakSet : more = IF <<r, id>> \in reported THEN s ELSE IF result = "success" THEN NoStreak
                                           ELSE Extend(s, result, result)
      <3>1. NoStreak \in StreakSet
        BY DEF NoStreak, StreakSet, Truths, Values
      <3>2. Extend(s, result, result) \in StreakSet
        <4>1. result \in Truths /\ result \in Values
          BY DEF Truths, Values
        <4>2. QED
          BY <2>1, <4>1, ExtendFits
      <3>3. QED
        BY <2>1, <3>1, <3>2
    <2>3. streak' = [streak EXCEPT !["tool_error"][r] = more]
      BY <1>1, <1>2, <1>3, <2>1, <2>2 DEF Inv, History
    <2>4. streak' \in [KindSet -> [Runs -> StreakSet]]
      BY <1>2, <1>3, <2>2, <2>3, StreakChanges DEF Inv, History
    <2>5. reported' \subseteq Runs \X ResultIds
      BY <1>1, <1>2 DEF Inv, History
    <2>6. QED
      BY <1>1, <1>2, <1>3, <2>4, <2>5, CountsLost DEF Inv
  <1>11. QED
    BY <1>4, <1>8, <1>9, <1>10 DEF Inv

LEMMA SaveStep == ASSUME Inv, NEW c \in Callers, Save(c) PROVE Inv'
  <1>1. PICK x \in HandlerSet : x = call[c] /\ Fits(x) /\ x.pc = "save" /\ x.todo # <<>> /\ x.run \in Runs
    BY DEF Inv, Handlers, Save, Fits
  <1>2. PICK todo \in Seq(KindSet) : todo = x.todo /\ todo # <<>> /\ Head(todo) \in KindSet
    <2>1. PICK todo \in Seq(KindSet) : todo = x.todo
      BY DEF HandlerSet
    <2>2. QED
      BY <1>1, <2>1
  <1>3. PICK rest \in Seq(KindSet) : /\ rest = Tail(todo) /\ Len(rest) = Len(todo) - 1
                                     /\ \A n \in 1..Len(rest) : rest[n] = todo[n + 1]
    BY <1>2, HeadTailProperties
  <1>4. TodoFits(rest, x.result)
    <2>1. \A n \in 1..Len(rest) : n + 1 \in 1..Len(todo)
      BY <1>2, <1>3, LenProperties
    <2>2. QED
      BY <1>1, <1>2, <1>3, <2>1 DEF Fits, TodoFits
  <1>5. PICK new : new = [x EXCEPT !.pc = "record", !.pending = NoRow, !.late = FALSE, !.todo = rest]
    OBVIOUS
  <1>6. /\ new \in HandlerSet /\ new.pc = "record" /\ new.run = x.run /\ new.todo = rest
        /\ new.request = x.request /\ new.stream = x.stream /\ new.told = x.told
        /\ new.result = x.result /\ ~new.late
    BY <1>1, <1>3, <1>5, Defaults DEF HandlerSet
  <1>7. Fits(new)
    BY <1>1, <1>4, <1>6 DEF Fits
  <1>8. Becomes(c, new)
    BY <1>1, <1>2, <1>3, <1>5 DEF Save
  <1>9. UNCHANGED <<work, cache, order, streak, reported>> /\ \E when : Lose(Head(todo), x.run, when)
    BY <1>1, <1>2 DEF Save
  <1>10. Handlers'
    BY <1>7, <1>8, <1>9, HandlerGoesOn DEF Inv
  <1>11. saved' \in [KindSet -> [Runs -> RowSet]]
    <2>1. UNCHANGED saved \/ SaveRow(Head(todo), x.run, x.pending)
      BY <1>1, <1>2 DEF Save
    <2>2. PICK k \in KindSet, row \in RowSet : k = Head(todo) /\ row = x.pending
      BY <1>2 DEF HandlerSet
    <2>3. saved' = saved \/ saved' = [saved EXCEPT ![k][x.run] = row]
      BY <2>1, <2>2 DEF SaveRow
    <2>4. saved \in [KindSet -> [Runs -> RowSet]] /\ x.run \in Runs
      BY <1>1 DEF Inv, Caches
    <2>5. CASE saved' = [saved EXCEPT ![k][x.run] = row]
      <3>1. [saved[k] EXCEPT ![x.run] = row] \in [Runs -> RowSet]
        BY <2>2, <2>4
      <3>2. saved' = [saved EXCEPT ![k] = [saved[k] EXCEPT ![x.run] = row]]
        BY <2>5
      <3>3. QED
        BY <2>2, <2>4, <3>1, <3>2
    <2>6. QED
      BY <2>3, <2>4, <2>5
  <1>12. Caches'
    BY <1>9, <1>11 DEF Inv, Caches, Orderly, Cached
  <1>13. History'
    BY <1>1, <1>2, <1>9, CountsLost DEF Inv, History
  <1>14. QED
    BY <1>9, <1>10, <1>12, <1>13 DEF Inv

\* Empty caches.
LEMMA NothingHeld ==
  ASSUME NEW cached, NEW runs, cached = [r \in Runs |-> NoEntry], runs = <<>>
  PROVE  cached \in [Runs -> EntrySet] /\ runs \in Seq(Runs) /\ Holds(cached, runs)
  <1>1. MaxRuns \in Nat /\ MaxSeen \in Nat
    BY RepetitionAssumption
  <1>2. Len(runs) = 0 /\ runs \in Seq(Runs) /\ \A i \in 1..Len(runs) : FALSE
    OBVIOUS
  <1>3. \A r \in Runs : cached[r] = NoEntry /\ Len(cached[r].seen) = 0
    BY Entries
  <1>4. QED
    BY <1>1, <1>2, <1>3, Entries DEF Holds

LEMMA RestartStep == ASSUME Inv, Restart PROVE Inv'
  <1>1. work' \in WorkSet /\ work'.route = work.route /\ work'.streams = work.streams
    BY WorkDone DEF Inv, Restart
  <1>2. Handlers'
    <2>1. PICK none \in HandlerSet : none = Idle /\ Fits(none)
      BY IdleFits DEF Fits
    <2>2. Fits(none)'
      BY <1>1, <2>1, StillFits
    <2>3. call' = [c \in Callers |-> none]
      BY <2>1 DEF Restart
    <2>4. call' \in [Callers -> HandlerSet] /\ \A c \in Callers : call'[c] = none
      BY <2>3
    <2>5. \A c \in Callers : Fits(call[c])'
      BY <2>2, <2>4
    <2>6. QED
      BY <2>4, <2>5 DEF Handlers
  <1>3. Forgotten
    BY DEF Restart
  <1>4. Caches'
    <2>1. saved' \in [KindSet -> [Runs -> RowSet]]
      BY <1>3 DEF Forgotten, Inv, Caches
    <2>2. \A k \in KindSet : cache'[k] = [r \in Runs |-> NoEntry] /\ order'[k] = <<>>
      BY <1>3 DEF Forgotten
    <2>3. \A k \in KindSet : /\ cache'[k] \in [Runs -> EntrySet] /\ order'[k] \in Seq(Runs)
                             /\ Holds(cache'[k], order'[k])
      BY <2>2, NothingHeld
    <2>4. cache' \in [KindSet -> [Runs -> EntrySet]] /\ order' \in [KindSet -> Seq(Runs)]
      BY <1>3, <2>3, Entries DEF Forgotten
    <2>5. Orderly'
      BY <2>3 DEF Orderly, Holds, Cached
    <2>6. QED
      BY <2>1, <2>4, <2>5 DEF Caches
  <1>5. History'
    <2>1. lost' \subseteq KindSet \X Runs
      BY DEF Restart, Inv, History
    <2>2. QED
      BY <2>1 DEF Restart, Inv, History
  <1>6. QED
    BY <1>1, <1>2, <1>4, <1>5 DEF Inv

LEMMA PruneStep == ASSUME Inv, Prune PROVE Inv'
  <1>1. work' \in WorkSet /\ work'.route = work.route /\ work'.streams = work.streams
    BY WorkDone DEF Inv, Prune
  <1>2. Handlers'
    BY <1>1, HandlersStay DEF Inv, Prune
  <1>3. PICK old : Pruned(old) /\ lost' = lost \cup {p \in KindSet \X old :
                                                       /\ streak[p[1]][p[2]].n > 0
                                                       /\ \A c \in Callers : ~SavesNewest(c, p[1], p[2])}
                   /\ old \subseteq Runs
    BY <1>1 DEF Prune, Inv, WorkSet
  <1>4. Caches'
    <2>1. saved' \in [KindSet -> [Runs -> RowSet]]
      BY <1>3, Defaults DEF Pruned, Inv, Caches
    <2>2. UNCHANGED <<cache, order>>
      BY <1>3 DEF Pruned
    <2>3. QED
      BY <2>1, <2>2 DEF Inv, Caches, Orderly, Cached
  <1>5. History'
    BY <1>3 DEF Prune, Inv, History
  <1>6. QED
    BY <1>1, <1>2, <1>4, <1>5 DEF Inv

LEMMA InvInit == Init => Inv
  <1> SUFFICES ASSUME Init PROVE Inv
    OBVIOUS
  <1>1. work \in WorkSet
    BY WorkloadAssumption DEF Init, WorkSet
  <1>2. Handlers
    <2>1. PICK none \in HandlerSet : none = Idle /\ Fits(none)
      BY IdleFits DEF Fits
    <2>2. call \in [Callers -> HandlerSet] /\ \A c \in Callers : call[c] = none
      BY <2>1 DEF Init
    <2>3. QED
      BY <2>1, <2>2 DEF Handlers
  <1>3. Caches
    <2>1. saved \in [KindSet -> [Runs -> RowSet]]
      BY Defaults DEF Init, RepetitionInit
    <2>2. \A k \in KindSet : cache[k] = [r \in Runs |-> NoEntry] /\ order[k] = <<>>
      BY DEF Init, RepetitionInit
    <2>3. \A k \in KindSet : cache[k] \in [Runs -> EntrySet] /\ order[k] \in Seq(Runs)
                             /\ Holds(cache[k], order[k])
      BY <2>2, NothingHeld
    <2>4. cache \in [KindSet -> [Runs -> EntrySet]] /\ order \in [KindSet -> Seq(Runs)]
      BY <2>3, Entries DEF Init, RepetitionInit
    <2>5. QED
      BY <2>1, <2>3, <2>4, OrderlyHolds DEF Caches
  <1>4. History
    <2>1. NoStreak \in StreakSet
      BY DEF NoStreak, StreakSet, Truths, Values
    <2>2. QED
      BY <2>1 DEF Init, History
  <1>5. QED
    BY <1>1, <1>2, <1>3, <1>4 DEF Inv

LEMMA InvKept == Inv /\ [Next]_vars => Inv'
  <1> SUFFICES ASSUME Inv, [Next]_vars PROVE Inv'
    OBVIOUS
  <1>1. ASSUME NEW c \in Callers,
               Ask(c) \/ Preflight(c) \/ Provider(c) \/ Record(c) \/ ReportResult(c)
        PROVE  Inv'
    <2>1. CASE Ask(c)
      BY <2>1, AskStep
    <2>2. CASE Preflight(c)
      BY <2>2, CheckCachedStep, CheckSavedStep, FillCacheStep, AdmitStep, BlockStep DEF Preflight
    <2>3. CASE Provider(c)
      BY <2>3, NoAnswerStep, WholeReplyStep, OpenStep, ReceiveFrameStep, CutStep, LeaveStep DEF Provider
    <2>4. CASE Record(c)
      BY <2>4, RecordCallsStep, RecordOutcomeStep, SaveStep, ReturnStep DEF Record
    <2>5. CASE ReportResult(c)
      BY <2>5, ReportResultStep
    <2>6. QED
      BY <1>1, <2>1, <2>2, <2>3, <2>4, <2>5
  <1>2. CASE Restart
    BY <1>2, RestartStep
  <1>3. CASE Prune
    BY <1>3, PruneStep
  <1>4. CASE UNCHANGED vars
    <2>1. UNCHANGED call /\ UNCHANGED work /\ UNCHANGED repetition /\ UNCHANGED <<streak, reported, lost>>
      BY <1>4 DEF vars
    <2>2. Handlers'
      BY <2>1, HandlersStay DEF Inv
    <2>3. QED
      BY <2>1, <2>2, NothingCounted DEF Inv
  <1>5. QED
    BY <1>1, <1>2, <1>3, <1>4 DEF Next

LEMMA InvHolds == Spec => []Inv
  BY InvInit, InvKept, PTL DEF Spec

-----------------------------------------------------------------------------
\* What follows.

LEMMA TheAssistant ==
  Item("assistant") \in ItemSet /\ Item("assistant").role = "assistant" /\ Item("assistant").calls = <<>>
  <1>1. <<>> \in Seq(CallSet) /\ 0 \in Nat /\ "assistant" \in Roles
    BY DEF Roles
  <1>2. QED
    BY <1>1 DEF Item, ItemSet

LEMMA ReplyTakenByAnthropic ==
  ASSUME NEW text \in BOOLEAN, NEW calls \in Seq(CallSet), text \/ calls # <<>>,
         \A n \in 1..Len(calls) : Whole(calls[n])
  PROVE  translateAnthropicRequest(<<Item("user")>> \o ChatReply(text, calls) \o <<Item("user")>>).ok
  <1>1. PICK plain \in ItemSet : plain = Item("assistant") /\ plain.role = "assistant"
    BY TheAssistant
  <1>2. PICK item : item = [plain EXCEPT !.text = text, !.calls = calls]
    OBVIOUS
  <1>3. item \in ItemSet /\ item.role = "assistant" /\ item.text = text /\ item.calls = calls
    BY <1>1, <1>2 DEF ItemSet
  <1>4. item \in AnthropicTakes
    BY <1>3 DEF AnthropicTakes
  <1>5. PICK reply \in Seq(ItemSet) : reply = <<item>> /\ reply = ChatReply(text, calls)
    <2>1. <<item>> \in Seq(ItemSet)
      BY <1>3
    <2>2. ChatReply(text, calls) = <<item>>
      BY <1>1, <1>2 DEF ChatReply
    <2>3. QED
      BY <2>1, <2>2
  <1>6. PICK items : /\ items = <<Item("user")>> \o reply \o <<Item("user")>>
                      /\ GoesOn(reply, items)
    BY DEF GoesOn
  <1>7. /\ items \in Seq(ItemSet) /\ items # <<>> /\ Item("user") \in ItemSet
        /\ \A n \in 1..Len(items) :
              items[n] = Item("user") \/ \E i \in 1..Len(reply) : items[n] = reply[i]
    <2>1. GoesOn(reply, items) /\ reply \in Seq(ItemSet)
      BY <1>5, <1>6
    <2>2. /\ items \in Seq(ItemSet) /\ Item("user") \in ItemSet
          /\ \A n \in 1..Len(items) :
                items[n] = Item("user") \/ \E i \in 1..Len(reply) : items[n] = reply[i]
      BY <2>1, Sandwich
    <2>3. items # <<>>
      BY <2>1, Sandwich
    <2>4. QED
      BY <2>2, <2>3
  <1>8. Item("user") \in AnthropicTakes
    BY <1>7 DEF AnthropicTakes, Said, Item
  <1>9. \A i \in 1..Len(reply) : reply[i] = item
    BY <1>5
  <1>10. translateAnthropicRequest(items).ok
    BY <1>4, <1>7, <1>8, <1>9, AnthropicTaken
  <1>11. QED
    BY <1>5, <1>6, <1>10

LEMMA ReplyTakenByChat ==
  ASSUME NEW text \in BOOLEAN, NEW calls \in Seq(CallSet), \A n \in 1..Len(calls) : Whole(calls[n])
  PROVE  buildChatRequest(<<Item("user")>> \o ResponsesReply(text, calls) \o <<Item("user")>>).ok
  <1>1. PICK plain \in ItemSet : /\ plain = Item("assistant") /\ plain.role = "assistant"
                                 /\ plain.calls = <<>>
    BY TheAssistant
  <1> DEFINE item(i) == [plain EXCEPT !.text = FALSE, !.calls = <<calls[i]>>]
  <1>2. ASSUME NEW i \in 1..Len(calls)
        PROVE  item(i) \in ItemSet /\ item(i).role = "assistant" /\ Whole(Head(item(i).calls))
    <2>1. PICK one \in Seq(CallSet) : one = <<calls[i]>> /\ Head(one) = calls[i]
      <3>1. PICK one \in CallSet : one = calls[i]
        OBVIOUS
      <3>2. <<one>> \in Seq(CallSet) /\ Head(<<one>>) = one
        OBVIOUS
      <3>3. QED
        BY <3>1, <3>2
    <2>2. PICK x : x = [plain EXCEPT !.text = FALSE, !.calls = one] /\ x = item(i)
      BY <2>1
    <2>3. x \in ItemSet /\ x.role = "assistant" /\ x.calls = one
      BY <1>1, <2>1, <2>2 DEF ItemSet
    <2> HIDE DEF item
    <2>4. QED
      BY <2>1, <2>2, <2>3
  <1> HIDE DEF item
  <1>3. PICK said \in Seq(ItemSet) : /\ said = IF text THEN <<plain>> ELSE <<>>
                                     /\ \A i \in 1..Len(said) : said[i] = plain
    <2>1. CASE text
      <3>1. PICK one \in Seq(ItemSet) : one = <<plain>> /\ Len(one) = 1 /\ one[1] = plain
        <4>1. plain \in ItemSet
          BY <1>1
        <4>2. <<plain>> \in Seq(ItemSet) /\ Len(<<plain>>) = 1 /\ <<plain>>[1] = plain
          BY <4>1
        <4>3. QED
          BY <4>2
      <3>2. \A i \in 1..Len(one) : one[i] = plain
        BY <3>1
      <3>3. QED
        BY <2>1, <3>1, <3>2
    <2>2. CASE ~text
      <3>1. <<>> \in Seq(ItemSet) /\ \A i \in 1..Len(<<>>) : FALSE
        OBVIOUS
      <3>2. QED
        BY <2>2, <3>1
    <2>3. QED
      BY <2>1, <2>2
  <1>4. PICK made \in Seq(ItemSet) : /\ made = [i \in 1..Len(calls) |-> item(i)]
                                     /\ Len(made) = Len(calls)
                                     /\ \A i \in 1..Len(made) : made[i] = item(i)
    <2>1. PICK f \in [1..Len(calls) -> ItemSet] : f = [i \in 1..Len(calls) |-> item(i)]
      BY <1>2
    <2>2. f \in Seq(ItemSet) /\ Len(f) = Len(calls) /\ \A i \in 1..Len(calls) : f[i] = item(i)
      BY <2>1, FunctionIsSequence, LenProperties
    <2>3. QED
      BY <2>1, <2>2
  <1>5. PICK reply \in Seq(ItemSet) :
            /\ reply = ResponsesReply(text, calls) /\ reply = said \o made
            /\ \A i \in 1..Len(reply) : reply[i] = plain \/ \E n \in 1..Len(calls) : reply[i] = item(n)
    <2>1. DOMAIN calls = 1..Len(calls)
      OBVIOUS
    <2>2. ResponsesReply(text, calls) = said \o made
      BY <1>1, <1>3, <1>4, <2>1 DEF ResponsesReply, item
    <2>3. PICK reply : reply = said \o made
      OBVIOUS
    <2>4. /\ reply \in Seq(ItemSet) /\ Len(reply) = Len(said) + Len(made)
          /\ \A i \in 1..Len(reply) : reply[i] = IF i <= Len(said) THEN said[i] ELSE made[i - Len(said)]
      BY <2>3, ConcatProperties
    <2>5. Len(said) \in Nat /\ Len(made) \in Nat
      OBVIOUS
    <2>6. ASSUME NEW i \in 1..Len(reply)
          PROVE  reply[i] = plain \/ \E n \in 1..Len(calls) : reply[i] = item(n)
      <3>1. CASE i <= Len(said)
        <4>1. i \in 1..Len(said)
          BY <2>5, <3>1
        <4>2. QED
          BY <1>3, <2>4, <3>1, <4>1
      <3>2. CASE ~(i <= Len(said))
        <4>1. i - Len(said) \in 1..Len(made)
          BY <2>4, <2>5, <3>2
        <4>2. QED
          BY <1>4, <2>4, <3>2, <4>1
      <3>3. QED
        BY <3>1, <3>2
    <2>7. QED
      BY <2>2, <2>3, <2>4, <2>6
  <1>6. PICK items : /\ items = <<Item("user")>> \o reply \o <<Item("user")>>
                      /\ GoesOn(reply, items)
    BY DEF GoesOn
  <1>7. /\ items \in Seq(ItemSet) /\ Item("user") \in ItemSet
        /\ \A n \in 1..Len(items) :
              items[n] = Item("user") \/ \E i \in 1..Len(reply) : items[n] = reply[i]
    BY <1>6, Sandwich
  <1>8. Item("user") \in ChatTakes /\ Item("user").calls = <<>>
    BY <1>7 DEF ChatTakes, Said, Item
  <1>9. ASSUME NEW n \in 1..Len(items)
        PROVE  items[n] \in ChatTakes /\ (items[n].calls # <<>> => Whole(Head(items[n].calls)))
    <2>1. CASE items[n] = Item("user")
      BY <1>8, <2>1
    <2>2. CASE items[n] = plain
      BY <1>1, <2>2 DEF ChatTakes
    <2>3. ASSUME NEW i \in 1..Len(calls), items[n] = item(i)
          PROVE  items[n] \in ChatTakes /\ (items[n].calls # <<>> => Whole(Head(items[n].calls)))
      BY <1>2, <2>3 DEF ChatTakes
    <2>4. QED
      BY <1>5, <1>7, <2>1, <2>2, <2>3
  <1>10. buildChatRequest(items).ok
    BY <1>7, <1>9, ChatTaken
  <1>11. QED
    BY <1>5, <1>6, <1>10

\* The handlers, the caches and the history stay in the sets that the code
\* gives them (chat.go, repetition.go); a cache holds no more runs than its
\* limit, each once, and an entry no more result ids than its own.
THEOREM TypesAreKept == Spec => []TypeOK
  <1>1. Inv => TypeOK
    <2> SUFFICES ASSUME Inv PROVE TypeOK
      OBVIOUS
    <2>1. CachesOK
      <3>1. ASSUME NEW k \in KindSet PROVE {r \in Runs : Cached(k, r)} = ToSet(order[k])
        <4>1. order[k] \in Seq(Runs) /\ DOMAIN order[k] = 1..Len(order[k])
          BY DEF Inv, Caches
        <4>2. \A r \in Runs : Cached(k, r) <=> \E i \in 1..Len(order[k]) : order[k][i] = r
          BY DEF Inv, Caches, Orderly
        <4>3. QED
          BY <4>1, <4>2 DEF ToSet
      <3>2. QED
        BY <3>1 DEF CachesOK, Inv, Caches, Orderly
    <2>2. ASSUME NEW c \in Callers
          PROVE  /\ call[c].pc \in {"idle", "check", "fill", "blocked", "policy", "ask", "stream",
                                    "record", "save"}
                 /\ call[c].pc # "idle" => call[c].run \in Runs
                 /\ call[c].told \in {"nothing", "reply", "done", "refuted", "error", "cut"}
      <3>1. call[c] \in HandlerSet /\ Fits(call[c])
        BY DEF Inv, Handlers
      <3>2. QED
        BY <3>1 DEF Fits, HandlerSet
    <2>3. QED
      BY <2>1, <2>2 DEF TypeOK, Inv, History
  <1>2. QED
    BY <1>1, InvHolds, PTL

\* What the client is told and what is recorded of a call agree (chat.go,
\* responses.go, messages.go: the deferred functions of the handlers): a reply
\* in full is a success whose calls are counted, and a failure is told.
THEOREM ClientKnowsTheRecord == Spec => []ClientAndRecordAgree
  <1>1. Inv => ClientAndRecordAgree
    <2> SUFFICES ASSUME Inv, NEW c \in Callers, NEW result, result = call[c].result
                 PROVE  /\ call[c].told \in {"reply", "done"} =>
                            /\ result.status = "success"
                            /\ Len(result.prints) = Len(result.made)
                            /\ \A n \in DOMAIN result.made :
                                result.prints[n] = result.made[n] \/ result.custom
                        /\ (result.status \in {"provider_error", "transport_error"}
                            /\ result.fault # <<"cancelled">>
                            /\ ~(Route = "messages" /\ work.streams))
                                => call[c].told \in {"error", "refuted"}
      BY DEF ClientAndRecordAgree
    <2>1. ResultFits(call[c].told, result)
      BY DEF Inv, Handlers, Fits
    <2>2. result.made \in Seq(CallSet)
      BY DEF Inv, Handlers, HandlerSet, ResultSet
    <2>3. DOMAIN result.made = 1..Len(result.made)
      BY <2>2
    <2>4. QED
      BY <2>1, <2>3 DEF ResultFits, Complete, PrintsOK, responsesPrint
  <1>2. QED
    BY <1>1, InvHolds, PTL

\* What the gateway has handed out it takes back (anthropic.go,
\* responses_chat.go: a finished reply is a turn of the next request), however
\* many calls it has.
THEOREM RepliesAreTakenBack == Spec => []TakesBackItsReplies
  <1>1. Inv => TakesBackItsReplies
    <2> SUFFICES ASSUME Inv, NEW c \in Callers, call[c].told \in {"reply", "done"},
                        NEW result, result = call[c].result
                 PROVE  /\ Route = "anthropic" =>
                            \/ translateAnthropicRequest(<<Item("user")>> \o
                                  ChatReply(result.text, result.made) \o <<Item("user")>>).ok
                            \/ ~result.text /\ result.made = <<>>
                            \/ work.streams /\ Spoilt(result)
                        /\ Route = "translated" =>
                            buildChatRequest(<<Item("user")>> \o
                                  ResponsesReply(result.text, result.made) \o <<Item("user")>>).ok
      BY DEF TakesBackItsReplies
    <2>1. Complete(result)
      BY DEF Inv, Handlers, Fits, ResultFits
    <2>2. PICK calls \in Seq(CallSet), text \in BOOLEAN : calls = result.made /\ text = result.text
      BY DEF Inv, Handlers, HandlerSet, ResultSet
    <2>3. CASE Route = "translated"
      BY <2>1, <2>2, <2>3, ReplyTakenByChat DEF Complete
    <2>4. CASE Route = "anthropic" /\ (text \/ calls # <<>>) /\ ~(work.streams /\ Spoilt(result))
      <3>1. ASSUME NEW n \in 1..Len(calls) PROVE Whole(calls[n])
        <4>1. CASE ~work.streams
          BY <2>1, <2>2, <2>4, <4>1 DEF Complete
        <4>2. CASE ~Spoilt(result)
          <5>1. PICK one \in CallSet : one = calls[n]
            BY <2>2
          <5>2. PICK args \in Seq(Args \cup {Empty}) : args = one.args
            BY Calls
          <5>3. one.named /\ args # <<>>
            BY <2>1, <2>2, <2>4, <5>1, <5>2 DEF Complete
          <5>4. ~(Len(args) > 1)
            <6>1. n \in DOMAIN calls
              BY <2>2
            <6>2. QED
              BY <2>2, <4>2, <5>1, <5>2, <6>1 DEF Spoilt
          <5>5. Len(args) = 1
            <6>1. Len(args) # 0
              BY <5>2, <5>3
            <6>2. PICK n0 \in Nat : n0 = Len(args)
              BY <5>2, LenProperties
            <6>3. QED
              BY <5>4, <6>1, <6>2
          <5>6. QED
            BY <5>1, <5>2, <5>3, <5>5 DEF Whole
        <4>3. QED
          BY <2>4, <4>1, <4>2
      <3>2. translateAnthropicRequest(<<Item("user")>> \o ChatReply(text, calls) \o <<Item("user")>>).ok
        BY <2>2, <2>4, <3>1, ReplyTakenByAnthropic
      <3>3. QED
        BY <2>2, <2>4, <3>2
    <2>5. CASE Route = "anthropic" /\ ~text /\ calls = <<>>
      BY <2>2, <2>5
    <2>6. CASE Route = "anthropic" /\ work.streams /\ Spoilt(result)
      BY <2>6
    <2>7. QED
      BY <2>3, <2>4, <2>5, <2>6
  <1>2. QED
    BY <1>1, InvHolds, PTL

\* The events of a translated stream number the calls as the response that
\* ends it does (responses_chat.go callIndex), however many there are.
THEOREM ItemsAreNumberedAlike == Spec => []ItemsAgree
  <1>1. Inv => ItemsAgree
    <2> SUFFICES ASSUME Inv, NEW c \in Callers, NEW s, s = call[c].stream, s.text # "empty",
                        NEW t, t = finishToolDeltas(s), NEW n \in DOMAIN t.prints
                 PROVE  /\ callIndex(t, n) + 1 \in DOMAIN Output(t)
                        /\ Output(t)[callIndex(t, n) + 1] = t.prints[n]
      BY DEF ItemsAgree
    <2>1. s \in StreamSet
      BY DEF Inv, Handlers, HandlerSet
    <2>2. PICK prints \in Seq(CallSet) : prints = Arrivals(s.calls)
      <3>1. s.calls \in [Indices -> CallSet]
        BY <2>1 DEF StreamSet
      <3>2. QED
        BY <3>1, ArrivalsArrived
    <2>3. t.prints = prints /\ t.text \in {"none", "some"} /\ n \in 1..Len(prints)
      <3>1. t = [s EXCEPT !.prints = prints]
        BY <2>2 DEF finishToolDeltas
      <3>2. t.prints = prints /\ t.text = s.text /\ s.text \in {"none", "empty", "some"}
        BY <2>1, <3>1 DEF StreamSet
      <3>3. QED
        BY <3>2
    <2>4. CASE t.text = "none"
      <3>1. callIndex(t, n) + 1 = n
        BY <2>3, <2>4 DEF callIndex
      <3>2. Output(t) = prints
        <4>1. <<>> \o prints = prints
          BY ConcatEmptySeq
        <4>2. QED
          BY <2>3, <2>4, <4>1 DEF Output
      <3>3. QED
        BY <2>3, <3>1, <3>2
    <2>5. CASE t.text = "some"
      <3>1. callIndex(t, n) + 1 = n + 1
        BY <2>5 DEF callIndex
      <3>2. PICK out : out = <<NoCall>> \o prints /\ out = Output(t)
        BY <2>3, <2>5 DEF Output
      <3>3. <<NoCall>> \in Seq(CallSet) /\ Len(<<NoCall>>) = 1
        BY Calls
      <3>4. /\ out \in Seq(CallSet) /\ Len(out) = 1 + Len(prints)
            /\ \A i \in 1..Len(out) : out[i] = IF i <= 1 THEN <<NoCall>>[i] ELSE prints[i - 1]
        BY <3>2, <3>3, ConcatProperties
      <3>5. n + 1 \in 1..Len(out) /\ ~(n + 1 <= 1) /\ (n + 1) - 1 = n
        BY <2>3, <3>4
      <3>6. out[n + 1] = prints[n]
        BY <3>4, <3>5
      <3>7. QED
        BY <2>3, <3>1, <3>2, <3>4, <3>5, <3>6
    <2>6. QED
      BY <2>3, <2>4, <2>5
  <1>2. QED
    BY <1>1, InvHolds, PTL

\* A translated request keeps every item of its conversation, in its order,
\* and its guidance stands first and in one piece (anthropic.go,
\* responses_chat.go), however long the conversation is.
THEOREM OrderIsKept == Spec => []RequestKeepsOrder
  <1>1. Inv => RequestKeepsOrder
    BY DEF Inv, Handlers, Fits, RequestFits, RequestKeepsOrder
  <1>2. QED
    BY <1>1, InvHolds, PTL
=============================================================================
