-------------------------- MODULE RepetitionProofs --------------------------
(***************************************************************************)
(* The repetition counts of Gateway, for every number of callers and runs: *)
(* what the engine blocks, and what a restart finds, is the truth about a  *)
(* run, but for the sequences that it may have lost.                       *)
(***************************************************************************)
EXTENDS GatewayProofs

-----------------------------------------------------------------------------
\* What the engine knows of a sequence that it has not lost.

\* A count and its value are those of the true sequence.
Agrees(s, value, count) == count = s.n /\ (s.n > 0 => value = s.print)

\* What is counted is told apart by its print.
PrintTrue(k, s) == k # "tool_call" /\ s.n > 0 => s.value = s.print

CacheTrue(k, r) ==
    Cached(k, r) => /\ cache[k][r].count = streak[k][r].n
                    /\ streak[k][r].n > 0 => \/ cache[k][r].value = streak[k][r].print
                                             \/ k = "tool_error" /\ cache[k][r].value = None

RowTrue(k, r) ==
    \/ \E c \in Callers : SavesNewest(c, k, r)
    \/ Agrees(streak[k][r], saved[k][r].value, saved[k][r].count)

PendingTrue(k, r) ==
    \A c \in Callers : SavesNewest(c, k, r) =>
        Agrees(streak[k][r], call[c].pending.value, call[c].pending.count)

Sure(k, r) ==
    CacheTrue(k, r) /\ RowTrue(k, r) /\ PendingTrue(k, r) /\ PrintTrue(k, streak[k][r])

Counted == \A k \in KindSet : \A r \in Runs : <<k, r>> \in lost \/ Sure(k, r)

\* Of the handlers that save a count, one at most has the newest.
OneNewest ==
    \A k \in KindSet : \A r \in Runs : \A c, d \in Callers :
        SavesNewest(c, k, r) /\ SavesNewest(d, k, r) => c = d

\* The last call of a run and its print.
Printed(s) ==
    s.n > 0 => /\ s.value \in BOOLEAN \X CallSet
               /\ s.print = responsesPrint(s.value[1], s.value[2])
               /\ s.value[1] => Route = "responses"

CallsPrinted == \A r \in Runs : Printed(streak["tool_call"][r])

SeenReported ==
    \A r \in Runs : \A i \in 1..Len(cache["tool_error"][r].seen) :
        <<r, cache["tool_error"][r].seen[i]>> \in reported

\* A handler that fills a cache has read the truth.
FillTrue(x) ==
    x.pc = "fill" => \/ <<Kinds[x.kind], x.run>> \in lost
                     \/ x.due <=> x.row.count >= Threshold

FillsTrue == \A c \in Callers : FillTrue(call[c])

Rep == Counted /\ OneNewest /\ CallsPrinted /\ SeenReported /\ FillsTrue

-----------------------------------------------------------------------------
\* Steps that do not count.

\* What a step leaves alone of a sequence.
Untouched(k, r) ==
    /\ streak'[k][r] = streak[k][r] /\ saved'[k][r] = saved[k][r]
    /\ cache'[k][r] \in {cache[k][r], NoEntry}
    /\ \A c \in Callers : /\ SavesNewest(c, k, r)' <=> SavesNewest(c, k, r)
                          /\ SavesNewest(c, k, r) => call'[c].pending = call[c].pending

LEMMA StaysSure ==
  ASSUME NEW k, NEW r, Untouched(k, r), Sure(k, r)
  PROVE  Sure(k, r)'
  <1>1. CacheTrue(k, r)'
    BY DEF Untouched, Sure, CacheTrue, Cached
  <1>2. RowTrue(k, r)'
    BY DEF Untouched, Sure, RowTrue
  <1>3. PendingTrue(k, r)'
    BY DEF Untouched, Sure, PendingTrue
  <1>4. QED
    BY <1>1, <1>2, <1>3 DEF Untouched, Sure, PrintTrue

\* A handler that neither has a count to save nor gets one.
Moves(c) ==
    /\ call[c].pc # "save" /\ call'[c].pc # "save"
    /\ \A d \in Callers \ {c} : call'[d] = call[d]

LEMMA MovesSaves ==
  ASSUME NEW c \in Callers, Moves(c), NEW d \in Callers, NEW k, NEW r
  PROVE  /\ SavesNewest(d, k, r)' <=> SavesNewest(d, k, r)
         /\ SavesNewest(d, k, r) => call'[d].pending = call[d].pending
  <1>1. CASE d = c
    BY <1>1 DEF Moves, SavesNewest, Saving
  <1>2. CASE d # c
    BY <1>2 DEF Moves, SavesNewest, Saving
  <1>3. QED
    BY <1>1, <1>2

LEMMA BecomesMoves ==
  ASSUME Handlers, NEW c \in Callers, NEW new, Becomes(c, new),
         call[c].pc # "save", new.pc # "save"
  PROVE  Moves(c) /\ call'[c] = new
  BY DEF Handlers, Becomes, Moves

LEMMA FillsStay ==
  ASSUME FillsTrue, NEW c \in Callers, \A d \in Callers \ {c} : call'[d] = call[d],
         lost \subseteq lost', FillTrue(call[c])'
  PROVE  FillsTrue'
  BY DEF FillsTrue, FillTrue

\* A step of one handler that leaves the counts as they are.
LEMMA MovesKeeps ==
  ASSUME Rep, NEW c \in Callers, Moves(c), lost \subseteq lost', work'.route = work.route,
         UNCHANGED <<repetition, streak, reported>>, FillTrue(call[c])'
  PROVE  Rep'
  <1>1. UNCHANGED <<cache, order, saved>>
    BY DEF repetition
  <1>2. ASSUME NEW k \in KindSet, NEW r \in Runs PROVE Untouched(k, r)
    BY <1>1, MovesSaves DEF Untouched
  <1>3. Counted'
    BY <1>2, StaysSure DEF Rep, Counted
  <1>4. OneNewest'
    BY MovesSaves DEF Rep, OneNewest
  <1>5. CallsPrinted'
    BY DEF Rep, CallsPrinted, Printed, Route
  <1>6. SeenReported'
    BY <1>1 DEF Rep, SeenReported
  <1>7. FillsTrue'
    BY FillsStay DEF Rep, Moves
  <1>8. QED
    BY <1>3, <1>4, <1>5, <1>6, <1>7 DEF Rep

\* Most steps.
LEMMA QuietKeeps ==
  ASSUME Inv, Rep, NEW c \in Callers, NEW new, Becomes(c, new), call[c].pc # "save",
         new.pc \notin {"save", "fill"}, work'.route = work.route,
         UNCHANGED <<repetition, streak, reported, lost>>
  PROVE  Rep'
  <1>1. Moves(c) /\ call'[c] = new
    BY BecomesMoves DEF Inv
  <1>2. QED
    BY <1>1, MovesKeeps DEF FillTrue

LEMMA AskKeeps == ASSUME Inv, Rep, NEW c \in Callers, Ask(c) PROVE Rep'
  <1>1. work'.route = work.route
    <2>1. PICK w \in WorkSet : w = work
      BY DEF Inv
    <2>2. PICK calls : calls = w.calls - 1
      OBVIOUS
    <2>3. work' = [w EXCEPT !.calls = calls]
      BY <2>1, <2>2 DEF Ask
    <2>4. QED
      BY <2>1, <2>3 DEF WorkSet
  <1>2. PICK r, request : Becomes(c, [Idle EXCEPT !.pc = "check", !.run = r, !.request = request])
    BY DEF Ask
  <1>3. PICK new : new = [Idle EXCEPT !.pc = "check", !.run = r, !.request = request]
    OBVIOUS
  <1>4. new.pc = "check"
    BY <1>3 DEF Idle
  <1>5. QED
    BY <1>1, <1>2, <1>3, <1>4, QuietKeeps DEF Ask

LEMMA CheckCachedKeeps == ASSUME Inv, Rep, NEW c \in Callers, CheckCached(c) PROVE Rep'
  <1>1. PICK x : x = call[c] /\ Fits(x) /\ x.pc = "check"
    BY DEF Inv, Handlers, CheckCached
  <1>2. PICK count : Becomes(c, Decide(x, count))
    BY <1>1 DEF CheckCached
  <1>3. PICK new : new = Decide(x, count) /\ new.pc \in {"blocked", "check", "policy"}
    BY <1>1, Decided
  <1>4. QED
    BY <1>1, <1>2, <1>3, QuietKeeps DEF CheckCached

LEMMA AdmitKeeps == ASSUME Inv, Rep, NEW c \in Callers, Admit(c) PROVE Rep'
  <1>1. PICK x \in HandlerSet : x = call[c]
    BY DEF Inv, Handlers
  <1>2. PICK new : /\ \/ new = [x EXCEPT !.pc = "ask", !.request = NoRequest]
                      \/ new = [x EXCEPT !.pc = "blocked"]
                   /\ Becomes(c, new)
    BY <1>1 DEF Admit
  <1>3. new.pc \in {"ask", "blocked"}
    BY <1>2 DEF HandlerSet
  <1>4. QED
    BY <1>2, <1>3, QuietKeeps DEF Admit

\* A handler that returns.
LEMMA ReturnKeeps == ASSUME Inv, Rep, NEW c \in Callers, Block(c) \/ Return(c) PROVE Rep'
  <1>1. Idle.pc = "idle"
    BY DEF Idle
  <1>2. Becomes(c, Idle) /\ call[c].pc # "save"
    BY DEF Block, Return
  <1>3. UNCHANGED <<work, repetition, streak, reported, lost>>
    BY DEF Block, Return
  <1>4. QED
    BY <1>1, <1>2, <1>3, QuietKeeps

LEMMA OpenKeeps == ASSUME Inv, Rep, NEW c \in Callers, Open(c) PROVE Rep'
  <1>1. PICK x \in HandlerSet : x = call[c]
    BY DEF Inv, Handlers
  <1>2. PICK new : new = [x EXCEPT !.pc = "stream"]
    OBVIOUS
  <1>3. new.pc = "stream"
    BY <1>2 DEF HandlerSet
  <1>4. QED
    BY <1>1, <1>2, <1>3, QuietKeeps DEF Open

LEMMA ConcludeKeeps ==
  ASSUME Inv, Rep, NEW c \in Callers, call[c].pc \in {"ask", "stream"},
         NEW told, NEW result, Conclude(c, told, result),
         UNCHANGED <<work, repetition, streak, reported, lost>>
  PROVE  Rep'
  <1>1. PICK x \in HandlerSet : x = call[c]
    BY DEF Inv, Handlers
  <1>2. PICK new : new = [x EXCEPT !.pc = "record", !.stream = NewStream, !.told = told,
                                   !.result = result, !.todo = Todo(result)]
    OBVIOUS
  <1>3. new.pc = "record"
    BY <1>2 DEF HandlerSet
  <1>4. QED
    BY <1>1, <1>2, <1>3, QuietKeeps DEF Conclude

LEMMA LoseGrows ==
  ASSUME NEW k, NEW r, NEW when, Lose(k, r, when)
  PROVE  lost \subseteq lost' /\ (when => <<k, r>> \in lost')
  BY DEF Lose

\* Calls look alike to the engine when they are alike, but for a custom call.
LEMMA CallsAlike ==
  ASSUME NEW s \in StreakSet, s.n > 0, Printed(s), NEW custom \in BOOLEAN, NEW one \in CallSet,
         custom => Route = "responses",
         Route = "responses" /\ (custom \/ s.value[1]) /\ s.print = responsesPrint(custom, one)
             => s.value = <<custom, one>>
  PROVE  s.value = <<custom, one>> <=> s.print = responsesPrint(custom, one)
  <1>1. PICK a \in BOOLEAN, b \in CallSet : s.value = <<a, b>> /\ s.print = responsesPrint(a, b)
                                            /\ (a => Route = "responses")
    <2>1. PICK p \in BOOLEAN \X CallSet : p = s.value
      BY DEF Printed
    <2>2. PICK a \in BOOLEAN, b \in CallSet : p = <<a, b>>
      BY <2>1
    <2>3. p[1] = a /\ p[2] = b
      BY <2>2
    <2>4. QED
      BY <2>1, <2>2, <2>3 DEF Printed
  <1>2. s.value[1] = a
    BY <1>1
  <1>3. CASE custom \/ a
    BY <1>1, <1>2, <1>3
  <1>4. CASE ~custom /\ ~a
    BY <1>1, <1>4 DEF responsesPrint
  <1>5. QED
    BY <1>3, <1>4

\* The calls of a reply, counted one after the other, and the true sequence.
LEMMA CallsCountedTruly ==
  ASSUME NEW old \in ActiveSet, NEW s \in StreakSet, NEW result \in ResultSet, PrintsOK(result),
         result.prints # <<>>, result.custom => Route = "responses" /\ Len(result.made) <= 1,
         Printed(s)
  PROVE  LET entry == RecordToolCalls(old, result.prints)
             more == Repeat(s, result)
         IN  /\ Printed(more)
             /\ Agrees(s, old.value, old.count) /\ ~Blurred(s, result)
                    => Agrees(more, entry.value, entry.count)
  <1>1. PICK prints \in Seq(CallSet), made \in Seq(CallSet), custom \in BOOLEAN :
            prints = result.prints /\ made = result.made /\ custom = result.custom
    BY DEF ResultSet
  <1>2. PICK N \in Nat : /\ N = Len(prints) /\ N = Len(made) /\ N >= 1
                         /\ \A n \in 1..N : prints[n] = responsesPrint(custom, made[n])
    BY <1>1 DEF PrintsOK
  <1>3. PICK e \in [0..N -> ActiveSet] :
            /\ e[0] = old /\ e[N] = RecordToolCalls(old, prints)
            /\ \A m \in 1..N : e[m] = Count(e[m - 1], prints[m])
    BY <1>1, <1>2, CountSteps
  <1>4. PICK t \in [0..N -> StreakSet] :
            /\ t[0] = s /\ t[N] = Repeat(s, result)
            /\ \A m \in 1..N : t[m] = Extend(t[m - 1], <<custom, made[m]>>, prints[m])
    <2>1. Len(result.prints) = N /\ Len(result.made) = N
      BY <1>1, <1>2
    <2>2. PICK steps \in [0..Len(result.prints) -> StreakSet] :
              /\ steps[0] = s /\ steps[Len(result.prints)] = Repeat(s, result)
              /\ \A m \in 1..Len(result.prints) :
                    steps[m] = Extend(steps[m - 1], <<result.custom, result.made[m]>>, result.prints[m])
      <3>1. result \in ResultSet /\ s \in StreakSet /\ Len(result.prints) = Len(result.made)
        BY <2>1
      <3>2. QED
        BY <3>1, RepeatSteps, Zenon
    <2>3. steps \in [0..N -> StreakSet] /\ steps[N] = Repeat(s, result)
      BY <2>1, <2>2
    <2>4. \A m \in 1..N : steps[m] = Extend(steps[m - 1], <<custom, made[m]>>, prints[m])
      BY <1>1, <2>1, <2>2
    <2>5. QED
      BY <2>2, <2>3, <2>4
  <1>5. ASSUME NEW m \in 1..N
        PROVE  /\ m - 1 \in 0..N /\ m \in 0..N /\ prints[m] \in CallSet /\ made[m] \in CallSet
               /\ t[m].value = <<custom, made[m]>> /\ t[m].print = prints[m]
               /\ t[m].n = IF t[m - 1].value = <<custom, made[m]>> THEN t[m - 1].n + 1 ELSE 1
               /\ e[m].value = prints[m]
               /\ e[m].count = IF e[m - 1].value = prints[m] THEN e[m - 1].count + 1 ELSE 1
    <2>1. m - 1 \in 0..N /\ m \in 0..N /\ prints[m] \in CallSet /\ made[m] \in CallSet
      BY SMTT(30), <1>2
    <2>2. PICK before \in StreakSet, held \in ActiveSet : before = t[m - 1] /\ held = e[m - 1]
      BY <1>3, <1>4, <2>1
    <2>3. <<custom, made[m]>> \in Truths /\ prints[m] \in Values
      <3>1. <<custom, made[m]>> \in BOOLEAN \X CallSet
        BY <2>1
      <3>2. QED
        BY <2>1, <3>1 DEF Truths, Values
    <2>4. t[m] = Extend(before, <<custom, made[m]>>, prints[m]) /\ e[m] = Count(held, prints[m])
      BY <1>3, <1>4, <2>2
    <2>a. PICK value \in Truths, print \in Values : value = <<custom, made[m]>> /\ print = prints[m]
      BY <2>3
    <2>5. /\ t[m].value = <<custom, made[m]>> /\ t[m].print = prints[m]
          /\ t[m].n = IF before.value = <<custom, made[m]>> THEN before.n + 1 ELSE 1
      <3>0. before \in StreakSet /\ value \in Truths /\ print \in Values
        BY <2>2, <2>a
      <3>1. /\ Extend(before, value, print).value = value
            /\ Extend(before, value, print).print = print
            /\ Extend(before, value, print).n = IF before.value = value THEN before.n + 1 ELSE 1
        BY <3>0, ExtendFits
      <3>2. QED
        BY <2>4, <2>a, <3>1
    <2>6. /\ e[m].value = prints[m]
          /\ e[m].count = IF held.value = prints[m] THEN held.count + 1 ELSE 1
      BY <2>2, <2>3, <2>4, CountFits
    <2>7. QED
      BY <2>1, <2>2, <2>5, <2>6
  <1>6. N \in 1..N /\ N \in 0..N
    BY <1>2
  <1>7. Printed(t[N])
    <2>1. /\ t[N].value = <<custom, made[N]>> /\ t[N].print = responsesPrint(custom, made[N])
          /\ made[N] \in CallSet
      BY <1>2, <1>5, <1>6
    <2>2. PICK p \in BOOLEAN \X CallSet : p = <<custom, made[N]>>
      <3>1. <<custom, made[N]>> \in BOOLEAN \X CallSet
        BY <1>1, <2>1
      <3>2. QED
        BY <3>1
    <2>3. p[1] = custom /\ p[2] = made[N]
      BY <2>2
    <2>4. QED
      BY <1>1, <2>1, <2>2, <2>3 DEF Printed
  <1>8. ASSUME Agrees(s, old.value, old.count), ~Blurred(s, result)
        PROVE  Agrees(t[N], e[N].value, e[N].count)
    <2> DEFINE T == {m \in 0..N : t[m].n = e[m].count}
    <2>1. 0 \in T
      BY <1>3, <1>4, <1>8 DEF Agrees
    <2>2. ASSUME NEW m \in 1..N, m - 1 \in T PROVE m \in T
      <3>1. PICK before \in StreakSet, held \in ActiveSet :
                /\ before = t[m - 1] /\ held = e[m - 1] /\ before.n = held.count
        BY <1>3, <1>4, <1>5, <2>2
      <3>a. /\ t[m].n = IF before.value = <<custom, made[m]>> THEN before.n + 1 ELSE 1
            /\ e[m].count = IF held.value = prints[m] THEN held.count + 1 ELSE 1
            /\ m \in 0..N /\ prints[m] \in CallSet /\ made[m] \in CallSet
        BY <1>5, <3>1
      <3>2. CASE before.n > 0
        <4>1. CASE m = 1
          <5>1. before = s /\ held.value = s.print
            BY <1>3, <1>4, <1>8, <3>1, <3>2, <4>1 DEF Agrees
          <5>2. Head(prints) = prints[1] /\ Head(made) = made[1]
            BY <1>2
          <5>3. Route = "responses" /\ (custom \/ s.value[1]) /\ s.print = prints[1]
                    => s.value = <<custom, made[1]>>
            BY <1>1, <1>8, <5>2 DEF Blurred
          <5>4. s.value = <<custom, made[1]>> <=> s.print = prints[1]
            <6>1. s.n > 0 /\ made[1] \in CallSet /\ prints[1] = responsesPrint(custom, made[1])
              BY <1>2, <3>a, <3>2, <4>1, <5>1
            <6>2. custom \in BOOLEAN /\ (custom => Route = "responses")
              BY <1>1
            <6>3. QED
              BY <5>3, <6>1, <6>2, CallsAlike
          <5>5. QED
            BY <3>1, <3>a, <4>1, <5>1, <5>4
        <4>2. CASE m # 1
          <5>1. m - 1 \in 1..N /\ N > 1
            BY <4>2
          <5>2. ~custom
            BY <1>1, <1>2, <5>1
          <5>3. /\ before.value = <<custom, made[m - 1]>>
                /\ held.value = prints[m - 1] /\ prints[m - 1] = made[m - 1]
                /\ prints[m] = made[m]
            BY <1>2, <1>5, <3>1, <5>1, <5>2 DEF responsesPrint
          <5>4. before.value = <<custom, made[m]>> <=> held.value = prints[m]
            BY <5>3
          <5>5. QED
            BY <3>1, <3>a, <5>4
        <4>3. QED
          BY <4>1, <4>2
      <3>3. CASE ~(before.n > 0)
        <4>1. before.n = 0
          BY <3>1, <3>3 DEF StreakSet
        <4>2. QED
          BY <3>1, <3>a, <4>1
      <3>4. QED
        BY <3>2, <3>3
    <2>3. 0..N \subseteq T
      <3> HIDE DEF T
      <3>1. QED
        BY <2>1, <2>2, StepInduction
    <2>4. t[N].n = e[N].count /\ e[N].value = t[N].print
      BY <1>5, <1>6, <2>3
    <2>5. QED
      BY <2>4 DEF Agrees
  <1>9. QED
    BY <1>1, <1>3, <1>4, <1>7, <1>8

\* A reply that is refused when the client has it: its calls are lost.
LEMMA RefuteKeeps ==
  ASSUME Inv, Rep, NEW c \in Callers, ReceiveFrame(c), NEW f \in Frames(call[c].stream),
         NEW t, t = Sent(Inspect(call[c].stream, f), f), Refuted(t, f), Refute(c, t, f)
  PROVE  Rep'
  <1> DEFINE k == "tool_call"
  <1>1. PICK x \in HandlerSet : x = call[c] /\ Fits(x) /\ x.pc = "stream" /\ x.run \in Runs
    BY DEF Inv, Handlers, ReceiveFrame, Fits
  <1>2. PICK r \in Runs : r = x.run
    BY <1>1
  <1>3. k \in KindSet
    BY TheKinds
  <1>4. PICK s \in StreamSet : s = x.stream /\ work.streams /\ StreamOK(s)
    BY <1>1 DEF Fits, HandlerSet
  <1>5. t \in StreamSet /\ t.status = "provider_error" /\ t.prints = Arrivals(t.made)
        /\ (f.kind = "completedCustom" => Route = "responses" /\ t.status = "success")
    BY <1>1, <1>4, StreamStep DEF Inv
  <1>6. PICK ending : ending = Outcome(t, f)
    OBVIOUS
  <1>7. ending \in ResultSet /\ ~ending.custom /\ ending.made = t.prints
    BY <1>5, <1>6, OutcomeFields
  <1>8. PICK full \in ResultSet : /\ full = [ending EXCEPT !.prints = t.prints]
                                  /\ full.prints = t.prints /\ full.made = t.prints /\ ~full.custom
    <2>1. t.prints \in Seq(CallSet)
      BY <1>5 DEF StreamSet
    <2>2. PICK full : full = [ending EXCEPT !.prints = t.prints]
      OBVIOUS
    <2>3. full \in ResultSet /\ full.prints = t.prints /\ full.made = t.prints /\ ~full.custom
      BY <1>7, <2>1, <2>2 DEF ResultSet
    <2>4. QED
      BY <2>2, <2>3
  <1>9. PICK z \in StreakSet : z = streak[k][r] /\ Printed(z)
    BY <1>3 DEF Inv, History, Rep, CallsPrinted
  <1>10. PICK more : more = Repeat(z, full)
    OBVIOUS
  <1>11. /\ UNCHANGED <<work, repetition, reported>> /\ Conclude(c, "refuted", ending)
         /\ IF t.prints = <<>> THEN UNCHANGED <<streak, lost>>
            ELSE streak' = [streak EXCEPT ![k][r] = more] /\ Lose(k, r, TRUE)
    <2>1. UNCHANGED <<work, repetition, reported>>
      BY DEF ReceiveFrame
    <2>2. /\ Conclude(c, "refuted", ending)
          /\ IF t.prints = <<>> THEN UNCHANGED <<streak, lost>>
             ELSE /\ streak' = [streak EXCEPT ![k][r] = Repeat(streak[k][r], full)]
                  /\ Lose(k, r, TRUE)
      BY <1>1, <1>2, <1>6, <1>8 DEF Refute
    <2>3. QED
      BY <1>9, <1>10, <2>1, <2>2
  <1>12. CASE t.prints = <<>>
    BY <1>1, <1>11, <1>12, ConcludeKeeps
  <1>13. CASE t.prints # <<>>
    <2>1. streak' = [streak EXCEPT ![k][r] = more] /\ lost \subseteq lost' /\ <<k, r>> \in lost'
      BY <1>11, <1>13, LoseGrows
    <2>2. Printed(more)
      <3>1. PrintsOK(full)
        BY <1>8 DEF PrintsOK, responsesPrint
      <3>2. PICK old \in ActiveSet : old = EntryOf(k, r)
        BY <1>3, EntryActive DEF Inv
      <3>3. QED
        BY <1>8, <1>9, <1>10, <1>13, <3>1, <3>2, CallsCountedTruly
    <2>3. Moves(c) /\ call'[c].pc = "record"
      <3>1. PICK new : new = [x EXCEPT !.pc = "record", !.stream = NewStream, !.told = "refuted",
                                       !.result = ending, !.todo = Todo(ending)]
        OBVIOUS
      <3>2. new.pc = "record"
        BY <3>1 DEF HandlerSet
      <3>3. Becomes(c, new)
        BY <1>1, <1>11, <3>1 DEF Conclude
      <3>4. QED
        BY <1>1, <3>2, <3>3, BecomesMoves DEF Inv
    <2>4. UNCHANGED <<cache, order, saved>>
      BY <1>11 DEF repetition
    <2>5. ASSUME NEW l \in KindSet, NEW q \in Runs, <<l, q>> # <<k, r>>
          PROVE  streak'[l][q] = streak[l][q]
      BY <1>3, <2>1, <2>5 DEF Inv, History
    <2>6. Counted'
      <3>1. ASSUME NEW l \in KindSet, NEW q \in Runs, <<l, q>> # <<k, r>> PROVE Untouched(l, q)
        BY <2>3, <2>4, <2>5, <3>1, MovesSaves DEF Untouched
      <3>2. ASSUME NEW l \in KindSet, NEW q \in Runs, <<l, q>> \notin lost' PROVE Sure(l, q)'
        <4>1. <<l, q>> # <<k, r>> /\ <<l, q>> \notin lost
          BY <2>1, <3>2
        <4>2. QED
          BY <3>1, <4>1, StaysSure DEF Rep, Counted
      <3>3. QED
        BY <3>2 DEF Counted
    <2>7. OneNewest'
      BY <2>3, MovesSaves DEF Rep, OneNewest
    <2>8. CallsPrinted'
      <3>1. ASSUME NEW q \in Runs PROVE Printed(streak'[k][q])
        <4>1. streak'[k][q] = IF q = r THEN more ELSE streak[k][q]
          BY <1>3, <2>1 DEF Inv, History
        <4>2. QED
          BY <2>2, <4>1 DEF Rep, CallsPrinted
      <3>2. QED
        BY <1>11, <3>1 DEF CallsPrinted, Printed, Route
    <2>9. SeenReported'
      BY <1>11, <2>4 DEF Rep, SeenReported
    <2>10. FillsTrue'
      BY <2>1, <2>3, FillsStay DEF Rep, Moves, FillTrue
    <2>11. QED
      BY <2>6, <2>7, <2>8, <2>9, <2>10 DEF Rep
  <1>14. QED
    BY <1>12, <1>13

LEMMA ProviderKeeps == ASSUME Inv, Rep, NEW c \in Callers, Provider(c) PROVE Rep'
  <1>1. CASE NoAnswer(c)
    <2>1. PICK told, result : Conclude(c, told, result)
      BY <1>1 DEF NoAnswer
    <2>2. QED
      BY <1>1, <2>1, ConcludeKeeps DEF NoAnswer
  <1>2. CASE WholeReply(c)
    <2>1. PICK told, result : Conclude(c, told, result)
      BY <1>2 DEF WholeReply
    <2>2. QED
      BY <1>2, <2>1, ConcludeKeeps DEF WholeReply
  <1>3. CASE ReceiveFrame(c)
    <2>1. PICK f \in Frames(call[c].stream) : \E t \in {Sent(Inspect(call[c].stream, f), f)} :
              \/ /\ \/ \E told, result : Conclude(c, told, result)
                    \/ Becomes(c, [call[c] EXCEPT !.stream = t])
                 /\ UNCHANGED <<streak, lost>>
              \/ Refuted(t, f) /\ Refute(c, t, f)
      BY <1>3 DEF ReceiveFrame
    <2>2. CASE (\E told, result : Conclude(c, told, result)) /\ UNCHANGED <<streak, lost>>
      BY <1>3, <2>2, ConcludeKeeps DEF ReceiveFrame
    <2>3. CASE (\E s : Becomes(c, [call[c] EXCEPT !.stream = s])) /\ UNCHANGED <<streak, lost>>
      <3>1. PICK x \in HandlerSet : x = call[c] /\ x.pc = "stream"
        BY <1>3 DEF Inv, Handlers, ReceiveFrame
      <3>2. PICK s : Becomes(c, [x EXCEPT !.stream = s])
        BY <2>3, <3>1
      <3>3. PICK new : new = [x EXCEPT !.stream = s]
        OBVIOUS
      <3>4. new.pc = "stream"
        BY <3>1, <3>3 DEF HandlerSet
      <3>5. QED
        BY <1>3, <2>3, <3>1, <3>2, <3>3, <3>4, QuietKeeps DEF ReceiveFrame
    <2>4. ASSUME NEW t, t = Sent(Inspect(call[c].stream, f), f), Refuted(t, f), Refute(c, t, f)
          PROVE  Rep'
      BY <1>3, <2>4, RefuteKeeps
    <2>5. QED
      BY <2>1, <2>2, <2>3, <2>4
  <1>4. CASE Cut(c) \/ Leave(c)
    <2>1. PICK told, result : Conclude(c, told, result)
      BY <1>4 DEF Cut, Leave
    <2>2. call[c].pc = "stream" /\ UNCHANGED <<work, repetition, streak, reported, lost>>
      BY <1>4 DEF Cut, Leave
    <2>3. QED
      BY <2>1, <2>2, ConcludeKeeps
  <1>5. CASE Open(c)
    BY <1>5, OpenKeeps
  <1>6. QED
    BY <1>1, <1>2, <1>3, <1>4, <1>5 DEF Provider

-----------------------------------------------------------------------------
\* Checks that read a row.

\* The row of a sequence that is not lost, when nobody is about to save it.
LEMMA RowIsTrue ==
  ASSUME Rep, NEW k \in KindSet, NEW r \in Runs, <<k, r>> \notin lost,
         ~\E d \in Callers : Saving(d, k, r)
  PROVE  Agrees(streak[k][r], saved[k][r].value, saved[k][r].count)
  BY DEF Rep, Counted, Sure, RowTrue, SavesNewest

LEMMA CheckSavedKeeps == ASSUME Inv, Rep, NEW c \in Callers, CheckSaved(c) PROVE Rep'
  <1>1. PICK x \in HandlerSet : x = call[c] /\ Fits(x) /\ x.pc = "check" /\ x.run \in Runs
    BY DEF Inv, Handlers, CheckSaved, Fits
  <1>2. PICK k \in KindSet : k = Kinds[x.kind]
    BY <1>1, TheKinds DEF HandlerSet
  <1>3. PICK row, due : row = saved[k][x.run] /\ due = Due(k, x.run)
    OBVIOUS
  <1>4. PICK fill : fill = [x EXCEPT !.pc = "fill", !.row = row, !.due = due]
    OBVIOUS
  <1>5. /\ fill.pc = "fill" /\ fill.run = x.run /\ fill.kind = x.kind /\ fill.row = row
        /\ fill.due = due
    BY <1>4 DEF HandlerSet
  <1>6. UNCHANGED <<work, repetition, streak, reported>>
    BY DEF CheckSaved
  <1>7. lost \subseteq lost' /\ (Becomes(c, Pass(x)) \/ Becomes(c, fill))
    <2>1. PICK when : Lose(k, x.run, when)
      BY <1>1, <1>2 DEF CheckSaved
    <2>2. QED
      BY <1>1, <1>2, <1>3, <1>4, <2>1, LoseGrows DEF CheckSaved
  <1>8. CASE Becomes(c, Pass(x))
    <2>1. PICK new : new = Pass(x) /\ new.pc \in {"check", "policy"}
      BY <1>1, Passed
    <2>2. Moves(c) /\ call'[c] = new
      BY <1>1, <1>8, <2>1, BecomesMoves DEF Inv
    <2>3. QED
      BY <1>6, <1>7, <2>1, <2>2, MovesKeeps DEF FillTrue
  <1>9. CASE ~Becomes(c, Pass(x))
    <2>1. Moves(c) /\ call'[c] = fill
      BY <1>1, <1>5, <1>7, <1>9, BecomesMoves DEF Inv
    <2>2. ASSUME <<k, x.run>> \notin lost' PROVE due <=> row.count >= Threshold
      <3>1. ~\E d \in Callers : Saving(d, k, x.run)
        BY <1>1, <1>2, <1>9, <2>2, LoseGrows DEF CheckSaved
      <3>2. Agrees(streak[k][x.run], row.value, row.count)
        BY <1>1, <1>3, <1>7, <2>2, <3>1, RowIsTrue
      <3>3. QED
        BY <1>3, <3>2 DEF Agrees, Due
    <2>3. FillTrue(call[c])'
      BY <1>2, <1>5, <2>1, <2>2 DEF FillTrue
    <2>4. QED
      BY <1>6, <1>7, <2>1, <2>3, MovesKeeps
  <1>10. QED
    BY <1>8, <1>9

\* What is put into a cache: one entry comes, another one may leave.
LEMMA PutsOne ==
  ASSUME Caches, NEW k \in KindSet, NEW r \in Runs, NEW entry, Put(k, r, entry)
  PROVE  /\ cache'[k][r] = entry
         /\ \A q \in Runs : q # r => cache'[k][q] \in {cache[k][q], NoEntry}
         /\ \A j \in KindSet : j # k => cache'[j] = cache[j]
  <1>1. PICK new \in {[q \in Runs |-> IF q = r THEN entry
                          ELSE IF (~Cached(k, r) /\ Len(order[k]) >= MaxRuns) /\ q = Head(order[k])
                          THEN NoEntry ELSE cache[k][q]]} : cache' = [cache EXCEPT ![k] = new]
    BY DEF Put
  <1>2. /\ new[r] = entry
        /\ \A q \in Runs : q # r => new[q] \in {cache[k][q], NoEntry}
    BY <1>1
  <1>3. cache'[k] = new /\ \A j \in KindSet : j # k => cache'[j] = cache[j]
    BY <1>1 DEF Caches
  <1>4. QED
    BY <1>2, <1>3

LEMMA FillCacheKeeps == ASSUME Inv, Rep, NEW c \in Callers, FillCache(c) PROVE Rep'
  <1>1. PICK x \in HandlerSet : x = call[c] /\ Fits(x) /\ x.pc = "fill" /\ x.run \in Runs
    BY DEF Inv, Handlers, FillCache, Fits
  <1>2. PICK k \in KindSet : k = Kinds[x.kind]
    BY <1>1, TheKinds DEF HandlerSet
  <1>3. PICK r \in Runs : r = x.run
    BY <1>1
  <1>4. Moves(c) /\ FillTrue(call[c])'
    <2>1. PICK y \in HandlerSet : y = Decide(x, x.row.count)
                                  /\ y.pc \in {"blocked", "check", "policy"}
      BY <1>1, Decided
    <2>2. PICK new : new = [y EXCEPT !.row = NoRow, !.due = FALSE]
      OBVIOUS
    <2>3. new.pc = y.pc
      BY <2>1, <2>2 DEF HandlerSet
    <2>4. Becomes(c, new)
      BY <1>1, <2>1, <2>2 DEF FillCache
    <2>5. QED
      BY <1>1, <2>1, <2>3, <2>4, BecomesMoves DEF Inv, FillTrue
  <1>5. UNCHANGED <<work, saved, streak, reported>>
    BY DEF FillCache
  <1>6. /\ lost \subseteq lost'
        /\ ~Cached(k, r) /\ (saved[k][r] # x.row \/ \E d \in Callers : Saving(d, k, r))
             => <<k, r>> \in lost'
    BY <1>1, <1>2, <1>3, LoseGrows DEF FillCache
  <1>7. CASE Cached(k, r)
    <2>1. UNCHANGED repetition
      BY <1>1, <1>2, <1>3, <1>5, <1>7 DEF FillCache, Fill, repetition
    <2>2. QED
      BY <1>4, <1>5, <1>6, <2>1, MovesKeeps
  <1>8. CASE ~Cached(k, r)
    <2>1. PICK value : value = IF k = "tool_error" THEN None ELSE x.row.value
      OBVIOUS
    <2>2. PICK entry : entry = [Zero EXCEPT !.count = x.row.count, !.value = value]
      OBVIOUS
    <2>3. entry.count = x.row.count /\ entry.value = value /\ entry.seen = <<>>
      BY <2>2, Entries DEF EntrySet
    <2>4. Put(k, r, entry)
      BY <1>1, <1>2, <1>3, <1>8, <2>1, <2>2 DEF FillCache, Fill
    <2>5. /\ cache'[k][r] = entry
          /\ \A q \in Runs : q # r => cache'[k][q] \in {cache[k][q], NoEntry}
          /\ \A j \in KindSet : j # k => cache'[j] = cache[j]
      BY <2>4, PutsOne DEF Inv
    <2>6. ASSUME NEW j \in KindSet, NEW q \in Runs, <<j, q>> # <<k, r>> PROVE Untouched(j, q)
      <3>1. cache'[j][q] \in {cache[j][q], NoEntry}
        BY <2>5, <2>6
      <3>2. QED
        BY <1>4, <1>5, <3>1, MovesSaves DEF Untouched
    <2>7. ASSUME <<k, r>> \notin lost' PROVE Sure(k, r)'
      <3>1. /\ <<k, r>> \notin lost /\ saved[k][r] = x.row
            /\ ~\E d \in Callers : Saving(d, k, r)
        BY <1>6, <1>8, <2>7
      <3>2. Agrees(streak[k][r], x.row.value, x.row.count)
        BY <3>1, RowIsTrue
      <3>3. CacheTrue(k, r)'
        BY <1>5, <2>1, <2>3, <2>5, <3>2 DEF CacheTrue, Agrees
      <3>4. RowTrue(k, r)'
        BY <1>5, <3>1, <3>2 DEF RowTrue
      <3>5. ~\E d \in Callers : SavesNewest(d, k, r)'
        BY <1>4, <3>1, MovesSaves DEF SavesNewest
      <3>6. PendingTrue(k, r)'
        BY <3>5 DEF PendingTrue
      <3>7. PrintTrue(k, streak[k][r])'
        BY <1>5, <3>1 DEF PrintTrue, Rep, Counted, Sure
      <3>8. QED
        BY <3>3, <3>4, <3>6, <3>7 DEF Sure
    <2>8. Counted'
      <3>1. ASSUME NEW j \in KindSet, NEW q \in Runs PROVE <<j, q>> \in lost' \/ Sure(j, q)'
        <4>1. CASE <<j, q>> = <<k, r>>
          BY <2>7, <4>1
        <4>2. CASE <<j, q>> # <<k, r>>
          BY <1>6, <2>6, <4>2, StaysSure DEF Rep, Counted
        <4>3. QED
          BY <4>1, <4>2
      <3>2. QED
        BY <3>1 DEF Counted
    <2>9. SeenReported'
      <3>1. ASSUME NEW q \in Runs
            PROVE  \A i \in 1..Len(cache'["tool_error"][q].seen) :
                      <<q, cache'["tool_error"][q].seen[i]>> \in reported
        <4>1. \/ cache'["tool_error"][q] = cache["tool_error"][q]
              \/ cache'["tool_error"][q].seen = <<>>
          BY <2>3, <2>5, TheKinds, Entries
        <4>2. Len(<<>>) = 0
          OBVIOUS
        <4>3. QED
          BY <4>1, <4>2 DEF Rep, SeenReported
      <3>2. QED
        BY <1>5, <3>1 DEF SeenReported
    <2>10. OneNewest'
      BY <1>4, MovesSaves DEF Rep, OneNewest
    <2>11. CallsPrinted'
      BY <1>5 DEF Rep, CallsPrinted, Printed, Route
    <2>12. FillsTrue'
      BY <1>4, <1>6, FillsStay DEF Rep, Moves
    <2>13. QED
      BY <2>8, <2>9, <2>10, <2>11, <2>12 DEF Rep
  <1>9. QED
    BY <1>7, <1>8

-----------------------------------------------------------------------------
\* What is recorded.

\* A handler takes a count, and what others are about to save is late.
LEMMA RecordedSaves ==
  ASSUME Handlers, NEW c \in Callers, NEW k, NEW r, NEW new, Recorded(c, k, r, new),
         call[c].pc # "save", lost \subseteq lost'
  PROVE  /\ call'[c] = new
         /\ \A d \in Callers \ {c} : ~SavesNewest(d, k, r)'
         /\ \A d \in Callers \ {c} : \A j, q : <<j, q>> # <<k, r>> =>
               /\ SavesNewest(d, j, q)' <=> SavesNewest(d, j, q)
               /\ call'[d].pending = call[d].pending
         /\ \A d \in Callers \ {c} : FillTrue(call[d]) => FillTrue(call[d])'
  <1>1. call'[c] = new
    BY DEF Recorded
  <1>2. ASSUME NEW d \in Callers \ {c}
        PROVE  /\ call'[d].pc = call[d].pc /\ call'[d].run = call[d].run
               /\ call'[d].todo = call[d].todo /\ call'[d].pending = call[d].pending
               /\ call'[d].kind = call[d].kind /\ call'[d].row = call[d].row
               /\ call'[d].due = call[d].due
               /\ call'[d].late = (call[d].late \/ Saving(d, k, r))
    <2>1. PICK x \in HandlerSet : x = call[d]
      BY DEF Handlers
    <2>2. PICK late : late = (x.late \/ Saving(d, k, r))
      OBVIOUS
    <2>3. call'[d] = [x EXCEPT !.late = late]
      BY <2>1, <2>2 DEF Recorded
    <2>4. QED
      BY <2>1, <2>2, <2>3 DEF HandlerSet
  <1>3. ASSUME NEW d \in Callers \ {c}, NEW j, NEW q
        PROVE  /\ Saving(d, j, q)' <=> Saving(d, j, q)
               /\ SavesNewest(d, j, q)' <=> SavesNewest(d, j, q) /\ ~Saving(d, k, r)
    BY <1>2 DEF SavesNewest, Saving
  <1>4. ASSUME NEW d \in Callers \ {c} PROVE ~SavesNewest(d, k, r)'
    BY <1>3 DEF SavesNewest
  <1>5. ASSUME NEW d \in Callers \ {c}, NEW j, NEW q, <<j, q>> # <<k, r>>
        PROVE  SavesNewest(d, j, q)' <=> SavesNewest(d, j, q)
    <2>1. ~(Saving(d, j, q) /\ Saving(d, k, r))
      BY <1>5 DEF Saving
    <2>2. QED
      BY <1>3, <2>1 DEF SavesNewest
  <1>6. ASSUME NEW d \in Callers \ {c}, FillTrue(call[d])
        PROVE  FillTrue(call[d])'
    BY <1>2, <1>6 DEF FillTrue
  <1>7. QED
    BY <1>1, <1>2, <1>4, <1>5, <1>6

LEMMA RecordedKeeps ==
  ASSUME Inv, Rep, NEW c \in Callers, NEW k \in KindSet, NEW r \in Runs, NEW new, NEW entry,
         NEW more, call[c].pc # "save", Recorded(c, k, r, new), Put(k, r, entry),
         new.pc = "save", new.run = r, Head(new.todo) = k, ~new.late,
         new.pending.value = entry.value, new.pending.count = entry.count,
         streak' = [streak EXCEPT ![k][r] = more], UNCHANGED saved, lost \subseteq lost',
         \/ <<k, r>> \in lost'
         \/ Agrees(more, entry.value, entry.count) /\ PrintTrue(k, more)
  PROVE  Counted' /\ OneNewest' /\ FillsTrue'
  <1>1. /\ call'[c] = new
        /\ \A d \in Callers \ {c} : ~SavesNewest(d, k, r)'
        /\ \A d \in Callers \ {c} : \A j, q : <<j, q>> # <<k, r>> =>
              /\ SavesNewest(d, j, q)' <=> SavesNewest(d, j, q)
              /\ call'[d].pending = call[d].pending
        /\ \A d \in Callers \ {c} : FillTrue(call[d]) => FillTrue(call[d])'
    BY RecordedSaves DEF Inv
  <1>2. /\ cache'[k][r] = entry
        /\ \A q \in Runs : q # r => cache'[k][q] \in {cache[k][q], NoEntry}
        /\ \A j \in KindSet : j # k => cache'[j] = cache[j]
    BY PutsOne DEF Inv
  <1>3. /\ streak'[k][r] = more
        /\ \A j \in KindSet, q \in Runs : <<j, q>> # <<k, r>> => streak'[j][q] = streak[j][q]
    BY DEF Inv, History
  <1>4. ASSUME NEW d \in Callers PROVE SavesNewest(d, k, r)' <=> d = c
    BY <1>1 DEF SavesNewest, Saving
  <1>5. ASSUME NEW d \in Callers, NEW j \in KindSet, NEW q \in Runs, <<j, q>> # <<k, r>>
        PROVE  /\ SavesNewest(d, j, q)' <=> SavesNewest(d, j, q)
               /\ SavesNewest(d, j, q) => call'[d].pending = call[d].pending
    <2>1. CASE d = c
      BY <1>1, <1>5, <2>1 DEF SavesNewest, Saving
    <2>2. CASE d # c
      BY <1>1, <1>5, <2>2
    <2>3. QED
      BY <2>1, <2>2
  <1>6. ASSUME NEW j \in KindSet, NEW q \in Runs, <<j, q>> # <<k, r>> PROVE Untouched(j, q)
    <2>1. cache'[j][q] \in {cache[j][q], NoEntry}
      BY <1>2, <1>6
    <2>2. QED
      BY <1>3, <1>5, <1>6, <2>1 DEF Untouched
  <1>7. ASSUME <<k, r>> \notin lost' PROVE Sure(k, r)'
    <2>1. Agrees(more, entry.value, entry.count) /\ PrintTrue(k, more)
      BY <1>7
    <2>2. CacheTrue(k, r)'
      BY <1>2, <1>3, <2>1 DEF CacheTrue, Agrees
    <2>3. RowTrue(k, r)'
      BY <1>4 DEF RowTrue
    <2>4. PendingTrue(k, r)'
      BY <1>1, <1>3, <1>4, <2>1 DEF PendingTrue, Agrees
    <2>5. PrintTrue(k, streak[k][r])'
      BY <1>3, <2>1 DEF PrintTrue
    <2>6. QED
      BY <2>2, <2>3, <2>4, <2>5 DEF Sure
  <1>8. Counted'
    <2>1. ASSUME NEW j \in KindSet, NEW q \in Runs PROVE <<j, q>> \in lost' \/ Sure(j, q)'
      <3>1. CASE <<j, q>> = <<k, r>>
        BY <1>7, <3>1
      <3>2. CASE <<j, q>> # <<k, r>>
        BY <1>6, <3>2, StaysSure DEF Rep, Counted
      <3>3. QED
        BY <3>1, <3>2
    <2>2. QED
      BY <2>1 DEF Counted
  <1>9. OneNewest'
    <2>1. ASSUME NEW j \in KindSet, NEW q \in Runs, NEW d \in Callers, NEW e \in Callers,
                 SavesNewest(d, j, q)', SavesNewest(e, j, q)'
          PROVE  d = e
      <3>1. CASE <<j, q>> = <<k, r>>
        BY <1>4, <2>1, <3>1
      <3>2. CASE <<j, q>> # <<k, r>>
        BY <1>5, <2>1, <3>2 DEF Rep, OneNewest
      <3>3. QED
        BY <3>1, <3>2
    <2>2. QED
      BY <2>1 DEF OneNewest
  <1>10. FillsTrue'
    <2>1. FillTrue(call[c])'
      BY <1>1 DEF FillTrue
    <2>2. QED
      BY <1>1, <2>1 DEF Rep, FillsTrue
  <1>11. QED
    BY <1>8, <1>9, <1>10

\* What the engine knows of a sequence before it counts on.
LEMMA BeforeCount ==
  ASSUME Inv, Rep, NEW k \in KindSet, NEW r \in Runs, <<k, r>> \notin lost, ~CountsAfresh(k, r),
         NEW old, old = EntryOf(k, r), k = "tool_error" => ~(old.count > 0 /\ old.value = None)
  PROVE  Agrees(streak[k][r], old.value, old.count) /\ PrintTrue(k, streak[k][r])
  <1>1. CacheTrue(k, r) /\ PrintTrue(k, streak[k][r])
    BY DEF Rep, Counted, Sure
  <1>2. PICK s \in StreakSet : s = streak[k][r] /\ s.n \in Nat
    BY DEF Inv, History, StreakSet
  <1>3. CASE Cached(k, r)
    BY <1>1, <1>2, <1>3 DEF EntryOf, CacheTrue, Agrees
  <1>4. CASE ~Cached(k, r)
    <2>1. old.count = 0
      BY <1>4, Entries DEF EntryOf
    <2>2. s.n = 0
      BY <1>2, <1>4 DEF CountsAfresh
    <2>3. QED
      BY <1>1, <1>2, <2>1, <2>2 DEF Agrees
  <1>5. QED
    BY <1>1, <1>3, <1>4

\* Results of tools do not have to do with what else is recorded.
LEMMA OthersSeen ==
  ASSUME Inv, Rep, NEW k \in KindSet, k # "tool_error", NEW r \in Runs, NEW entry,
         Put(k, r, entry), UNCHANGED reported
  PROVE  SeenReported'
  <1>1. cache'["tool_error"] = cache["tool_error"]
    BY PutsOne, TheKinds DEF Inv
  <1>2. QED
    BY <1>1 DEF Rep, SeenReported

\* The outcome of a request: a success ends a sequence of errors, and an error
\* that is not confused with another one goes on with it.
LEMMA RecordOutcomeKeeps == ASSUME Inv, Rep, NEW c \in Callers, RecordOutcome(c) PROVE Rep'
  <1> DEFINE k == "provider_error"
  <1>1. PICK x \in HandlerSet : /\ x = call[c] /\ Fits(x) /\ x.pc = "record" /\ x.todo # <<>>
                                /\ Head(x.todo) = k /\ x.run \in Runs
    BY DEF Inv, Handlers, RecordOutcome, Fits
  <1>2. PICK result \in ResultSet : result = x.result /\ ResultFits(x.told, result)
                                    /\ TodoFits(x.todo, result)
    BY <1>1 DEF HandlerSet, Fits
  <1>3. PICK r \in Runs : r = x.run
    BY <1>1
  <1>4. k \in KindSet
    BY TheKinds
  <1>5. PICK old \in ActiveSet : old = EntryOf(k, r)
    BY <1>4, EntryActive DEF Inv
  <1>6. PICK code \in Values, fault \in Values : code = result.code /\ fault = result.fault
    BY <1>2 DEF ResultSet, Values
  <1>7. PICK s \in StreakSet : s = streak[k][r]
    BY <1>4 DEF Inv, History
  <1>8. PICK entry, more, new :
            /\ entry = RecordProviderOutcome(old, result.status, code)
            /\ more = IF result.status = "success" THEN NoStreak
                      ELSE IF fault = <<"cancelled">> THEN s ELSE Extend(s, fault, code)
            /\ new = [x EXCEPT !.pc = "save", !.pending = Row(entry)]
    OBVIOUS
  <1>9. /\ Put(k, r, entry) /\ Recorded(c, k, r, new)
        /\ Lose(k, r, CountsAfresh(k, r) \/ Confused(result))
        /\ UNCHANGED <<work, saved, reported>>
    BY <1>1, <1>2, <1>3, <1>5, <1>6, <1>8 DEF RecordOutcome
  <1>10. streak' = [streak EXCEPT ![k][r] = more]
    <2>1. streak' = [streak EXCEPT ![k][r] =
               IF result.status = "success" THEN NoStreak
               ELSE IF result.fault = <<"cancelled">> THEN streak[k][r]
               ELSE Extend(streak[k][r], result.fault, result.code)]
      BY <1>1, <1>2, <1>3 DEF RecordOutcome
    <2>2. QED
      BY <1>6, <1>7, <1>8, <2>1
  <1>11. /\ new.pc = "save" /\ new.run = r /\ new.todo = x.todo /\ ~new.late
         /\ new.pending.value = entry.value /\ new.pending.count = entry.count
    <2>1. ~x.late
      BY <1>1 DEF Fits
    <2>2. new.pending = Row(entry) /\ new.pc = "save" /\ new.run = x.run /\ new.todo = x.todo
          /\ new.late = x.late
      BY <1>8 DEF HandlerSet
    <2>3. QED
      BY <1>3, <2>1, <2>2 DEF Row
  <1>12. ASSUME <<k, r>> \notin lost' PROVE Agrees(more, entry.value, entry.count) /\ PrintTrue(k, more)
    <2>1. <<k, r>> \notin lost /\ ~CountsAfresh(k, r) /\ ~Confused(result)
      BY <1>9, <1>12, LoseGrows
    <2>2. Agrees(s, old.value, old.count) /\ PrintTrue(k, s)
      BY <1>4, <1>5, <1>7, <2>1, BeforeCount
    <2>3. CASE result.status = "success"
      BY <1>8, <2>3, Entries DEF RecordProviderOutcome, NoStreak, Agrees, PrintTrue
    <2>4. CASE result.status # "success"
      <3>1. result.status \in {"provider_error", "transport_error"}
        <4>1. PICK todo \in Seq(KindSet) : todo = x.todo /\ todo # <<>>
          BY <1>1 DEF HandlerSet
        <4>2. 1 \in 1..Len(todo) /\ todo[1] = k
          BY <1>1, <4>1
        <4>3. QED
          BY <1>2, <2>4, <4>1, <4>2 DEF TodoFits
      <3>2. fault = code /\ code # <<"cancelled">>
        BY <1>2, <1>6, <2>1, <3>1 DEF ResultFits
      <3>3. more = Extend(s, code, code) /\ entry = Count(old, code)
        BY <1>8, <2>4, <3>2 DEF RecordProviderOutcome
      <3>4. /\ entry.count = IF old.value = code THEN old.count + 1 ELSE 1
            /\ entry.value = code
        BY <1>5, <3>3, CountFits
      <3>5. /\ more.n = IF s.value = code THEN s.n + 1 ELSE 1
            /\ more.value = code /\ more.print = code
        <4>1. code \in Truths
          BY DEF Truths
        <4>2. QED
          BY <3>3, <4>1, ExtendFits
      <3>6. entry.count = more.n
        <4>1. CASE s.n > 0
          BY <2>2, <3>4, <3>5, <4>1 DEF Agrees, PrintTrue
        <4>2. CASE ~(s.n > 0)
          <5>1. s.n = 0 /\ old.count = 0
            BY <2>2, <4>2 DEF Agrees, StreakSet
          <5>2. QED
            BY <3>4, <3>5, <5>1
        <4>3. QED
          BY <4>1, <4>2
      <3>7. QED
        BY <3>4, <3>5, <3>6 DEF Agrees, PrintTrue
    <2>5. QED
      BY <2>3, <2>4
  <1>13. Counted' /\ OneNewest' /\ FillsTrue'
    <2>1. lost \subseteq lost'
      BY <1>9, LoseGrows
    <2>2. call[c].pc # "save" /\ Head(new.todo) = k
      BY <1>1, <1>11
    <2> HIDE DEF k
    <2>3. QED
      BY <1>4, <1>9, <1>10, <1>11, <1>12, <2>1, <2>2, RecordedKeeps
  <1>14. SeenReported'
    BY <1>4, <1>9, OthersSeen
  <1>15. CallsPrinted'
    <2>1. streak'["tool_call"] = streak["tool_call"]
      BY <1>10, TheKinds DEF Inv, History
    <2>2. QED
      BY <1>9, <2>1 DEF Rep, CallsPrinted, Printed, Route
  <1>16. QED
    BY <1>13, <1>14, <1>15 DEF Rep

\* The result of a tool: one that the entry has seen is no news, and one that
\* comes again otherwise makes the sequence a lost one.
LEMMA ReportResultKeeps == ASSUME Inv, Rep, NEW c \in Callers, ReportResult(c) PROVE Rep'
  <1> DEFINE k == "tool_error"
  <1>0. PICK r \in work.runs, id \in ResultIds, result \in ToolErrors \cup {"success"} :
            LET before == EntryOf(k, r)
                after == RecordToolResult(before, id, result)
            IN  /\ Put(k, r, after)
                /\ IF Contains(before.seen, id) THEN UNCHANGED call
                   ELSE Recorded(c, k, r, [Idle EXCEPT !.pc = "save", !.run = r, !.todo = <<k>>,
                                                       !.pending = Row(after)])
                /\ streak' = [streak EXCEPT ![k][r] =
                       IF <<r, id>> \in reported THEN @ ELSE IF result = "success" THEN NoStreak
                       ELSE Extend(@, result, result)]
                /\ Lose(k, r, \/ CountsAfresh(k, r)
                              \/ <<r, id>> \in reported /\ ~Contains(before.seen, id)
                              \/ before.count > 0 /\ before.value = None)
                /\ reported' = reported \cup {<<r, id>>}
    BY DEF ReportResult
  <1>1. r \in Runs /\ k \in KindSet /\ call[c].pc = "idle" /\ UNCHANGED saved
    BY TheKinds DEF Inv, WorkSet, ReportResult
  <1>2. PICK old \in ActiveSet : old = EntryOf(k, r) /\ Len(old.seen) <= MaxSeen
    BY <1>1, EntryActive DEF Inv
  <1>3. PICK s \in StreakSet : s = streak[k][r]
    BY <1>1 DEF Inv, History
  <1>4. PICK entry, more, again :
            /\ entry = RecordToolResult(old, id, result) /\ again = (<<r, id>> \in reported)
            /\ more = IF again THEN s ELSE IF result = "success" THEN NoStreak
                      ELSE Extend(s, result, result)
    OBVIOUS
  <1>5. /\ Put(k, r, entry) /\ streak' = [streak EXCEPT ![k][r] = more]
        /\ reported' = reported \cup {<<r, id>>} /\ lost \subseteq lost'
        /\ <<k, r>> \notin lost' =>
              /\ ~CountsAfresh(k, r) /\ ~(again /\ ~Contains(old.seen, id))
              /\ ~(old.count > 0 /\ old.value = None)
    <2>1. streak' = [streak EXCEPT ![k][r] =
               IF <<r, id>> \in reported THEN streak[k][r]
               ELSE IF result = "success" THEN NoStreak
               ELSE Extend(streak[k][r], result, result)]
      BY <1>0
    <2>2. streak' = [streak EXCEPT ![k][r] = more]
      BY <1>3, <1>4, <2>1
    <2>3. Lose(k, r, \/ CountsAfresh(k, r)
                     \/ again /\ ~Contains(old.seen, id)
                     \/ old.count > 0 /\ old.value = None)
      BY <1>0, <1>2, <1>4
    <2>4. QED
      BY <1>0, <1>2, <1>4, <2>2, <2>3, LoseGrows
  <1>6. work'.route = work.route
    BY WorkDone DEF Inv, ReportResult
  <1>7. /\ cache'[k][r] = entry
        /\ \A q \in Runs : q # r => cache'[k][q] \in {cache[k][q], NoEntry}
        /\ \A j \in KindSet : j # k => cache'[j] = cache[j]
    BY <1>1, <1>5, PutsOne DEF Inv
  <1>8. /\ entry \in ActiveSet
        /\ IF Contains(old.seen, id) THEN entry = old
           ELSE /\ \A n \in 1..Len(entry.seen) :
                      entry.seen[n] = id \/ \E i \in 1..Len(old.seen) : entry.seen[n] = old.seen[i]
                /\ entry.value = result
                /\ entry.count = IF result = "success" THEN 0
                                 ELSE IF old.value = result THEN old.count + 1 ELSE 1
    BY <1>2, <1>4, ResultCounted
  <1>9. \A i \in 1..Len(old.seen) : <<r, old.seen[i]>> \in reported
    <2>1. CASE Cached(k, r)
      BY <1>1, <1>2, <2>1 DEF EntryOf, Rep, SeenReported
    <2>2. CASE ~Cached(k, r)
      <3>1. old.seen = <<>> /\ Len(<<>>) = 0
        BY <1>2, <2>2, Entries DEF EntryOf
      <3>2. QED
        BY <3>1
    <2>3. QED
      BY <2>1, <2>2
  <1>10. SeenReported'
    <2>1. ASSUME NEW q \in Runs, NEW i \in 1..Len(cache'[k][q].seen)
          PROVE  <<q, cache'[k][q].seen[i]>> \in reported'
      <3>1. CASE q = r
        <4>1. CASE Contains(old.seen, id)
          BY <1>5, <1>7, <1>8, <1>9, <2>1, <3>1, <4>1
        <4>2. CASE ~Contains(old.seen, id)
          <5>1. \/ entry.seen[i] = id
                \/ \E n \in 1..Len(old.seen) : entry.seen[i] = old.seen[n]
            BY <1>7, <1>8, <2>1, <3>1, <4>2
          <5>2. QED
            BY <1>5, <1>7, <1>9, <3>1, <5>1
        <4>3. QED
          BY <4>1, <4>2
      <3>2. CASE q # r /\ cache'[k][q] = cache[k][q]
        BY <1>5, <2>1, <3>2 DEF Rep, SeenReported
      <3>3. CASE q # r /\ cache'[k][q] = NoEntry
        <4>1. Len(cache'[k][q].seen) = 0
          BY <3>3, Entries
        <4>2. QED
          BY <2>1, <4>1
      <3>4. QED
        BY <1>7, <3>1, <3>2, <3>3
    <2>2. QED
      BY <2>1 DEF SeenReported
  <1>11. CallsPrinted'
    <2>1. streak'["tool_call"] = streak["tool_call"]
      BY <1>5, TheKinds DEF Inv, History
    <2>2. QED
      BY <1>6, <2>1 DEF Rep, CallsPrinted, Printed, Route
  <1>12. CASE Contains(old.seen, id)
    <2>1. again
      <3>1. PICK i \in 1..Len(old.seen) : old.seen[i] = id
        BY <1>12 DEF Contains
      <3>2. QED
        BY <1>4, <1>9, <3>1
    <2>2. UNCHANGED call
      BY <1>0, <1>2, <1>12
    <2>3. UNCHANGED streak
      BY <1>3, <1>4, <1>5, <2>1 DEF Inv, History
    <2>4. cache'[k][r] = cache[k][r]
      <3>1. Cached(k, r)
        <4>1. old.seen # <<>>
          BY <1>12 DEF Contains
        <4>2. QED
          BY <1>2, <4>1, Entries DEF EntryOf
      <3>2. QED
        BY <1>2, <1>7, <1>8, <1>12, <3>1 DEF EntryOf
    <2>5. ASSUME NEW j \in KindSet, NEW q \in Runs PROVE Untouched(j, q)
      <3>1. cache'[j][q] \in {cache[j][q], NoEntry}
        BY <1>7, <2>4
      <3>2. QED
        BY <1>1, <2>2, <2>3, <3>1 DEF Untouched, SavesNewest, Saving
    <2>6. Counted'
      BY <1>5, <2>5, StaysSure DEF Rep, Counted
    <2>7. OneNewest'
      BY <2>2 DEF Rep, OneNewest, SavesNewest, Saving
    <2>8. FillsTrue'
      BY <1>5, <2>2 DEF Rep, FillsTrue, FillTrue
    <2>9. QED
      BY <1>10, <1>11, <2>6, <2>7, <2>8 DEF Rep
  <1>13. CASE ~Contains(old.seen, id)
    <2>1. PICK new : new = [Idle EXCEPT !.pc = "save", !.run = r, !.todo = <<k>>,
                                        !.pending = Row(entry)]
      OBVIOUS
    <2>2. /\ new.pc = "save" /\ new.run = r /\ Head(new.todo) = k /\ ~new.late
          /\ new.pending.value = entry.value /\ new.pending.count = entry.count
      BY <2>1 DEF Idle, Row
    <2>3. Recorded(c, k, r, new)
      BY <1>0, <1>2, <1>4, <1>13, <2>1
    <2>4. ASSUME <<k, r>> \notin lost' PROVE Agrees(more, entry.value, entry.count) /\ PrintTrue(k, more)
      <3>1. Agrees(s, old.value, old.count) /\ PrintTrue(k, s) /\ ~again
        BY <1>1, <1>2, <1>3, <1>5, <1>13, <2>4, BeforeCount
      <3>2. CASE result = "success"
        BY <1>4, <1>8, <1>13, <3>1, <3>2 DEF NoStreak, Agrees, PrintTrue
      <3>3. CASE result # "success"
        <4>1. /\ more.n = IF s.value = result THEN s.n + 1 ELSE 1
              /\ more.value = result /\ more.print = result
          <5>1. result \in Truths /\ result \in Values
            BY DEF Truths, Values
          <5>2. QED
            BY <1>4, <3>1, <3>3, <5>1, ExtendFits
        <4>2. entry.value = result /\ entry.count = IF old.value = result THEN old.count + 1 ELSE 1
          BY <1>8, <1>13, <3>3
        <4>3. entry.count = more.n
          <5>1. CASE s.n > 0
            BY <3>1, <4>1, <4>2, <5>1 DEF Agrees, PrintTrue
          <5>2. CASE ~(s.n > 0)
            <6>1. s.n = 0 /\ old.count = 0
              BY <3>1, <5>2 DEF Agrees, StreakSet
            <6>2. QED
              BY <4>1, <4>2, <6>1
          <5>3. QED
            BY <5>1, <5>2
        <4>4. QED
          BY <4>1, <4>2, <4>3 DEF Agrees, PrintTrue
      <3>4. QED
        BY <3>2, <3>3
    <2>5. Counted' /\ OneNewest' /\ FillsTrue'
      <3>1. call[c].pc # "save"
        BY <1>1
      <3> HIDE DEF k
      <3>2. QED
        BY <1>1, <1>5, <2>2, <2>3, <2>4, <3>1, RecordedKeeps
    <2>6. QED
      BY <1>10, <1>11, <2>5 DEF Rep
  <1>14. QED
    BY <1>12, <1>13

\* The calls of a reply.
LEMMA RecordCallsKeeps == ASSUME Inv, Rep, NEW c \in Callers, RecordCalls(c) PROVE Rep'
  <1> DEFINE k == "tool_call"
  <1>1. PICK x \in HandlerSet : /\ x = call[c] /\ Fits(x) /\ x.pc = "record" /\ x.todo # <<>>
                                /\ Head(x.todo) = k /\ x.run \in Runs
    BY DEF Inv, Handlers, RecordCalls, Fits
  <1>2. PICK result \in ResultSet : result = x.result /\ TodoFits(x.todo, result)
                                    /\ ResultFits(x.told, result)
    BY <1>1 DEF HandlerSet, Fits
  <1>3. PICK r \in Runs : r = x.run
    BY <1>1
  <1>4. k \in KindSet
    BY TheKinds
  <1>5. result.prints # <<>>
    <2>1. PICK todo \in Seq(KindSet) : todo = x.todo /\ todo # <<>>
      BY <1>1 DEF HandlerSet
    <2>2. 1 \in 1..Len(todo) /\ todo[1] = k
      BY <1>1, <2>1
    <2>3. QED
      BY <1>2, <2>1, <2>2 DEF TodoFits
  <1>6. PrintsOK(result) /\ (result.custom => Route = "responses" /\ Len(result.made) <= 1)
    BY <1>2, <1>5 DEF ResultFits
  <1>7. PICK old \in ActiveSet : old = EntryOf(k, r)
    BY <1>4, EntryActive DEF Inv
  <1>8. PICK s \in StreakSet : s = streak[k][r] /\ Printed(s)
    BY <1>4 DEF Inv, History, Rep, CallsPrinted
  <1>9. PICK entry, more, new :
            /\ entry = RecordToolCalls(old, result.prints) /\ more = Repeat(s, result)
            /\ new = [x EXCEPT !.pc = "save", !.pending = Row(entry)]
    OBVIOUS
  <1>10. /\ Put(k, r, entry) /\ Recorded(c, k, r, new)
         /\ Lose(k, r, CountsAfresh(k, r) \/ Blurred(s, result))
         /\ UNCHANGED <<work, saved, reported>>
         /\ streak' = [streak EXCEPT ![k][r] = more]
    BY <1>1, <1>2, <1>3, <1>7, <1>8, <1>9 DEF RecordCalls
  <1>11. /\ Printed(more)
         /\ Agrees(s, old.value, old.count) /\ ~Blurred(s, result)
                => Agrees(more, entry.value, entry.count)
    BY <1>5, <1>6, <1>8, <1>9, CallsCountedTruly
  <1>12. /\ new.pc = "save" /\ new.run = r /\ new.todo = x.todo /\ ~new.late
         /\ new.pending.value = entry.value /\ new.pending.count = entry.count
    <2>1. ~x.late
      BY <1>1 DEF Fits
    <2>2. new.pending = Row(entry) /\ new.pc = "save" /\ new.run = x.run /\ new.todo = x.todo
          /\ new.late = x.late
      BY <1>9 DEF HandlerSet
    <2>3. QED
      BY <1>3, <2>1, <2>2 DEF Row
  <1>13. ASSUME <<k, r>> \notin lost' PROVE Agrees(more, entry.value, entry.count) /\ PrintTrue(k, more)
    <2>1. <<k, r>> \notin lost /\ ~CountsAfresh(k, r) /\ ~Blurred(s, result)
      BY <1>10, <1>13, LoseGrows
    <2>2. Agrees(s, old.value, old.count)
      BY <1>4, <1>7, <1>8, <2>1, BeforeCount
    <2>3. QED
      BY <1>11, <2>1, <2>2 DEF PrintTrue
  <1>14. Counted' /\ OneNewest' /\ FillsTrue'
    <2>1. lost \subseteq lost'
      BY <1>10, LoseGrows
    <2>2. call[c].pc # "save" /\ Head(new.todo) = k
      BY <1>1, <1>12
    <2> HIDE DEF k
    <2>3. QED
      BY <1>4, <1>10, <1>12, <1>13, <2>1, <2>2, RecordedKeeps
  <1>15. SeenReported'
    BY <1>4, <1>10, OthersSeen
  <1>16. CallsPrinted'
    <2>1. ASSUME NEW q \in Runs PROVE Printed(streak'[k][q])
      <3>1. streak'[k][q] = IF q = r THEN more ELSE streak[k][q]
        BY <1>4, <1>10 DEF Inv, History
      <3>2. QED
        BY <1>11, <3>1 DEF Rep, CallsPrinted
    <2>2. QED
      BY <1>10, <2>1 DEF CallsPrinted, Printed, Route
  <1>17. QED
    BY <1>14, <1>15, <1>16 DEF Rep

-----------------------------------------------------------------------------
\* A count goes into its row.

LEMMA SaveKeeps == ASSUME Inv, Rep, NEW c \in Callers, Save(c) PROVE Rep'
  <1>1. PICK x \in HandlerSet : x = call[c] /\ Fits(x) /\ x.pc = "save" /\ x.todo # <<>> /\ x.run \in Runs
    BY DEF Inv, Handlers, Save, Fits
  <1>2. PICK k \in KindSet, r \in Runs : k = Head(x.todo) /\ r = x.run
    <2>1. PICK todo \in Seq(KindSet) : todo = x.todo /\ todo # <<>>
      BY <1>1 DEF HandlerSet
    <2>2. QED
      BY <1>1, <2>1
  <1>3. PICK newer : newer = \E d \in Callers \ {c} : SavesNewest(d, k, r)
    OBVIOUS
  <1>4. \/ SaveRow(k, r, x.pending) /\ Lose(k, r, x.late /\ ~newer)
        \/ UNCHANGED saved /\ Lose(k, r, ~x.late)
    BY <1>1, <1>2, <1>3 DEF Save
  <1>5. UNCHANGED <<work, cache, order, streak, reported>>
    BY DEF Save
  <1>6. lost \subseteq lost'
    BY <1>4, LoseGrows
  <1>7. call'[c].pc = "record" /\ \A d \in Callers \ {c} : call'[d] = call[d]
    <2>1. PICK new : new = [x EXCEPT !.pc = "record", !.pending = NoRow, !.late = FALSE,
                                     !.todo = Tail(x.todo)]
      OBVIOUS
    <2>2. Becomes(c, new)
      BY <1>1, <2>1 DEF Save
    <2>3. new.pc = "record"
      BY <2>1 DEF HandlerSet
    <2>4. QED
      BY <2>2, <2>3 DEF Inv, Handlers, Becomes
  <1>8. ASSUME NEW d \in Callers \ {c}, NEW j, NEW q
        PROVE  SavesNewest(d, j, q)' <=> SavesNewest(d, j, q)
    BY <1>7 DEF SavesNewest, Saving
  <1>9. ASSUME NEW j, NEW q PROVE ~SavesNewest(c, j, q)'
    BY <1>7 DEF SavesNewest, Saving
  <1>10. ASSUME NEW j \in KindSet, NEW q \in Runs, <<j, q>> # <<k, r>> PROVE Untouched(j, q)
    <2>1. ~SavesNewest(c, j, q)
      BY <1>1, <1>2, <1>10 DEF SavesNewest, Saving
    <2>2. saved'[j][q] = saved[j][q]
      BY <1>4, <1>10 DEF SaveRow, Inv, Caches
    <2>3. QED
      BY <1>5, <1>7, <1>8, <1>9, <2>1, <2>2 DEF Untouched
  <1>11. ASSUME <<k, r>> \notin lost' PROVE Sure(k, r)'
    <2>1. Sure(k, r)
      BY <1>6, <1>11 DEF Rep, Counted
    <2>2. RowTrue(k, r)'
      <3>1. CASE SaveRow(k, r, x.pending) /\ ~(x.late /\ ~newer)
        <4>1. saved'[k][r] = x.pending
          BY <3>1 DEF SaveRow, Inv, Caches
        <4>2. CASE ~x.late
          <5>1. SavesNewest(c, k, r)
            BY <1>1, <1>2, <4>2 DEF SavesNewest, Saving
          <5>2. Agrees(streak[k][r], x.pending.value, x.pending.count)
            BY <1>1, <2>1, <5>1 DEF Sure, PendingTrue
          <5>3. QED
            BY <1>5, <4>1, <5>2 DEF RowTrue
        <4>3. CASE newer
          BY <1>3, <1>8, <4>3 DEF RowTrue
        <4>4. QED
          BY <3>1, <4>2, <4>3
      <3>2. CASE UNCHANGED saved /\ x.late
        <4>1. ~SavesNewest(c, k, r)
          BY <1>1, <3>2 DEF SavesNewest
        <4>2. QED
          BY <1>5, <1>8, <2>1, <3>2, <4>1 DEF Sure, RowTrue
      <3>3. QED
        BY <1>4, <1>11, <3>1, <3>2, LoseGrows
    <2>3. PendingTrue(k, r)'
      BY <1>5, <1>7, <1>8, <1>9, <2>1 DEF Sure, PendingTrue
    <2>4. QED
      BY <1>5, <2>1, <2>2, <2>3 DEF Sure, CacheTrue, Cached, PrintTrue
  <1>12. Counted'
    <2>1. ASSUME NEW j \in KindSet, NEW q \in Runs PROVE <<j, q>> \in lost' \/ Sure(j, q)'
      <3>1. CASE <<j, q>> = <<k, r>>
        BY <1>11, <3>1
      <3>2. CASE <<j, q>> # <<k, r>>
        BY <1>6, <1>10, <3>2, StaysSure DEF Rep, Counted
      <3>3. QED
        BY <3>1, <3>2
    <2>2. QED
      BY <2>1 DEF Counted
  <1>13. OneNewest'
    BY <1>8, <1>9 DEF Rep, OneNewest
  <1>14. CallsPrinted' /\ SeenReported'
    BY <1>5 DEF Rep, CallsPrinted, Printed, Route, SeenReported
  <1>15. FillsTrue'
    BY <1>6, <1>7, FillsStay DEF Rep, FillTrue
  <1>16. QED
    BY <1>12, <1>13, <1>14, <1>15 DEF Rep

LEMMA RestartKeeps == ASSUME Inv, Rep, Restart PROVE Rep'
  <1>1. /\ Forgotten
        /\ lost' = lost \cup {p \in KindSet \X Runs : \E c \in Callers : SavesNewest(c, p[1], p[2])}
    BY DEF Restart
  <1>2. UNCHANGED <<streak, reported>> /\ \A c \in Callers : call'[c].pc = "idle"
    BY DEF Restart, Idle
  <1>3. ASSUME NEW k, NEW r, NEW c \in Callers PROVE ~SavesNewest(c, k, r)'
    BY <1>2 DEF SavesNewest, Saving
  <1>4. ASSUME NEW k \in KindSet, NEW r \in Runs, <<k, r>> \notin lost' PROVE Sure(k, r)'
    <2>1. <<k, r>> \notin lost /\ ~\E c \in Callers : SavesNewest(c, k, r)
      <3>1. PICK p \in KindSet \X Runs : p = <<k, r>>
        OBVIOUS
      <3>2. p[1] = k /\ p[2] = r
        BY <3>1
      <3>3. QED
        BY <1>1, <1>4, <3>1, <3>2
    <2>2. Agrees(streak[k][r], saved[k][r].value, saved[k][r].count) /\ PrintTrue(k, streak[k][r])
      BY <2>1 DEF Rep, Counted, Sure, RowTrue
    <2>3. cache'[k][r] = NoEntry /\ saved'[k][r] = saved[k][r]
      BY <1>1 DEF Forgotten
    <2>4. QED
      BY <1>2, <1>3, <2>2, <2>3 DEF Sure, CacheTrue, Cached, RowTrue, PendingTrue, PrintTrue
  <1>5. SeenReported'
    <2>1. ASSUME NEW r \in Runs PROVE Len(cache'["tool_error"][r].seen) = 0
      BY <1>1, TheKinds, Entries DEF Forgotten
    <2>2. QED
      BY <2>1 DEF SeenReported
  <1>6. work'.route = work.route
    BY WorkDone DEF Inv, Restart
  <1>7. CallsPrinted'
    BY <1>2, <1>6 DEF Rep, CallsPrinted, Printed, Route
  <1>8. Counted' /\ OneNewest' /\ FillsTrue'
    BY <1>2, <1>3, <1>4 DEF Counted, OneNewest, FillsTrue, FillTrue
  <1>9. QED
    BY <1>5, <1>7, <1>8 DEF Rep

\* The rows that retention takes leave no count behind, or a lost one.
LEMMA PruneKeeps == ASSUME Inv, Rep, Prune PROVE Rep'
  <1>1. PICK old : /\ old \subseteq Runs /\ Pruned(old)
                   /\ lost' = lost \cup {p \in KindSet \X old :
                                            /\ streak[p[1]][p[2]].n > 0
                                            /\ \A c \in Callers : ~SavesNewest(c, p[1], p[2])}
    BY DEF Prune, Inv, WorkSet
  <1>2. UNCHANGED <<call, streak, reported, cache, order>>
    BY <1>1 DEF Prune, Pruned
  <1>3. ASSUME NEW k, NEW r, NEW c \in Callers PROVE SavesNewest(c, k, r)' <=> SavesNewest(c, k, r)
    BY <1>2 DEF SavesNewest, Saving
  <1>4. ASSUME NEW k \in KindSet, NEW r \in Runs, <<k, r>> \notin lost' PROVE Sure(k, r)'
    <2>1. <<k, r>> \notin lost /\ Sure(k, r)
      BY <1>1, <1>4 DEF Rep, Counted
    <2>2. r \in old => streak[k][r].n = 0 \/ \E c \in Callers : SavesNewest(c, k, r)
      <3>1. SUFFICES ASSUME r \in old, ~\E c \in Callers : SavesNewest(c, k, r) PROVE streak[k][r].n = 0
        OBVIOUS
      <3>2. PICK p \in KindSet \X old : p = <<k, r>>
        BY <3>1
      <3>3. p[1] = k /\ p[2] = r
        BY <3>2
      <3>4. ~(streak[k][r].n > 0)
        BY <1>1, <1>4, <3>1, <3>2, <3>3
      <3>5. QED
        BY <3>4 DEF Inv, History, StreakSet
    <2>3. saved'[k][r] = IF r \in old THEN NoRow ELSE saved[k][r]
      BY <1>1 DEF Pruned
    <2>4. RowTrue(k, r)'
      <3>1. CASE \E c \in Callers : SavesNewest(c, k, r)
        BY <1>3, <3>1 DEF RowTrue
      <3>2. CASE r \notin old
        BY <1>2, <1>3, <2>1, <2>3, <3>2 DEF Sure, RowTrue
      <3>3. CASE r \in old /\ streak[k][r].n = 0
        <4>1. Agrees(streak'[k][r], saved'[k][r].value, saved'[k][r].count)
          BY <1>2, <2>3, <3>3 DEF Agrees, NoRow
        <4>2. QED
          BY <4>1 DEF RowTrue
      <3>4. QED
        BY <2>2, <3>1, <3>2, <3>3
    <2>5. QED
      BY <1>2, <1>3, <2>1, <2>4 DEF Sure, CacheTrue, Cached, PendingTrue, PrintTrue
  <1>5. work'.route = work.route
    BY WorkDone DEF Inv, Prune
  <1>6. CallsPrinted'
    BY <1>2, <1>5 DEF Rep, CallsPrinted, Printed, Route
  <1>7. OneNewest' /\ SeenReported'
    BY <1>2, <1>3 DEF Rep, OneNewest, SeenReported
  <1>8. FillsTrue'
    BY <1>1, <1>2 DEF Rep, FillsTrue, FillTrue
  <1>9. QED
    BY <1>4, <1>6, <1>7, <1>8 DEF Rep, Counted

LEMMA RepInit == Init => Rep
  <1> SUFFICES ASSUME Init PROVE Rep
    OBVIOUS
  <1>1. ASSUME NEW k, NEW r, NEW c \in Callers PROVE ~SavesNewest(c, k, r)
    BY DEF Init, Idle, SavesNewest, Saving
  <1>2. ASSUME NEW k \in KindSet, NEW r \in Runs
        PROVE  cache[k][r] = NoEntry /\ saved[k][r] = NoRow /\ streak[k][r] = NoStreak
    BY DEF Init, RepetitionInit
  <1>3. Counted
    <2>1. ASSUME NEW k \in KindSet, NEW r \in Runs PROVE Sure(k, r)
      BY <1>1, <1>2 DEF Sure, CacheTrue, Cached, RowTrue, PendingTrue, PrintTrue, Agrees,
                        NoRow, NoStreak
    <2>2. QED
      BY <2>1 DEF Counted
  <1>4. OneNewest
    BY <1>1 DEF OneNewest
  <1>5. CallsPrinted
    BY <1>2, TheKinds DEF CallsPrinted, Printed, NoStreak
  <1>6. SeenReported
    <2>1. ASSUME NEW r \in Runs PROVE Len(cache["tool_error"][r].seen) = 0
      BY <1>2, TheKinds, Entries
    <2>2. QED
      BY <2>1 DEF SeenReported
  <1>7. FillsTrue
    BY DEF Init, Idle, FillsTrue, FillTrue
  <1>8. QED
    BY <1>3, <1>4, <1>5, <1>6, <1>7 DEF Rep

LEMMA RepKept == Inv /\ Rep /\ [Next]_vars => Rep'
  <1> SUFFICES ASSUME Inv, Rep, [Next]_vars PROVE Rep'
    OBVIOUS
  <1>1. ASSUME NEW c \in Callers,
               Ask(c) \/ Preflight(c) \/ Provider(c) \/ Record(c) \/ ReportResult(c)
        PROVE  Rep'
    <2>1. CASE Ask(c)
      BY <2>1, AskKeeps
    <2>2. CASE Preflight(c)
      BY <2>2, CheckCachedKeeps, CheckSavedKeeps, FillCacheKeeps, AdmitKeeps, ReturnKeeps DEF Preflight
    <2>3. CASE Provider(c)
      BY <2>3, ProviderKeeps
    <2>4. CASE Record(c)
      BY <2>4, RecordCallsKeeps, RecordOutcomeKeeps, SaveKeeps, ReturnKeeps DEF Record
    <2>5. CASE ReportResult(c)
      BY <2>5, ReportResultKeeps
    <2>6. QED
      BY <1>1, <2>1, <2>2, <2>3, <2>4, <2>5
  <1>2. CASE Restart
    BY <1>2, RestartKeeps
  <1>3. CASE Prune
    BY <1>3, PruneKeeps
  <1>4. CASE UNCHANGED vars
    <2>1. /\ UNCHANGED <<call, work, streak, reported, lost>>
          /\ UNCHANGED <<cache, order, saved>>
      BY <1>4 DEF vars, repetition
    <2>2. ASSUME NEW k \in KindSet, NEW r \in Runs PROVE Untouched(k, r)
      BY <2>1 DEF Untouched, SavesNewest, Saving
    <2>3. Counted'
      BY <2>1, <2>2, StaysSure DEF Rep, Counted
    <2>4. OneNewest' /\ CallsPrinted' /\ SeenReported' /\ FillsTrue'
      BY <2>1 DEF Rep, OneNewest, SavesNewest, Saving, CallsPrinted, Printed, Route,
                  SeenReported, FillsTrue, FillTrue
    <2>5. QED
      BY <2>3, <2>4 DEF Rep
  <1>5. QED
    BY <1>1, <1>2, <1>3, <1>4 DEF Next

\* The engine is right about every sequence that is not lost, in every state.
LEMMA RepHolds == Spec => [](Inv /\ Rep)
  <1>1. Inv /\ Rep /\ [Next]_vars => (Inv /\ Rep)'
    BY InvKept, RepKept
  <1>2. Init => Inv /\ Rep
    BY InvInit, RepInit
  <1>3. QED
    BY <1>1, <1>2, PTL DEF Spec

-----------------------------------------------------------------------------
\* "Restart restores from here" (repetition.go): what a restart finds in the
\* table of a run is the truth about its last errors and calls, unless a
\* handler is about to save a newer count, or the sequence may be lost.
THEOREM RowsAreTrue == Spec => []RestartRestores
  <1>1. Inv /\ Rep => RestartRestores
    <2> SUFFICES ASSUME Rep, NEW k \in KindSet, NEW r \in Runs, <<k, r>> \notin lost,
                        ~\E c \in Callers : Saving(c, k, r)
                 PROVE  saved[k][r].count = streak[k][r].n
                        /\ (streak[k][r].n > 0 => saved[k][r].value = streak[k][r].print)
      BY DEF RestartRestores
    <2>1. QED
      BY RowIsTrue DEF Agrees
  <1>2. QED
    BY <1>1, RepHolds, PTL

\* A check in memory, in the table, and after the cache is filled.
LEMMA ChecksAreTrue ==
  ASSUME Inv, Rep, NEW c \in Callers, CheckCached(c) \/ CheckSaved(c) \/ FillCache(c)
  PROVE  BlockedWhenDue(c)
  <1>1. PICK x \in HandlerSet : x = call[c] /\ Fits(x) /\ x.pc \in {"check", "fill"} /\ x.run \in Runs
    BY DEF Inv, Handlers, CheckCached, CheckSaved, FillCache, Fits
  <1>2. PICK k \in KindSet, r \in Runs : k = Kinds[x.kind] /\ r = x.run
    BY <1>1, TheKinds DEF HandlerSet
  <1>3. PICK s \in StreakSet : s = streak[k][r] /\ s.n \in Nat
    BY DEF Inv, History, StreakSet
  <1>4. CASE CheckCached(c)
    <2>1. x.pc = "check" /\ Cached(k, r) /\ Becomes(c, Decide(x, cache[k][r].count)) /\ lost' = lost
      BY <1>1, <1>2, <1>4 DEF CheckCached
    <2>2. PICK new : new = Decide(x, cache[k][r].count)
      OBVIOUS
    <2>3. call'[c] = new
      BY <2>1, <2>2 DEF Becomes, Inv, Handlers
    <2>4. new.pc = "blocked" <=> cache[k][r].count >= Threshold
      BY <1>1, <2>2, Decided, Passed
    <2>5. <<k, r>> \in lost \/ cache[k][r].count = streak[k][r].n
      BY <2>1 DEF Rep, Counted, Sure, CacheTrue
    <2>6. (new.pc = "blocked" <=> Due(k, r)) \/ <<k, r>> \in lost'
      BY <2>1, <2>4, <2>5 DEF Due
    <2>7. QED
      BY <1>1, <1>2, <2>1, <2>3, <2>6 DEF BlockedWhenDue
  <1>5. CASE CheckSaved(c)
    <2>1. x.pc = "check"
      BY <1>1, <1>5 DEF CheckSaved
    <2>2. Pass(x).pc # "blocked" /\ lost \subseteq lost'
      BY <1>1, <1>2, <1>5, Passed, LoseGrows DEF CheckSaved
    <2>3. CASE call'[c].pc = "fill"
      BY <2>3 DEF BlockedWhenDue
    <2>4. CASE call'[c].pc # "fill"
      <3>1. call'[c] = Pass(x) /\ (saved[k][r].count = 0 \/ <<k, r>> \in lost')
        <4>1. PICK row, due : row = saved[k][r] /\ due = Due(k, r)
          OBVIOUS
        <4>2. PICK fill : fill = [x EXCEPT !.pc = "fill", !.row = row, !.due = due]
          OBVIOUS
        <4>3. fill.pc = "fill"
          BY <4>2 DEF HandlerSet
        <4>4. \/ Becomes(c, IF row.count = 0 THEN Pass(x) ELSE fill)
              \/ Becomes(c, Pass(x)) /\ Lose(k, r, TRUE)
          BY <1>1, <1>2, <1>5, <4>1, <4>2 DEF CheckSaved
        <4>5. QED
          BY <2>4, <4>1, <4>3, <4>4, LoseGrows DEF Becomes, Inv, Handlers
      <3>2. ASSUME <<k, r>> \notin lost' PROVE ~Due(k, r)
        <4>1. ~\E d \in Callers : Saving(d, k, r)
          BY <1>1, <1>2, <1>5, <3>2, LoseGrows DEF CheckSaved
        <4>2. Agrees(streak[k][r], saved[k][r].value, saved[k][r].count)
          BY <2>2, <3>2, <4>1, RowIsTrue
        <4>3. s.n = 0
          BY <1>3, <3>1, <3>2, <4>2 DEF Agrees
        <4>4. QED
          BY <1>3, <4>3, RepetitionAssumption DEF Due
      <3>3. QED
        BY <1>1, <1>2, <2>1, <2>2, <3>1, <3>2 DEF BlockedWhenDue
    <2>5. QED
      BY <2>3, <2>4
  <1>6. CASE FillCache(c)
    <2>1. x.pc = "fill" /\ lost \subseteq lost'
      BY <1>1, <1>2, <1>6, LoseGrows DEF FillCache
    <2>2. PICK y \in HandlerSet : y = Decide(x, x.row.count)
      BY <1>1, Decided
    <2>3. y.pc = "blocked" <=> x.row.count >= Threshold
      BY <1>1, <2>2, Decided, Passed
    <2>4. PICK new : new = [y EXCEPT !.row = NoRow, !.due = FALSE]
      OBVIOUS
    <2>5. new.pc = y.pc
      BY <2>4 DEF HandlerSet
    <2>6. Becomes(c, new)
      BY <1>1, <1>6, <2>2, <2>4 DEF FillCache
    <2>7. call'[c] = new
      BY <2>6 DEF Becomes, Inv, Handlers
    <2>8. <<k, r>> \in lost \/ (x.due <=> x.row.count >= Threshold)
      BY <1>1, <1>2, <2>1 DEF Rep, FillsTrue, FillTrue
    <2>9. QED
      BY <1>1, <1>2, <2>1, <2>3, <2>5, <2>7, <2>8 DEF BlockedWhenDue
  <1>7. QED
    BY <1>4, <1>5, <1>6

\* A handler that waits for a check is left alone by the others.
LEMMA OthersWait ==
  ASSUME Inv, NEW c \in Callers, NEW d \in Callers, c # d,
         Ask(d) \/ Preflight(d) \/ Provider(d) \/ Record(d) \/ ReportResult(d)
  PROVE  BlockedWhenDue(c)
  <1>1. PICK x \in HandlerSet : x = call[c] /\ (x.pc # "save" => ~x.late)
    BY DEF Inv, Handlers, Fits
  <1>2. ASSUME NEW new, Becomes(d, new) PROVE call'[c] = call[c]
    BY <1>2 DEF Becomes, Inv, Handlers
  <1>3. ASSUME NEW k, NEW r, NEW new, Recorded(d, k, r, new), x.pc \in {"check", "fill"}
        PROVE  call'[c] = call[c]
    <2>1. PICK late : late = (x.late \/ Saving(c, k, r)) /\ late = FALSE
      BY <1>1, <1>3 DEF Saving
    <2>2. call'[c] = [x EXCEPT !.late = x.late \/ Saving(c, k, r)]
      BY <1>1, <1>3 DEF Recorded
    <2>3. call'[c] = [x EXCEPT !.late = late] /\ x.late = late
      BY <1>1, <1>3, <2>1, <2>2 DEF HandlerSet
    <2>4. QED
      BY <1>1, <2>3 DEF HandlerSet
  <1>4. \/ \E new : Becomes(d, new)
        \/ \E k, r, new : Recorded(d, k, r, new)
        \/ UNCHANGED call
    <2>1. CASE Ask(d)
      BY <2>1 DEF Ask
    <2>2. CASE Preflight(d)
      BY <2>2 DEF Preflight, CheckCached, CheckSaved, FillCache, Admit, Block
    <2>3. CASE Provider(d)
      <3>1. CASE NoAnswer(d) \/ WholeReply(d) \/ Open(d)
        BY <3>1 DEF NoAnswer, WholeReply, Open, Conclude
      <3>2. CASE ReceiveFrame(d) \/ Cut(d) \/ Leave(d)
        BY <3>2 DEF ReceiveFrame, Refute, Cut, Leave, Conclude
      <3>3. QED
        BY <2>3, <3>1, <3>2 DEF Provider
    <2>4. CASE Record(d)
      BY <2>4 DEF Record, RecordCalls, RecordOutcome, Save, Return
    <2>5. CASE ReportResult(d)
      BY <2>5 DEF ReportResult
    <2>6. QED
      BY <2>1, <2>2, <2>3, <2>4, <2>5
  <1>5. x.pc \in {"check", "fill"} => call'[c] = call[c]
    BY <1>2, <1>3, <1>4
  <1>6. QED
    BY <1>1, <1>5 DEF BlockedWhenDue

\* A call is blocked for repetition when it is due, and only then (Preflight),
\* whatever the other handlers record, save, check and put into the caches
\* meanwhile, unless the sequence may be lost.
THEOREM ChecksBlockWhenDue == Spec => BlocksWhenDue
  <1>1. Inv /\ Rep /\ [Next]_vars => [\A c \in Callers : BlockedWhenDue(c)]_vars
    <2> SUFFICES ASSUME Inv, Rep, Next, NEW c \in Callers PROVE BlockedWhenDue(c)
      OBVIOUS
    <2>1. CASE Restart
      <3>1. call'[c].pc = "idle"
        BY <2>1 DEF Restart, Idle
      <3>2. QED
        BY <3>1 DEF BlockedWhenDue
    <2>2. ASSUME NEW d \in Callers,
                 Ask(d) \/ Preflight(d) \/ Provider(d) \/ Record(d) \/ ReportResult(d)
          PROVE  BlockedWhenDue(c)
      <3>1. CASE d # c
        BY <2>2, <3>1, OthersWait
      <3>2. CASE d = c
        <4>1. CASE CheckCached(c) \/ CheckSaved(c) \/ FillCache(c)
          BY <4>1, ChecksAreTrue
        <4>2. CASE ~(CheckCached(c) \/ CheckSaved(c) \/ FillCache(c))
          <5>1. call[c].pc \notin {"check", "fill"}
            BY <2>2, <3>2, <4>2 DEF Ask, Preflight, Admit, Block, Provider, NoAnswer, WholeReply,
               Open, ReceiveFrame, Cut, Leave, Record, RecordCalls, RecordOutcome, Save, Return,
               ReportResult
          <5>2. QED
            BY <5>1 DEF BlockedWhenDue
        <4>3. QED
          BY <4>1, <4>2
      <3>3. QED
        BY <3>1, <3>2
    <2>3. CASE Prune
      BY <2>3 DEF Prune, BlockedWhenDue
    <2>4. QED
      BY <2>1, <2>2, <2>3 DEF Next
  <1>2. QED
    BY <1>1, RepHolds, PTL DEF Spec, BlocksWhenDue
=============================================================================
