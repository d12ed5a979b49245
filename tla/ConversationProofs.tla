------------------------ MODULE ConversationProofs ------------------------
(***************************************************************************)
(* What the translations of a request and the calls of a stream are, for   *)
(* conversations and replies of every length: the lemmas that              *)
(* GatewayProofs rests on.                                                 *)
(***************************************************************************)
EXTENDS ProviderStreams, FoldProofs

TurnSet == [role : Roles, from : Seq(Nat)]
OutSet == [ok : BOOLEAN, turns : Seq(TurnSet), known : SUBSET Nat]

-----------------------------------------------------------------------------
\* The calls of a stream, in order.

LEMMA ArrivalSteps ==
  ASSUME NEW calls \in [Indices -> CallSet]
  PROVE  \E r \in [0..MaxCalls -> Seq(CallSet)] :
            /\ r[0] = <<>> /\ r[MaxCalls] = Arrivals(calls)
            /\ \A m \in 1..MaxCalls : r[m] = IF Arrived(calls, m - 1)
                                             THEN Append(r[m - 1], calls[m - 1]) ELSE r[m - 1]
  <1> DEFINE op(seen, i) == IF Arrived(calls, i) THEN Append(seen, calls[i]) ELSE seen
             A == Seq(CallSet)
             f == [n \in 1..MaxCalls |-> n - 1]
             step == [seen \in A |-> [i \in Indices |-> op(seen, i)]]
             solves(h) == h = [s \in SUBSET (1..MaxCalls) |->
                                 IF s = {} THEN <<>> ELSE op(h[s \ {Max(s)}], f[Max(s)])]
             g == CHOOSE h : solves(h)
  <1>1. Arrivals(calls) = g[1..MaxCalls]
    BY DEF Arrivals, FoldLeft, MapThenFoldSet
  <1>2. MaxCalls \in Nat /\ <<>> \in A
    BY MaxCallsAssumption
  <1>3. f \in [1..MaxCalls -> Indices]
    BY <1>2 DEF Indices
  <1>4. step \in [A -> [Indices -> A]]
    OBVIOUS
  <1>5. solves(g)
    <2>1. PICK h \in [SUBSET (1..MaxCalls) -> A] : Folded(h, step, <<>>, f, MaxCalls)
      <3> HIDE DEF A, f, step
      <3>1. QED
        BY <1>2, <1>3, <1>4, StepsExist
    <2>2. ASSUME NEW s \in SUBSET (1..MaxCalls), s # {}
          PROVE  step[h[s \ {Max(s)}]][f[Max(s)]] = op(h[s \ {Max(s)}], f[Max(s)])
      <3>1. Max(s) \in 1..MaxCalls
        BY <1>2, <2>2, LargestNumber
      <3>2. h[s \ {Max(s)}] \in A /\ f[Max(s)] \in Indices
        BY <1>3, <3>1
      <3> HIDE DEF f
      <3>3. QED
        BY <3>2
    <2> HIDE DEF f, step
    <2>3. solves(h)
      BY <2>1, <2>2 DEF Folded
    <2> HIDE DEF solves
    <2>4. QED
      BY <2>3
  <1>6. FoldsIn(A, g, step, <<>>, f, MaxCalls)
    <2> HIDE DEF g
    <2>1. ASSUME NEW s \in SUBSET (1..MaxCalls), s # {}, g[s \ {Max(s)}] \in A
          PROVE  g[s] = step[g[s \ {Max(s)}]][f[Max(s)]]
      <3>1. Max(s) \in 1..MaxCalls
        BY <1>2, <2>1, LargestNumber
      <3>2. f[Max(s)] \in Indices
        BY <1>3, <3>1
      <3> HIDE DEF f
      <3>3. QED
        BY <1>5, <2>1, <3>2
    <2>2. QED
      BY <1>5, <2>1 DEF FoldsIn
  <1>7. PICK r : StepByStep(A, r, step, <<>>, f, MaxCalls, g[1..MaxCalls])
    <2> HIDE DEF A, f, step, g
    <2>1. QED
      BY <1>2, <1>3, <1>4, <1>6, FoldTakesSteps
  <1>8. ASSUME NEW m \in 1..MaxCalls PROVE r[m] = op(r[m - 1], m - 1)
    <2>1. r[m - 1] \in A /\ f[m] = m - 1 /\ m - 1 \in Indices
      BY <1>2, <1>7 DEF Indices, StepByStep
    <2>2. QED
      BY <1>7, <2>1 DEF StepByStep
  <1>9. QED
    BY <1>1, <1>7, <1>8 DEF StepByStep

\* The calls that have arrived are calls of the stream,
LEMMA ArrivalsArrived ==
  ASSUME NEW calls \in [Indices -> CallSet]
  PROVE  /\ Arrivals(calls) \in Seq(CallSet)
         /\ \A n \in 1..Len(Arrivals(calls)) :
               \E i \in Indices : Arrived(calls, i) /\ Arrivals(calls)[n] = calls[i]
  <1>1. PICK r \in [0..MaxCalls -> Seq(CallSet)] :
            /\ r[0] = <<>> /\ r[MaxCalls] = Arrivals(calls)
            /\ \A m \in 1..MaxCalls : r[m] = IF Arrived(calls, m - 1)
                                             THEN Append(r[m - 1], calls[m - 1]) ELSE r[m - 1]
    BY ArrivalSteps
  <1> DEFINE Fine(s) == \A n \in 1..Len(s) : \E i \in Indices : Arrived(calls, i) /\ s[n] = calls[i]
             T == {m \in 0..MaxCalls : Fine(r[m])}
  <1>2. MaxCalls \in Nat
    BY MaxCallsAssumption
  <1>3. 0 \in T
    BY <1>1, <1>2
  <1>4. ASSUME NEW m \in 1..MaxCalls, m - 1 \in T PROVE m \in T
    <2>1. m \in 0..MaxCalls /\ m - 1 \in Indices /\ r[m - 1] \in Seq(CallSet)
      <3>1. m \in 0..MaxCalls /\ m - 1 \in 0..MaxCalls /\ m - 1 \in Indices
        BY <1>2 DEF Indices
      <3>2. QED
        BY <1>1, <3>1
    <2>2. CASE Arrived(calls, m - 1)
      <3>1. r[m] = Append(r[m - 1], calls[m - 1])
        BY <1>1, <2>2
      <3>2. Fine(r[m - 1])
        BY <1>4
      <3>3. Fine(r[m])
        BY <2>1, <2>2, <3>1, <3>2
      <3>4. QED
        BY <2>1, <3>3
    <2>3. CASE ~Arrived(calls, m - 1)
      <3>1. r[m] = r[m - 1]
        BY <1>1, <2>3
      <3>2. QED
        BY <1>4, <2>1, <3>1
    <2>4. QED
      BY <2>2, <2>3
  <1>5. 0..MaxCalls \subseteq T
    <2> HIDE DEF T
    <2>1. QED
      BY <1>2, <1>3, <1>4, StepInduction
  <1>6. MaxCalls \in 0..MaxCalls
    BY <1>2
  <1>7. QED
    BY <1>1, <1>5, <1>6

\* and when they have arrived in the order of their indices, they are in that
\* order.
LEMMA ArrivalsInOrder ==
  ASSUME NEW calls \in [Indices -> CallSet], NEW p \in Seq(CallSet), Len(p) <= MaxCalls,
         \A i \in Indices : i < Len(p) => Arrived(calls, i) /\ calls[i] = p[i + 1],
         \A i \in Indices : i >= Len(p) => ~Arrived(calls, i)
  PROVE  Arrivals(calls) = p
  <1>1. PICK r \in [0..MaxCalls -> Seq(CallSet)] :
            /\ r[0] = <<>> /\ r[MaxCalls] = Arrivals(calls)
            /\ \A m \in 1..MaxCalls : r[m] = IF Arrived(calls, m - 1)
                                             THEN Append(r[m - 1], calls[m - 1]) ELSE r[m - 1]
    BY ArrivalSteps
  <1> DEFINE Fine(m) == /\ Len(r[m]) = IF m < Len(p) THEN m ELSE Len(p)
                        /\ \A n \in 1..Len(r[m]) : r[m][n] = p[n]
             T == {m \in 0..MaxCalls : Fine(m)}
  <1>2. MaxCalls \in Nat
    BY MaxCallsAssumption
  <1>3. 0 \in T
    BY <1>1, <1>2
  <1>4. ASSUME NEW m \in 1..MaxCalls, m - 1 \in T PROVE m \in T
    <2>1. m \in 0..MaxCalls /\ m - 1 \in Indices /\ r[m - 1] \in Seq(CallSet) /\ Fine(m - 1)
      BY <1>1, <1>2, <1>4 DEF Indices
    <2>2. CASE m - 1 < Len(p)
      <3>1. r[m] = Append(r[m - 1], p[m]) /\ Len(r[m - 1]) = m - 1
        <4>1. Arrived(calls, m - 1) /\ calls[m - 1] = p[m - 1 + 1] /\ m - 1 + 1 = m
          BY <2>1, <2>2
        <4>2. QED
          BY <1>1, <2>1, <2>2, <4>1
      <3>2. Len(r[m]) = m /\ \A n \in 1..m : r[m][n] = p[n]
        BY <2>1, <3>1
      <3>3. Fine(m)
        BY <2>2, <3>2
      <3>4. QED
        BY <2>1, <3>3
    <2>3. CASE ~(m - 1 < Len(p))
      <3>1. ~Arrived(calls, m - 1)
        BY <2>1, <2>3
      <3>2. r[m] = r[m - 1]
        BY <1>1, <3>1
      <3>3. Fine(m)
        BY <2>1, <2>3, <3>2
      <3>4. QED
        BY <2>1, <3>3
    <2>4. QED
      BY <2>2, <2>3
  <1>5. 0..MaxCalls \subseteq T
    <2> HIDE DEF T
    <2>1. QED
      BY <1>2, <1>3, <1>4, StepInduction
  <1>6. MaxCalls \in 0..MaxCalls /\ Fine(MaxCalls)
    BY <1>2, <1>5
  <1>7. Arrivals(calls) \in Seq(CallSet) /\ Len(Arrivals(calls)) = Len(p)
        /\ \A n \in 1..Len(p) : Arrivals(calls)[n] = p[n]
    BY <1>1, <1>2, <1>6
  <1>8. QED
    BY <1>7, SeqEqual

-----------------------------------------------------------------------------
\* The translations of a conversation.

LEMMA AddedTurn ==
  ASSUME NEW acc \in OutSet, NEW turn \in TurnSet
  PROVE  /\ Added(acc, turn) \in OutSet /\ Added(acc, turn).ok = acc.ok
         /\ Added(acc, turn).turns = Append(acc.turns, turn)
         /\ Added(acc, turn).known = acc.known
  <1>1. PICK turns \in Seq(TurnSet) : turns = Append(acc.turns, turn)
    <2>1. acc.turns \in Seq(TurnSet)
      BY DEF OutSet
    <2>2. QED
      BY <2>1, AppendProperties
  <1>2. Added(acc, turn) = [acc EXCEPT !.turns = turns]
    BY <1>1 DEF Added, OutSet
  <1>3. QED
    BY <1>1, <1>2 DEF OutSet

LEMMA JoinedTurn ==
  ASSUME NEW acc \in OutSet, NEW t \in 1..Len(acc.turns), NEW n \in Nat
  PROVE  /\ Joined(acc, t, n) \in OutSet /\ Joined(acc, t, n).ok = acc.ok
         /\ Len(Joined(acc, t, n).turns) = Len(acc.turns)
         /\ \A i \in 1..Len(acc.turns) : i # t => Joined(acc, t, n).turns[i] = acc.turns[i]
         /\ Joined(acc, t, n).turns[t].role = acc.turns[t].role
         /\ Joined(acc, t, n).turns[t].from = Append(acc.turns[t].from, n)
  <1> DEFINE turn == [acc.turns[t] EXCEPT !.from = Append(@, n)]
             turns == [acc.turns EXCEPT ![t] = turn]
  <1>1. acc.turns \in Seq(TurnSet) /\ acc.turns[t] \in TurnSet
    BY DEF OutSet
  <1>2. turn \in TurnSet /\ turn.role = acc.turns[t].role
        /\ turn.from = Append(acc.turns[t].from, n)
    <2>1. PICK old \in TurnSet : old = acc.turns[t]
      BY <1>1
    <2>2. PICK from \in Seq(Nat) : from = Append(old.from, n)
      <3>1. old.from \in Seq(Nat)
        BY DEF TurnSet
      <3>2. QED
        BY <3>1, AppendProperties
    <2>3. [old EXCEPT !.from = from] \in TurnSet
          /\ [old EXCEPT !.from = from].role = old.role /\ [old EXCEPT !.from = from].from = from
      BY DEF TurnSet
    <2>4. QED
      BY <2>1, <2>2, <2>3
  <1> HIDE DEF turn
  <1>3. turns \in Seq(TurnSet) /\ Len(turns) = Len(acc.turns) /\ turns[t] = turn
        /\ \A i \in 1..Len(acc.turns) : i # t => turns[i] = acc.turns[i]
    BY <1>1, <1>2
  <1>4. Joined(acc, t, n) = [acc EXCEPT !.turns = turns]
    BY DEF Joined, OutSet, turn
  <1> HIDE DEF turns
  <1>5. Joined(acc, t, n) \in OutSet /\ Joined(acc, t, n).turns = turns
        /\ Joined(acc, t, n).ok = acc.ok
    BY <1>3, <1>4 DEF OutSet
  <1>6. QED
    BY <1>2, <1>3, <1>5

\* An item is refused, or begins a turn, or joins the last one; guidance begins
\* a turn only where it is the first.
Begins(acc, out, n) ==
    \E role \in Roles : /\ out.turns = Append(acc.turns, Turn(role, n))
                        /\ role = "system" => acc.turns = <<>>

Joining(acc, out, n) ==
    /\ acc.turns # <<>> /\ Len(out.turns) = Len(acc.turns)
    /\ \A i \in 1..(Len(acc.turns) - 1) : out.turns[i] = acc.turns[i]
    /\ Last(out.turns).role = Last(acc.turns).role
    /\ Last(out.turns).from = Append(Last(acc.turns).from, n)

Places(acc, out, n) == out.ok => Begins(acc, out, n) \/ Joining(acc, out, n)

LEMMA AddedPlaces ==
  ASSUME NEW acc \in OutSet, NEW role \in Roles, NEW n \in Nat,
         role = "system" => acc.turns = <<>>
  PROVE  Added(acc, Turn(role, n)) \in OutSet /\ Begins(acc, Added(acc, Turn(role, n)), n)
  <1>1. Turn(role, n) \in TurnSet
    BY DEF Turn, TurnSet
  <1>2. QED
    BY <1>1, AddedTurn DEF Begins

LEMMA JoinedPlaces ==
  ASSUME NEW acc \in OutSet, acc.turns # <<>>, NEW n \in Nat
  PROVE  Joined(acc, Len(acc.turns), n) \in OutSet
         /\ Joining(acc, Joined(acc, Len(acc.turns), n), n)
  <1>1. acc.turns \in Seq(TurnSet)
    BY DEF OutSet
  <1>2. PICK t \in 1..Len(acc.turns) : t = Len(acc.turns)
    BY <1>1
  <1>3. \A i \in 1..(Len(acc.turns) - 1) : i \in 1..Len(acc.turns) /\ i # t
    BY <1>1, <1>2
  <1>4. PICK out \in OutSet :
            /\ out = Joined(acc, t, n) /\ Len(out.turns) = Len(acc.turns)
            /\ \A i \in 1..Len(acc.turns) : i # t => out.turns[i] = acc.turns[i]
            /\ out.turns[t].role = acc.turns[t].role
            /\ out.turns[t].from = Append(acc.turns[t].from, n)
    BY JoinedTurn
  <1>5. Joining(acc, out, n)
    BY <1>2, <1>3, <1>4 DEF Joining, Last
  <1>6. QED
    BY <1>2, <1>4, <1>5

\* Guidance that is joined joins the only turn there is.
LEMMA GuidanceIsAlone ==
  ASSUME NEW acc \in OutSet, acc.ok, GuidanceFirst(acc), LastRole(acc) = "system"
  PROVE  acc.turns # <<>> /\ Len(acc.turns) = 1
  <1>1. acc.turns # <<>>
    BY DEF LastRole
  <1>2. acc.turns \in Seq(TurnSet) /\ Len(acc.turns) \in DOMAIN acc.turns
    BY <1>1 DEF OutSet
  <1>3. acc.turns[Len(acc.turns)].role = "system"
    BY <1>1 DEF LastRole, Last
  <1>4. QED
    BY <1>1, <1>2, <1>3 DEF GuidanceFirst

LEMMA NoTurns == ASSUME NEW acc \in OutSet, LastRole(acc) = "none" PROVE acc.turns = <<>>
  <1>1. SUFFICES ASSUME acc.turns # <<>> PROVE FALSE
    OBVIOUS
  <1>2. acc.turns[Len(acc.turns)] \in TurnSet
    BY <1>1 DEF OutSet
  <1>3. acc.turns[Len(acc.turns)].role = "none"
    BY <1>1 DEF LastRole, Last
  <1>4. QED
    BY <1>2, <1>3 DEF TurnSet, Roles

LEMMA ChatTurnPlaces ==
  ASSUME NEW acc \in OutSet, acc.ok, NEW item \in ItemSet, NEW n \in Nat
  PROVE  /\ ChatTurn(acc, item, n) \in OutSet
         /\ GuidanceFirst(acc) => Places(acc, ChatTurn(acc, item, n), n)
  <1>1. item.role \in Roles /\ "system" \in Roles
    BY DEF ItemSet, Roles
  <1>2. Refused \in OutSet /\ Places(acc, Refused, n)
    BY DEF Refused, OutSet, Places
  <1> DEFINE bad == item.role = "function" \/ (item.calls # <<>> /\ ~Whole(Head(item.calls)))
  <1>3. CASE bad
    <2>1. ChatTurn(acc, item, n) = Refused
      BY <1>3 DEF ChatTurn
    <2>2. QED
      BY <1>2, <2>1
  <1>4. CASE ~bad /\ item.role \in {"system", "developer"}
    <2>0. /\ ~bad /\ item.role \in {"system", "developer"}
          /\ ~(item.role = "user" /\ LastRole(acc) = "user")
      BY <1>4
    <2> HIDE DEF bad
    <2>1. CASE LastRole(acc) = "none"
      <3>1. acc.turns = <<>>
        BY <2>1, NoTurns
      <3>2. ChatTurn(acc, item, n) = Added(acc, Turn("system", n))
        BY <2>0, <2>1 DEF ChatTurn, bad
      <3>3. QED
        BY <1>1, <3>1, <3>2, AddedPlaces DEF Places
    <2>2. CASE LastRole(acc) = "system"
      <3>1. ChatTurn(acc, item, n) = Joined(acc, 1, n)
        BY <2>0, <2>2 DEF ChatTurn, bad
      <3>2. acc.turns # <<>> /\ acc.turns \in Seq(TurnSet)
        BY <2>2 DEF LastRole, OutSet
      <3>3. 1 \in 1..Len(acc.turns)
        BY <3>2
      <3>4. Joined(acc, 1, n) \in OutSet
        BY <3>3, JoinedTurn
      <3>5. GuidanceFirst(acc) => Joining(acc, Joined(acc, 1, n), n)
        BY <2>2, GuidanceIsAlone, JoinedPlaces
      <3>6. QED
        BY <3>1, <3>4, <3>5 DEF Places
    <2>3. CASE LastRole(acc) \notin {"none", "system"}
      <3>1. ChatTurn(acc, item, n) = Refused
        BY <2>0, <2>3 DEF ChatTurn, bad
      <3>2. QED
        BY <1>2, <3>1
    <2>4. QED
      BY <2>1, <2>2, <2>3
  <1>5. CASE ~bad /\ item.role = "user" /\ LastRole(acc) = "user"
    <2>1. ChatTurn(acc, item, n) = Joined(acc, Len(acc.turns), n)
      BY <1>5 DEF ChatTurn
    <2>2. acc.turns # <<>>
      BY <1>5 DEF LastRole
    <2>3. QED
      BY <2>1, <2>2, JoinedPlaces DEF Places
  <1>6. CASE /\ ~bad /\ item.role \notin {"system", "developer"}
             /\ ~(item.role = "user" /\ LastRole(acc) = "user")
    <2>1. ChatTurn(acc, item, n) = Added(acc, Turn(item.role, n))
      BY <1>6 DEF ChatTurn
    <2>2. QED
      BY <1>1, <1>6, <2>1, AddedPlaces DEF Places
  <1>7. QED
    BY <1>3, <1>4, <1>5, <1>6

LEMMA AnthropicTurnPlaces ==
  ASSUME NEW acc \in OutSet, acc.ok, NEW item \in ItemSet, NEW n \in Nat
  PROVE  /\ AnthropicTurn(acc, item, n) \in OutSet
         /\ GuidanceFirst(acc) => Places(acc, AnthropicTurn(acc, item, n), n)
  <1>1. item.role \in Roles /\ {"system", "user", "assistant"} \subseteq Roles
    BY DEF ItemSet, Roles
  <1>2. Refused \in OutSet /\ Places(acc, Refused, n)
    BY DEF Refused, OutSet, Places
  <1> DEFINE Say(role) == Added(acc, Turn(role, n))
             out == AnthropicTurn(acc, item, n)
  <1>3. ASSUME NEW role \in {"user", "assistant"}
        PROVE  Say(role) \in OutSet /\ Begins(acc, Say(role), n)
    BY <1>1, AddedPlaces
  <1>4. CASE out = Refused
    BY <1>2, <1>4
  <1>5. CASE out = Say("user")
    BY <1>3, <1>5 DEF Places
  <1>6. CASE out = Say("system") /\ acc.turns = <<>>
    BY <1>1, <1>6, AddedPlaces DEF Places
  <1>7. CASE out = Joined(acc, 1, n) /\ acc.turns # <<>> /\ LastRole(acc) = "system"
    <2>1. 1 \in 1..Len(acc.turns)
      BY <1>7 DEF OutSet
    <2>2. Joined(acc, 1, n) \in OutSet
      BY <2>1, JoinedTurn
    <2>3. GuidanceFirst(acc) => Joining(acc, Joined(acc, 1, n), n)
      BY <1>7, GuidanceIsAlone, JoinedPlaces
    <2>4. QED
      BY <1>7, <2>2, <2>3 DEF Places
  <1>8. CASE out = [Say("assistant") EXCEPT !.known = @ \cup CallIds(item, n)]
    <2>1. PICK said \in OutSet : said = Say("assistant") /\ Begins(acc, said, n)
      BY <1>3
    <2>2. CallIds(item, n) \subseteq Nat
      <3>1. \A i \in DOMAIN item.calls : i \in Nat
        BY DEF ItemSet
      <3>2. QED
        BY <3>1 DEF CallIds
    <2>3. out = [said EXCEPT !.known = @ \cup CallIds(item, n)]
      BY <1>8, <2>1
    <2> HIDE DEF out
    <2>4. out \in OutSet /\ out.turns = said.turns
      BY <2>2, <2>3 DEF OutSet
    <2>5. QED
      BY <2>1, <2>4 DEF Begins, Places, out
  <1>9. \/ out = Refused
        \/ out = Say("user")
        \/ out = Say("system") /\ acc.turns = <<>>
        \/ out = Joined(acc, 1, n) /\ acc.turns # <<>> /\ LastRole(acc) = "system"
        \/ out = [Say("assistant") EXCEPT !.known = @ \cup CallIds(item, n)]
    <2>1. CASE item.role = "system"
      <3>1. out = IF acc.turns = <<>> THEN Say("system")
                  ELSE IF LastRole(acc) = "system" THEN Joined(acc, 1, n) ELSE Refused
        BY <2>1 DEF AnthropicTurn
      <3> HIDE DEF out
      <3>2. QED
        BY <3>1
    <2>2. CASE item.role = "user"
      BY <2>2 DEF AnthropicTurn
    <2>3. CASE item.role = "assistant"
      <3>1. out = [Say("assistant") EXCEPT !.known = @ \cup CallIds(item, n)] \/ out = Refused
        BY <2>3 DEF AnthropicTurn
      <3>2. QED
        BY <3>1
    <2>4. CASE item.role = "tool"
      <3>1. out = Say("user") \/ out = Refused
        BY <2>4 DEF AnthropicTurn
      <3>2. QED
        BY <3>1
    <2>5. CASE item.role \notin {"system", "user", "assistant", "tool"}
      <3>1. out = Refused
        BY <2>5 DEF AnthropicTurn
      <3>2. QED
        BY <3>1
    <2>6. QED
      BY <2>1, <2>2, <2>3, <2>4, <2>5
  <1>10. QED
    BY <1>4, <1>5, <1>6, <1>7, <1>8, <1>9

\* The turns hold the first m items in their order, guidance first.
Order(acc, m) == acc.ok => InOrder(acc) = [n \in 1..m |-> n] /\ GuidanceFirst(acc)

LEMMA PlacesKeepOrder ==
  ASSUME NEW acc \in OutSet, acc.ok, NEW out \in OutSet, NEW m \in Nat, NEW n \in Nat, n = m + 1,
         Order(acc, m), Places(acc, out, n)
  PROVE  Order(out, n)
  <1> SUFFICES ASSUME out.ok PROVE InOrder(out) = [i \in 1..n |-> i] /\ GuidanceFirst(out)
    BY DEF Order
  <1> DEFINE s == [t \in DOMAIN acc.turns |-> acc.turns[t].from]
             u == [t \in DOMAIN out.turns |-> out.turns[t].from]
  <1>1. acc.turns \in Seq(TurnSet) /\ out.turns \in Seq(TurnSet)
    BY DEF OutSet
  <1>2. s \in Seq(Seq(Nat)) /\ u \in Seq(Seq(Nat)) /\ Len(s) = Len(acc.turns) /\ Len(u) = Len(out.turns)
    <2>1. /\ Len(acc.turns) \in Nat /\ DOMAIN acc.turns = 1..Len(acc.turns)
          /\ Len(out.turns) \in Nat /\ DOMAIN out.turns = 1..Len(out.turns)
      BY <1>1
    <2>2. /\ \A t \in DOMAIN acc.turns : acc.turns[t] \in TurnSet
          /\ \A t \in DOMAIN out.turns : out.turns[t] \in TurnSet
      BY <1>1
    <2>3. \A turn \in TurnSet : turn.from \in Seq(Nat)
      BY DEF TurnSet
    <2>4. s \in [1..Len(acc.turns) -> Seq(Nat)] /\ u \in [1..Len(out.turns) -> Seq(Nat)]
      BY <2>1, <2>2, <2>3
    <2> HIDE DEF s, u
    <2>5. QED
      BY <2>1, <2>4, FunctionIsSequence
  <1>3. \A i \in 1..Len(acc.turns) : s[i] = acc.turns[i].from
    BY <1>1
  <1>4. \A i \in 1..Len(out.turns) : u[i] = out.turns[i].from
    BY <1>1
  <1>5. InOrder(acc) = FlattenSeq(s) /\ InOrder(out) = FlattenSeq(u)
    BY DEF InOrder
  <1> HIDE DEF s, u
  <1>6. InOrder(acc) = [i \in 1..m |-> i] /\ GuidanceFirst(acc)
    BY DEF Order
  <1>7. [i \in 1..m |-> i] \o <<n>> = [i \in 1..n |-> i]
    <2>1. PICK a \in [1..m -> Nat], b \in [1..n -> Nat] :
              /\ a = [i \in 1..m |-> i] /\ \A i \in 1..m : a[i] = i
              /\ b = [i \in 1..n |-> i] /\ \A i \in 1..n : b[i] = i
      <3>1. [i \in 1..m |-> i] \in [1..m -> Nat] /\ [i \in 1..n |-> i] \in [1..n -> Nat]
        OBVIOUS
      <3>2. QED
        BY <3>1
    <2>2. a \in Seq(Nat) /\ Len(a) = m /\ b \in Seq(Nat) /\ Len(b) = n
      BY FunctionIsSequence
    <2>3. PICK c : c = Append(a, n)
      OBVIOUS
    <2>4. c \in Seq(Nat) /\ Len(c) = n /\ c[n] = n /\ \A i \in 1..m : c[i] = i
      <3>1. c \in Seq(Nat) /\ Len(c) = m + 1 /\ c[m + 1] = n /\ \A i \in 1..m : c[i] = a[i]
        BY <2>2, <2>3, Appended
      <3>2. QED
        BY <2>1, <3>1
    <2>5. \A i \in 1..n : b[i] = c[i]
      <3>1. \A i \in 1..n : i \in 1..m \/ i = n
        OBVIOUS
      <3>2. QED
        BY <2>1, <2>4, <3>1
    <2>6. b = c
      BY <2>2, <2>4, <2>5, SeqEqual
    <2>7. c = a \o <<n>>
      BY <2>2, <2>3, AppendIsConcat
    <2>8. QED
      BY <2>1, <2>6, <2>7
  <1>8. CASE Begins(acc, out, n)
    <2>1. PICK role \in Roles : /\ out.turns = Append(acc.turns, Turn(role, n))
                                /\ role = "system" => acc.turns = <<>>
      BY <1>8 DEF Begins
    <2>2. PICK new \in TurnSet : new = Turn(role, n) /\ new.role = role /\ new.from = <<n>>
      <3>1. Turn(role, n) \in TurnSet
        BY DEF Turn, TurnSet
      <3>2. QED
        BY <3>1 DEF Turn
    <2>3. /\ Len(out.turns) = Len(acc.turns) + 1 /\ out.turns[Len(acc.turns) + 1] = new
          /\ \A i \in 1..Len(acc.turns) : out.turns[i] = acc.turns[i]
      <3>1. out.turns = Append(acc.turns, new)
        BY <2>1, <2>2
      <3>2. QED
        BY <1>1, <3>1, Appended
    <2>4. u = Append(s, <<n>>)
      <3>0. <<n>> \in Seq(Nat)
        OBVIOUS
      <3>a. PICK x \in Seq(Nat) : x = <<n>>
        BY <3>0
      <3>1. PICK v : x = <<n>> /\ v = Append(s, x)
        BY <3>a
      <3>2. /\ v \in Seq(Seq(Nat)) /\ Len(v) = Len(s) + 1
            /\ v[Len(s) + 1] = <<n>> /\ \A i \in 1..Len(s) : v[i] = s[i]
        BY <1>2, <3>1, Appended
      <3>3. ASSUME NEW i \in 1..Len(u) PROVE u[i] = v[i]
        <4>0. i \in 1..Len(out.turns) /\ u[i] = out.turns[i].from
          BY <1>2, <1>4
        <4>1. CASE i \in 1..Len(s)
          BY <1>2, <1>3, <2>3, <3>2, <4>0, <4>1
        <4>2. CASE i \notin 1..Len(s)
          <5>1. i = Len(s) + 1 /\ i = Len(acc.turns) + 1
            BY <1>2, <2>3, <4>2
          <5>2. out.turns[i] = new /\ v[i] = <<n>>
            BY <2>3, <3>2, <5>1
          <5>3. QED
            BY <2>2, <4>0, <5>2
        <4>3. QED
          BY <4>1, <4>2
      <3>4. Len(u) = Len(v)
        BY <1>2, <2>3, <3>2
      <3>5. u = v
        BY <1>2, <3>2, <3>3, <3>4, SeqEqual
      <3>6. QED
        BY <3>1, <3>5
    <2>5. InOrder(out) = InOrder(acc) \o <<n>>
      <3>1. <<n>> \in Seq(Nat)
        OBVIOUS
      <3>2. FlattenSeq(Append(s, <<n>>)) = FlattenSeq(s) \o <<n>>
        BY <1>2, <3>1, FlattenAppend
      <3>3. QED
        BY <1>5, <2>4, <3>2
    <2>6. GuidanceFirst(out)
      <3>1. ASSUME NEW t \in DOMAIN out.turns, out.turns[t].role = "system" PROVE t = 1
        <4>1. CASE t \in 1..Len(acc.turns)
          BY <1>1, <1>6, <2>3, <3>1, <4>1 DEF GuidanceFirst
        <4>2. CASE t \notin 1..Len(acc.turns)
          <5>1. t = Len(acc.turns) + 1
            BY <1>1, <2>3, <4>2
          <5>2. out.turns[t] = new
            BY <2>3, <5>1
          <5>3. new.role = "system"
            BY <3>1, <5>2
          <5>4. acc.turns = <<>>
            BY <2>1, <2>2, <5>3
          <5>5. QED
            BY <5>1, <5>4
        <4>3. QED
          BY <4>1, <4>2
      <3>2. QED
        BY <3>1 DEF GuidanceFirst
    <2>7. QED
      BY <1>6, <1>7, <2>5, <2>6
  <1>9. CASE Joining(acc, out, n)
    <2>1. PICK k \in Nat \ {0} : k = Len(acc.turns) /\ k = Len(out.turns)
      BY <1>1, <1>9 DEF Joining
    <2>2. /\ \A i \in 1..(k - 1) : out.turns[i] = acc.turns[i]
          /\ out.turns[k].role = acc.turns[k].role
          /\ out.turns[k].from = Append(acc.turns[k].from, n)
      BY <1>9, <2>1 DEF Joining, Last
    <2>3. \A i \in 1..(k - 1) : u[i] = s[i]
      BY <1>3, <1>4, <2>1, <2>2
    <2>4. u[k] = s[k] \o <<n>>
      <3>1. s[k] \in Seq(Nat) /\ s[k] = acc.turns[k].from /\ u[k] = out.turns[k].from
        BY <1>2, <1>3, <1>4, <2>1
      <3>2. QED
        BY <2>2, <3>1, AppendIsConcat
    <2>5. s # <<>> /\ Len(u) = Len(s) /\ Len(s) = k /\ <<n>> \in Seq(Nat)
      BY <1>2, <2>1
    <2>6. InOrder(out) = InOrder(acc) \o <<n>>
      <3>1. \A i \in 1..(Len(s) - 1) : u[i] = s[i]
        BY <2>3, <2>5
      <3>2. u[Len(s)] = s[Len(s)] \o <<n>>
        BY <2>4, <2>5
      <3>3. FlattenSeq(u) = FlattenSeq(s) \o <<n>>
        BY <1>2, <2>5, <3>1, <3>2, FlattenGrow
      <3>4. QED
        BY <1>5, <3>3
    <2>7. GuidanceFirst(out)
      <3>1. ASSUME NEW t \in DOMAIN out.turns, out.turns[t].role = "system" PROVE t = 1
        <4>1. t \in 1..k /\ t \in DOMAIN acc.turns
          <5>1. DOMAIN out.turns = 1..k /\ DOMAIN acc.turns = 1..k
            BY <1>1, <2>1, LenProperties
          <5>2. QED
            BY <5>1
        <4>2. acc.turns[t].role = "system"
          <5>1. t \in 1..(k - 1) \/ t = k
            BY <4>1
          <5>2. QED
            BY <2>2, <3>1, <5>1
        <4>3. QED
          BY <1>6, <4>1, <4>2 DEF GuidanceFirst
      <3>2. QED
        BY <3>1 DEF GuidanceFirst
    <2>8. QED
      BY <1>6, <1>7, <2>6, <2>7
  <1>10. QED
    BY <1>8, <1>9 DEF Places

\* A translation takes one item after the other.
LEMMA AnthropicSteps ==
  ASSUME NEW items \in Seq(ItemSet)
  PROVE  \E r \in [0..Len(items) -> OutSet] :
            /\ r[0] = Nothing /\ r[Len(items)] = Translate(AnthropicTurn, items)
            /\ \A m \in 1..Len(items) :
                  r[m] = IF r[m - 1].ok THEN AnthropicTurn(r[m - 1], items[m], m) ELSE r[m - 1]
  <1> DEFINE op(acc, n) == IF acc.ok THEN AnthropicTurn(acc, items[n], n) ELSE acc
             B == 1..Len(items)
             f == [n \in DOMAIN items |-> n]
             step == [acc \in OutSet |-> [n \in B |-> op(acc, n)]]
             solves(h) == h = [s \in SUBSET (DOMAIN f) |->
                                 IF s = {} THEN Nothing ELSE op(h[s \ {Max(s)}], f[Max(s)])]
             g == CHOOSE h : solves(h)
  <1>1. Translate(AnthropicTurn, items) = g[DOMAIN f]
    BY DEF Translate, FoldLeft, MapThenFoldSet
  <1>2. PICK N \in Nat : N = Len(items) /\ B = 1..N /\ DOMAIN f = 1..N /\ f \in [1..N -> B]
                         /\ \A n \in 1..N : f[n] = n
    OBVIOUS
  <1>3. Nothing \in OutSet
    BY DEF Nothing, OutSet
  <1>4. step \in [OutSet -> [B -> OutSet]]
    <2>1. \A acc \in OutSet, n \in B : op(acc, n) \in OutSet
      <3>1. \A n \in B : n \in Nat /\ items[n] \in ItemSet
        OBVIOUS
      <3> HIDE DEF B
      <3>2. QED
        BY <3>1, AnthropicTurnPlaces
    <2> HIDE DEF op, B
    <2>2. QED
      BY <2>1
  <1> HIDE DEF B, f
  <1>5. \A s \in SUBSET (1..N) : s # {} => f[Max(s)] \in B
    <2>1. ASSUME NEW s \in SUBSET (1..N), s # {} PROVE f[Max(s)] \in B
      <3>1. Max(s) \in 1..N
        BY <2>1, LargestNumber
      <3>2. QED
        BY <1>2, <3>1
    <2>2. QED
      BY <2>1
  <1>6. solves(g)
    <2>1. PICK h \in [SUBSET (1..N) -> OutSet] : Folded(h, step, Nothing, f, N)
      <3> HIDE DEF step
      <3>1. QED
        BY <1>2, <1>3, <1>4, StepsExist
    <2>2. ASSUME NEW s \in SUBSET (1..N), s # {}
          PROVE  step[h[s \ {Max(s)}]][f[Max(s)]] = op(h[s \ {Max(s)}], f[Max(s)])
      <3>1. h[s \ {Max(s)}] \in OutSet /\ f[Max(s)] \in B
        BY <1>5, <2>2
      <3> HIDE DEF op
      <3>2. QED
        BY <3>1
    <2> HIDE DEF op, step
    <2>3. solves(h)
      BY <1>2, <2>1, <2>2 DEF Folded
    <2> HIDE DEF solves
    <2>4. QED
      BY <2>3
  <1>7. FoldsIn(OutSet, g, step, Nothing, f, N)
    <2> HIDE DEF g, op
    <2>1. ASSUME NEW s \in SUBSET (1..N), s # {}, g[s \ {Max(s)}] \in OutSet
          PROVE  g[s] = step[g[s \ {Max(s)}]][f[Max(s)]]
      <3>1. f[Max(s)] \in B
        BY <1>5, <2>1
      <3>2. g[s] = op(g[s \ {Max(s)}], f[Max(s)])
        BY <1>2, <1>6, <2>1
      <3>3. QED
        BY <2>1, <3>1, <3>2
    <2>2. g[{}] = Nothing
      BY <1>6
    <2> HIDE DEF step
    <2>3. QED
      BY <2>1, <2>2 DEF FoldsIn
  <1>8. PICK r : StepByStep(OutSet, r, step, Nothing, f, N, g[1..N])
    <2> HIDE DEF step, g
    <2>1. QED
      BY <1>2, <1>3, <1>4, <1>7, FoldTakesSteps
  <1>9. ASSUME NEW m \in 1..N PROVE r[m] = op(r[m - 1], m)
    <2>1. m - 1 \in 0..N /\ f[m] = m /\ m \in B
      BY <1>2
    <2>2. r[m - 1] \in OutSet /\ r[m] = step[r[m - 1]][m]
      BY <1>8, <2>1 DEF StepByStep
    <2> HIDE DEF op
    <2>3. QED
      BY <2>1, <2>2
  <1>10. /\ r \in [0..N -> OutSet] /\ r[0] = Nothing /\ r[N] = g[1..N]
         /\ \A m \in 1..N : r[m] = op(r[m - 1], m)
    BY <1>8, <1>9 DEF StepByStep
  <1> HIDE DEF g
  <1>11. QED
    BY <1>1, <1>2, <1>10

\* The same, for a Chat Completions backend.
LEMMA ChatSteps ==
  ASSUME NEW items \in Seq(ItemSet)
  PROVE  \E r \in [0..Len(items) -> OutSet] :
            /\ r[0] = Nothing /\ r[Len(items)] = Translate(ChatTurn, items)
            /\ \A m \in 1..Len(items) :
                  r[m] = IF r[m - 1].ok THEN ChatTurn(r[m - 1], items[m], m) ELSE r[m - 1]
  <1> DEFINE op(acc, n) == IF acc.ok THEN ChatTurn(acc, items[n], n) ELSE acc
             B == 1..Len(items)
             f == [n \in DOMAIN items |-> n]
             step == [acc \in OutSet |-> [n \in B |-> op(acc, n)]]
             solves(h) == h = [s \in SUBSET (DOMAIN f) |->
                                 IF s = {} THEN Nothing ELSE op(h[s \ {Max(s)}], f[Max(s)])]
             g == CHOOSE h : solves(h)
  <1>1. Translate(ChatTurn, items) = g[DOMAIN f]
    BY DEF Translate, FoldLeft, MapThenFoldSet
  <1>2. PICK N \in Nat : N = Len(items) /\ B = 1..N /\ DOMAIN f = 1..N /\ f \in [1..N -> B]
                         /\ \A n \in 1..N : f[n] = n
    OBVIOUS
  <1>3. Nothing \in OutSet
    BY DEF Nothing, OutSet
  <1>4. step \in [OutSet -> [B -> OutSet]]
    <2>1. \A acc \in OutSet, n \in B : op(acc, n) \in OutSet
      <3>1. \A n \in B : n \in Nat /\ items[n] \in ItemSet
        OBVIOUS
      <3> HIDE DEF B
      <3>2. QED
        BY <3>1, ChatTurnPlaces
    <2> HIDE DEF op, B
    <2>2. QED
      BY <2>1
  <1> HIDE DEF B, f
  <1>5. \A s \in SUBSET (1..N) : s # {} => f[Max(s)] \in B
    <2>1. ASSUME NEW s \in SUBSET (1..N), s # {} PROVE f[Max(s)] \in B
      <3>1. Max(s) \in 1..N
        BY <2>1, LargestNumber
      <3>2. QED
        BY <1>2, <3>1
    <2>2. QED
      BY <2>1
  <1>6. solves(g)
    <2>1. PICK h \in [SUBSET (1..N) -> OutSet] : Folded(h, step, Nothing, f, N)
      <3> HIDE DEF step
      <3>1. QED
        BY <1>2, <1>3, <1>4, StepsExist
    <2>2. ASSUME NEW s \in SUBSET (1..N), s # {}
          PROVE  step[h[s \ {Max(s)}]][f[Max(s)]] = op(h[s \ {Max(s)}], f[Max(s)])
      <3>1. h[s \ {Max(s)}] \in OutSet /\ f[Max(s)] \in B
        BY <1>5, <2>2
      <3> HIDE DEF op
      <3>2. QED
        BY <3>1
    <2> HIDE DEF op, step
    <2>3. solves(h)
      BY <1>2, <2>1, <2>2 DEF Folded
    <2> HIDE DEF solves
    <2>4. QED
      BY <2>3
  <1>7. FoldsIn(OutSet, g, step, Nothing, f, N)
    <2> HIDE DEF g, op
    <2>1. ASSUME NEW s \in SUBSET (1..N), s # {}, g[s \ {Max(s)}] \in OutSet
          PROVE  g[s] = step[g[s \ {Max(s)}]][f[Max(s)]]
      <3>1. f[Max(s)] \in B
        BY <1>5, <2>1
      <3>2. g[s] = op(g[s \ {Max(s)}], f[Max(s)])
        BY <1>2, <1>6, <2>1
      <3>3. QED
        BY <2>1, <3>1, <3>2
    <2>2. g[{}] = Nothing
      BY <1>6
    <2> HIDE DEF step
    <2>3. QED
      BY <2>1, <2>2 DEF FoldsIn
  <1>8. PICK r : StepByStep(OutSet, r, step, Nothing, f, N, g[1..N])
    <2> HIDE DEF step, g
    <2>1. QED
      BY <1>2, <1>3, <1>4, <1>7, FoldTakesSteps
  <1>9. ASSUME NEW m \in 1..N PROVE r[m] = op(r[m - 1], m)
    <2>1. m - 1 \in 0..N /\ f[m] = m /\ m \in B
      BY <1>2
    <2>2. r[m - 1] \in OutSet /\ r[m] = step[r[m - 1]][m]
      BY <1>8, <2>1 DEF StepByStep
    <2> HIDE DEF op
    <2>3. QED
      BY <2>1, <2>2
  <1>10. /\ r \in [0..N -> OutSet] /\ r[0] = Nothing /\ r[N] = g[1..N]
         /\ \A m \in 1..N : r[m] = op(r[m - 1], m)
    BY <1>8, <1>9 DEF StepByStep
  <1> HIDE DEF g
  <1>11. QED
    BY <1>1, <1>2, <1>10

LEMMA NothingInOrder == Nothing \in OutSet /\ Order(Nothing, 0)
  <1>1. Nothing \in OutSet /\ Nothing.turns = <<>>
    BY DEF Nothing, OutSet
  <1>2. InOrder(Nothing) = <<>>
    <2>1. [t \in DOMAIN Nothing.turns |-> Nothing.turns[t].from] = <<>>
      BY <1>1
    <2>2. FlattenSeq(<<>>) = <<>>
      BY DEF FlattenSeq
    <2>3. QED
      BY <2>1, <2>2 DEF InOrder
  <1>3. GuidanceFirst(Nothing)
    BY <1>1 DEF GuidanceFirst
  <1>4. [n \in 1..0 |-> n] = <<>>
    OBVIOUS
  <1>5. QED
    BY <1>1, <1>2, <1>3, <1>4 DEF Order

LEMMA AnthropicInOrder ==
  ASSUME NEW items \in Seq(ItemSet)
  PROVE  Translate(AnthropicTurn, items) \in OutSet /\ Order(Translate(AnthropicTurn, items), Len(items))
  <1>1. PICK r \in [0..Len(items) -> OutSet] :
            /\ r[0] = Nothing /\ r[Len(items)] = Translate(AnthropicTurn, items)
            /\ \A m \in 1..Len(items) :
                  r[m] = IF r[m - 1].ok THEN AnthropicTurn(r[m - 1], items[m], m) ELSE r[m - 1]
    BY AnthropicSteps
  <1>2. PICK N \in Nat : N = Len(items)
    OBVIOUS
  <1> DEFINE T == {m \in 0..N : Order(r[m], m)}
  <1>3. 0 \in T
    <2>1. Order(Nothing, 0)
      BY NothingInOrder
    <2>2. QED
      BY <1>1, <2>1
  <1>4. ASSUME NEW m \in 1..N, m - 1 \in T PROVE m \in T
    <2>1. PICK k \in 0..N : k = m - 1 /\ k \in Nat /\ m = k + 1 /\ m \in 0..N /\ m \in Nat
      OBVIOUS
    <2>2. Order(r[k], k) /\ r[k] \in OutSet /\ r[m] \in OutSet /\ items[m] \in ItemSet
      BY <1>1, <1>2, <1>4, <2>1
    <2>3. r[m] = IF r[k].ok THEN AnthropicTurn(r[k], items[m], m) ELSE r[k]
      BY <1>1, <1>2, <2>1
    <2>4. CASE r[k].ok
      <3>1. GuidanceFirst(r[k])
        BY <2>2, <2>4 DEF Order
      <3>2. Places(r[k], r[m], m)
        BY <2>1, <2>2, <2>3, <2>4, <3>1, AnthropicTurnPlaces
      <3>3. Order(r[m], m)
        BY <2>1, <2>2, <2>4, <3>2, PlacesKeepOrder
      <3>4. QED
        BY <2>1, <3>3
    <2>5. CASE ~r[k].ok
      BY <2>1, <2>3, <2>5 DEF Order
    <2>6. QED
      BY <2>4, <2>5
  <1>5. 0..N \subseteq T
    <2> HIDE DEF T
    <2>1. QED
      BY <1>3, <1>4, StepInduction
  <1>6. N \in 0..N
    OBVIOUS
  <1>7. QED
    BY <1>1, <1>2, <1>5, <1>6

LEMMA ChatInOrder ==
  ASSUME NEW items \in Seq(ItemSet)
  PROVE  Translate(ChatTurn, items) \in OutSet /\ Order(Translate(ChatTurn, items), Len(items))
  <1>1. PICK r \in [0..Len(items) -> OutSet] :
            /\ r[0] = Nothing /\ r[Len(items)] = Translate(ChatTurn, items)
            /\ \A m \in 1..Len(items) :
                  r[m] = IF r[m - 1].ok THEN ChatTurn(r[m - 1], items[m], m) ELSE r[m - 1]
    BY ChatSteps
  <1>2. PICK N \in Nat : N = Len(items)
    OBVIOUS
  <1> DEFINE T == {m \in 0..N : Order(r[m], m)}
  <1>3. 0 \in T
    <2>1. Order(Nothing, 0)
      BY NothingInOrder
    <2>2. QED
      BY <1>1, <2>1
  <1>4. ASSUME NEW m \in 1..N, m - 1 \in T PROVE m \in T
    <2>1. PICK k \in 0..N : k = m - 1 /\ k \in Nat /\ m = k + 1 /\ m \in 0..N /\ m \in Nat
      OBVIOUS
    <2>2. Order(r[k], k) /\ r[k] \in OutSet /\ r[m] \in OutSet /\ items[m] \in ItemSet
      BY <1>1, <1>2, <1>4, <2>1
    <2>3. r[m] = IF r[k].ok THEN ChatTurn(r[k], items[m], m) ELSE r[k]
      BY <1>1, <1>2, <2>1
    <2>4. CASE r[k].ok
      <3>1. GuidanceFirst(r[k])
        BY <2>2, <2>4 DEF Order
      <3>2. Places(r[k], r[m], m)
        BY <2>1, <2>2, <2>3, <2>4, <3>1, ChatTurnPlaces
      <3>3. Order(r[m], m)
        BY <2>1, <2>2, <2>4, <3>2, PlacesKeepOrder
      <3>4. QED
        BY <2>1, <3>3
    <2>5. CASE ~r[k].ok
      BY <2>1, <2>3, <2>5 DEF Order
    <2>6. QED
      BY <2>4, <2>5
  <1>5. 0..N \subseteq T
    <2> HIDE DEF T
    <2>1. QED
      BY <1>3, <1>4, StepInduction
  <1>6. N \in 0..N
    OBVIOUS
  <1>7. QED
    BY <1>1, <1>2, <1>5, <1>6

-----------------------------------------------------------------------------
\* What the translations take: messages of the user, and replies whose calls
\* are whole.

Said == {item \in ItemSet : item.role = "user"}

AnthropicTakes ==
    Said \cup {item \in ItemSet : /\ item.role = "assistant" /\ (item.text \/ item.calls # <<>>)
                                 /\ \A n \in 1..Len(item.calls) : Whole(item.calls[n])}

ChatTakes ==
    Said \cup {item \in ItemSet : item.role = "assistant"}

LEMMA AnthropicTaken ==
  ASSUME NEW items \in Seq(ItemSet), items # <<>>,
         \A n \in 1..Len(items) : items[n] \in AnthropicTakes
  PROVE  translateAnthropicRequest(items).ok
  <1>1. PICK r \in [0..Len(items) -> OutSet] :
            /\ r[0] = Nothing /\ r[Len(items)] = Translate(AnthropicTurn, items)
            /\ \A m \in 1..Len(items) :
                  r[m] = IF r[m - 1].ok THEN AnthropicTurn(r[m - 1], items[m], m) ELSE r[m - 1]
    BY AnthropicSteps
  <1>2. PICK N \in Nat \ {0} : N = Len(items)
    OBVIOUS
  <1> DEFINE T == {m \in 0..N : r[m].ok /\ (m # 0 => LastRole(r[m]) \in {"user", "assistant"})}
  <1>3. N \in Nat /\ 0 \in T
    BY <1>1 DEF Nothing
  <1>4. ASSUME NEW m \in 1..N, m - 1 \in T PROVE m \in T
    <2>1. PICK k \in 0..N : k = m - 1 /\ m \in 0..N
      OBVIOUS
    <2>2. PICK acc \in OutSet : acc = r[k] /\ acc.ok
      BY <1>1, <1>2, <1>4, <2>1
    <2>3. PICK item \in ItemSet : item = items[m] /\ item \in AnthropicTakes
      BY <1>2
    <2>4. r[m] = AnthropicTurn(acc, item, m)
      BY <1>1, <1>2, <2>1, <2>2, <2>3
    <2> DEFINE Say(role) == Added(acc, Turn(role, m))
    <2>5. ASSUME NEW role \in {"user", "assistant"}
          PROVE  Say(role) \in OutSet /\ Say(role).ok /\ LastRole(Say(role)) = role
      <3>1. PICK turn \in TurnSet : turn = Turn(role, m) /\ turn.role = role
        <4>1. Turn(role, m) \in TurnSet
          BY DEF Turn, TurnSet, Roles
        <4>2. QED
          BY <4>1 DEF Turn
      <3>2. /\ Say(role) \in OutSet /\ Say(role).ok = acc.ok
            /\ Say(role).turns = Append(acc.turns, turn)
        BY <3>1, AddedTurn
      <3>3. acc.turns \in Seq(TurnSet)
        BY DEF OutSet
      <3>4. PICK turns : turns = Say(role).turns /\ turns = Append(acc.turns, turn)
        BY <3>2
      <3>5. turns # <<>> /\ Last(turns) = turn
        <4>1. turns # <<>> /\ Len(turns) = Len(acc.turns) + 1 /\ turns[Len(acc.turns) + 1] = turn
          BY <3>3, <3>4, Appended
        <4>2. QED
          BY <4>1 DEF Last
      <3> HIDE DEF Say
      <3>6. QED
        BY <2>2, <3>1, <3>2, <3>4, <3>5 DEF LastRole
    <2>6. CASE item.role = "user"
      <3>1. r[m] = Say("user")
        BY <2>4, <2>6 DEF AnthropicTurn
      <3> HIDE DEF Say
      <3>2. QED
        BY <2>1, <2>5, <3>1
    <2>7. CASE item.role # "user"
      <3>1. /\ item.role = "assistant" /\ (item.text \/ item.calls # <<>>)
            /\ \A n \in 1..Len(item.calls) : Whole(item.calls[n])
        BY <2>3, <2>7 DEF AnthropicTakes, Said
      <3>2. DOMAIN item.calls = 1..Len(item.calls)
        BY DEF ItemSet
      <3>3. r[m] = [Say("assistant") EXCEPT !.known = @ \cup CallIds(item, m)]
        BY <2>4, <3>1, <3>2 DEF AnthropicTurn
      <3>4. PICK said \in OutSet : said = Say("assistant") /\ said.ok /\ LastRole(said) = "assistant"
        BY <2>5
      <3>5. r[m].ok = said.ok /\ r[m].turns = said.turns
        BY <3>3, <3>4 DEF OutSet
      <3>6. QED
        BY <2>1, <3>4, <3>5 DEF LastRole
    <2>8. QED
      BY <2>6, <2>7
  <1>5. 0..N \subseteq T
    <2> HIDE DEF T
    <2>1. QED
      BY <1>3, <1>4, StepInduction
  <1>6. N \in 0..N /\ N # 0
    OBVIOUS
  <1>7. Translate(AnthropicTurn, items).ok
        /\ LastRole(Translate(AnthropicTurn, items)) \in {"user", "assistant"}
    BY <1>1, <1>2, <1>5, <1>6
  <1>8. QED
    BY <1>7 DEF translateAnthropicRequest

LEMMA ChatTaken ==
  ASSUME NEW items \in Seq(ItemSet),
         \A n \in 1..Len(items) : /\ items[n] \in ChatTakes
                                  /\ items[n].calls # <<>> => Whole(Head(items[n].calls))
  PROVE  buildChatRequest(items).ok
  <1>1. PICK r \in [0..Len(items) -> OutSet] :
            /\ r[0] = Nothing /\ r[Len(items)] = Translate(ChatTurn, items)
            /\ \A m \in 1..Len(items) :
                  r[m] = IF r[m - 1].ok THEN ChatTurn(r[m - 1], items[m], m) ELSE r[m - 1]
    BY ChatSteps
  <1>2. PICK N \in Nat : N = Len(items)
    OBVIOUS
  <1> DEFINE T == {m \in 0..N : r[m].ok}
  <1>3. 0 \in T
    BY <1>1 DEF Nothing
  <1>4. ASSUME NEW m \in 1..N, m - 1 \in T PROVE m \in T
    <2>1. PICK k \in 0..N : k = m - 1 /\ m \in 0..N
      OBVIOUS
    <2>2. PICK acc \in OutSet : acc = r[k] /\ acc.ok
      BY <1>1, <1>2, <1>4, <2>1
    <2>3. PICK item \in ItemSet : item = items[m] /\ item.role \in {"user", "assistant"}
                                  /\ (item.calls # <<>> => Whole(Head(item.calls)))
      <3>1. m \in 1..Len(items) /\ items[m] \in ItemSet
        BY <1>2
      <3>2. PICK item \in ItemSet : item = items[m]
        BY <3>1
      <3>3. item \in ChatTakes /\ (item.calls # <<>> => Whole(Head(item.calls)))
        BY <3>1, <3>2
      <3>4. item.role \in {"user", "assistant"}
        BY <3>3 DEF ChatTakes, Said
      <3>5. QED
        BY <3>2, <3>3, <3>4
    <2>4. r[m] = ChatTurn(acc, item, m)
      BY <1>1, <1>2, <2>1, <2>2, <2>3
    <2>5. CASE item.role = "user" /\ LastRole(acc) = "user"
      <3>1. r[m] = Joined(acc, Len(acc.turns), m)
        BY <2>3, <2>4, <2>5 DEF ChatTurn
      <3>2. acc.turns \in Seq(TurnSet) /\ acc.turns # <<>>
        BY <2>5 DEF LastRole, OutSet
      <3>3. PICK t \in 1..Len(acc.turns) : t = Len(acc.turns)
        BY <3>2
      <3>4. r[m].ok
        <4>1. Joined(acc, t, m).ok = acc.ok
          BY <2>2, JoinedTurn, m \in Nat
        <4>2. QED
          BY <2>2, <3>1, <3>3, <4>1
      <3>5. QED
        BY <2>1, <3>4
    <2>6. CASE ~(item.role = "user" /\ LastRole(acc) = "user")
      <3>1. r[m] = Added(acc, Turn(item.role, m))
        BY <2>3, <2>4, <2>6 DEF ChatTurn
      <3>2. Turn(item.role, m) \in TurnSet
        BY <2>3 DEF Turn, TurnSet, Roles
      <3>3. r[m].ok
        BY <2>2, <3>1, <3>2, AddedTurn
      <3>4. QED
        BY <2>1, <3>3
    <2>7. QED
      BY <2>5, <2>6
  <1>5. 0..N \subseteq T
    <2> HIDE DEF T
    <2>1. QED
      BY <1>2, <1>3, <1>4, StepInduction
  <1>6. N \in 0..N
    OBVIOUS
  <1>7. QED
    BY <1>1, <1>2, <1>5, <1>6 DEF buildChatRequest

\* A conversation with a finished reply.
\* An agent sends a reply back, and goes on.
GoesOn(reply, items) == items = <<Item("user")>> \o reply \o <<Item("user")>>

LEMMA Sandwich ==
  ASSUME NEW reply \in Seq(ItemSet), NEW items, GoesOn(reply, items)
  PROVE  /\ items \in Seq(ItemSet) /\ items # <<>> /\ Item("user") \in ItemSet
         /\ \A n \in 1..Len(items) :
               items[n] = Item("user") \/ \E i \in 1..Len(reply) : items[n] = reply[i]
  <1>1. Item("user") \in ItemSet
    BY DEF Item, ItemSet, Roles
  <1>2. PICK user \in ItemSet : user = Item("user")
    BY <1>1
  <1>3. PICK a : a = <<user>> \o reply
    OBVIOUS
  <1>5. /\ a \in Seq(ItemSet) /\ Len(a) = Len(reply) + 1 /\ a[1] = user
        /\ \A i \in 2..(Len(reply) + 1) : a[i] = reply[i - 1]
    BY <1>3
  <1>4. items = Append(a, user)
    <2>1. Append(a, user) = a \o <<user>>
      BY <1>5, AppendIsConcat
    <2>2. QED
      BY <1>2, <1>3, <2>1 DEF GoesOn
  <1>6. /\ items \in Seq(ItemSet) /\ items # <<>> /\ Len(items) = Len(a) + 1
        /\ items[Len(a) + 1] = user /\ \A i \in 1..Len(a) : items[i] = a[i]
    BY <1>4, <1>5, Appended
  <1>8. ASSUME NEW n \in 1..Len(items)
        PROVE  items[n] = user \/ \E i \in 1..Len(reply) : items[n] = reply[i]
    <2>1. Len(reply) \in Nat
      OBVIOUS
    <2>2. n = 1 \/ n = Len(a) + 1 \/ n \in 2..(Len(reply) + 1)
      BY <1>5, <1>6, <2>1
    <2>3. CASE n = 1
      <3>1. 1 \in 1..Len(a)
        BY <1>5, <2>1
      <3>2. QED
        BY <1>5, <1>6, <2>3, <3>1
    <2>4. CASE n = Len(a) + 1
      BY <1>6, <2>4
    <2>5. CASE n \in 2..(Len(reply) + 1)
      <3>1. n \in 1..Len(a) /\ n - 1 \in 1..Len(reply)
        BY <1>5, <2>1, <2>5
      <3>2. QED
        BY <1>5, <1>6, <2>5, <3>1
    <2>6. QED
      BY <2>2, <2>3, <2>4, <2>5
  <1>9. QED
    BY <1>2, <1>6, <1>8
=============================================================================
