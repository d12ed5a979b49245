------------------------ MODULE PolicyBudgetProofs ------------------------
(***************************************************************************)
(* Proofs about PolicyBudget, for every number of runs, requests and       *)
(* reservations, every limit and every usage.                              *)
(*                                                                         *)
(* First what needs no sum, but that a call in flight owns the reservation *)
(* it is to settle; then that the counters of a run are the sum of its     *)
(* reservations, and what follows from it.  FoldProofs says what becomes   *)
(* of a sum when a reservation is made or changed.                         *)
(***************************************************************************)
EXTENDS PolicyBudget, FoldProofs

InFlight(q) == pc[q] \in {"call", "settle"}

\* The shape of the tables.  An amount may be any integer here: that none is
\* negative, and no cost of a run, is proved below.
Tables ==
    /\ policyRuns \in [Runs -> [present : BOOLEAN, calls : Int, usage : [Kinds -> Int]]]
    /\ reservations \in [Ids -> [run : Runs \cup {None}, amount : [Kinds -> Int],
                                 reconciled : BOOLEAN]]
    /\ sent \in [Runs -> Int]

\* The shape of the requests; a report over the estimate marks its run.
Locals ==
    /\ pc \in [Requests -> {"idle", "daily", "reserve", "call", "settle", "count"}]
    /\ run \in [Requests -> Runs \cup {None}]
    /\ est \in [Requests -> Estimates \cup {Zero}]
    /\ id \in [Requests -> Ids \cup {None}]
    /\ spent \in [Requests -> Actuals \cup {Zero}]
    /\ \A q \in Requests : pc[q] # "idle" =>
          run[q] \in Runs /\ est[q] \in Estimates /\ Admissible(est[q])
    /\ overrun \in SUBSET Runs /\ pruned \in SUBSET Runs /\ pruning \subseteq pruned
    /\ \A q \in Requests : pc[q] = "settle" =>
          /\ spent[q] \in Actuals
          /\ run[q] \in overrun \/ Honest(spent[q], est[q])

\* A call in flight owns a reservation, made for its estimate, until its run is
\* pruned.
Owned ==
    /\ \A q \in Requests : InFlight(q) =>
          /\ id[q] \in Ids
          /\ \/ reservations[id[q]] = NoReservation /\ run[q] \in pruned
             \/ /\ reservations[id[q]].run = run[q]
                /\ reservations[id[q]].amount = Priced(est[q])
    /\ \A p, q \in Requests : InFlight(p) /\ InFlight(q) /\ p # q => id[p] # id[q]

\* A call that was let through was counted, and none is counted over the limit.
Counted ==
    /\ \A r \in Runs \ pruned : sent[r] <= policyRuns[r].calls
    /\ Limit.calls > 0 => \A r \in Runs : policyRuns[r].calls <= Limit.calls

IInv == Tables /\ Locals /\ Owned

-----------------------------------------------------------------------------
\* Amounts: what the operations on them return.

\* The amount reserved for an estimate.
LEMMA PricedType ==
    ASSUME NEW e \in Estimates
    PROVE  Priced(e) \in [Kinds -> Int]
  BY UsageAssumption DEF Priced, Estimate, Kinds, Counters, Unknown

\* What a report makes of a reservation.
LEMMA ReportedType ==
    ASSUME NEW a \in Actuals, NEW u \in [Kinds -> Int]
    PROVE  Reported(a, u) \in [Kinds -> Int]
  BY UsageAssumption DEF Reported, Actual, Unknown

\* What is left of a run's usage when a call is settled.
LEMMA SettledType ==
    ASSUME NEW u \in [Kinds -> Int], NEW v \in [Kinds -> Int], NEW w \in [Kinds -> Int]
    PROVE  Settled(u, v, w) \in [Kinds -> Int]
  BY DEF Settled

\* What a reservation makes of a run's usage.
LEMMA PlusType ==
    ASSUME NEW u \in [Kinds -> Int], NEW v \in [Kinds -> Int]
    PROVE  Plus(u, v) \in [Kinds -> Int]
  BY DEF Plus

\* The usage of a row that does not exist yet.
LEMMA ZeroType == Zero \in [Kinds -> Int]
  BY DEF Zero

\* Settling an honest report does not raise a counter.
LEMMA HonestSettles ==
    ASSUME NEW a \in Actuals, NEW e \in Estimates, Honest(a, e),
           NEW u \in [Kinds -> Int], NEW k \in Kinds
    PROVE  Settled(u, Priced(e), Reported(a, Priced(e)))[k] <= u[k]
  <1>1. Priced(e) \in [Kinds -> Int] BY PricedType
  <1>2. a[k] <= Priced(e)[k] BY DEF Honest
  <1>3. a[k] \in Int BY UsageAssumption DEF Actual, Unknown
  <1>4. Reported(a, Priced(e))[k] = IF a[k] = Unknown THEN Priced(e)[k] ELSE a[k]
    BY DEF Reported
  <1>5. Settled(u, Priced(e), Reported(a, Priced(e)))[k]
            = (u[k] - Priced(e)[k]) + Reported(a, Priced(e))[k]
    BY DEF Settled
  <1> QED BY <1>1, <1>2, <1>3, <1>4, <1>5

\* Counters that do not rise stay within the limits.
LEMMA LowerWithinLimits ==
    ASSUME NEW u \in [Kinds -> Int], NEW v \in [Kinds -> Int],
           \A k \in Kinds : v[k] <= u[k], WithinLimits(u)
    PROVE  WithinLimits(v)
  <1>1. Limit["input"] \in Int /\ Limit["output"] \in Int /\ Limit["tools"] \in Int
        /\ Limit.total \in Int
    BY LimitAssumption
  <1>2. Limit.cost \in Int BY LimitAssumption DEF Unknown
  <1>3. \A k \in Counters : Limit[k] \in Int
    BY <1>1 DEF Counters
  <1> QED BY <1>1, <1>2, <1>3 DEF WithinLimits, Kinds, Counters

-----------------------------------------------------------------------------
\* IInv is inductive: initially, and for each of its parts under every step.

\* It holds at first.
LEMMA InitIInv == Init => IInv
  BY ZeroType DEF Init, IInv, Tables, Locals, Owned, InFlight, NoRun, NoReservation

\* Reserve and Reconcile write amounts of the right shape, pruning resets rows.
LEMMA TablesStep == IInv /\ [Next]_vars => Tables'
  <1> SUFFICES ASSUME IInv, [Next]_vars PROVE Tables'
    OBVIOUS
  <1> USE DEF IInv, Tables
  <1>1. ASSUME NEW q \in Requests, Reserve(q) PROVE Tables'
    <2> DEFINE r == run[q]
               amount == Priced(est[q])
               next == Plus(policyRuns[r].usage, amount)
    <2>1. r \in Runs /\ est[q] \in Estimates
      BY <1>1 DEF Reserve, Locals
    <2>2. amount \in [Kinds -> Int]
      BY <2>1, PricedType
    <2>3. next \in [Kinds -> Int]
      BY <2>1, <2>2, PlusType
    <2>4. policyRuns' = [policyRuns EXCEPT ![r] =
              [present |-> TRUE, calls |-> policyRuns[r].calls + 1, usage |-> next]]
      BY <1>1 DEF Reserve
    <2>5. PICK i \in Ids : reservations' = [reservations EXCEPT ![i] =
              [run |-> r, amount |-> amount, reconciled |-> FALSE]]
      <3>1. FreeIds \subseteq Ids
        BY DEF FreeIds
      <3> QED BY <1>1, <3>1 DEF Reserve
    <2>6. sent' \in [Runs -> Int]
      BY <1>1 DEF Reserve, Return
    <2>7. [present |-> TRUE, calls |-> policyRuns[r].calls + 1, usage |-> next]
              \in [present : BOOLEAN, calls : Int, usage : [Kinds -> Int]]
      BY <2>1, <2>3
    <2>8. [run |-> r, amount |-> amount, reconciled |-> FALSE]
              \in [run : Runs \cup {None}, amount : [Kinds -> Int], reconciled : BOOLEAN]
      BY <2>1, <2>2
    <2> HIDE DEF r, amount, next
    <2> QED BY <2>4, <2>5, <2>6, <2>7, <2>8
  <1>2. ASSUME NEW q \in Requests, Reconcile(q), pc[q] = "settle", sent' = sent PROVE Tables'
    <2> DEFINE final == Reported(spent[q], reservations[id[q]].amount)
               settled == Settled(policyRuns[run[q]].usage, reservations[id[q]].amount, final)
    <2>1. run[q] \in Runs /\ id[q] \in Ids /\ spent[q] \in Actuals
      BY <1>2 DEF Locals, Owned, InFlight
    <2>2. final \in [Kinds -> Int]
      BY <2>1, ReportedType
    <2>3. settled \in [Kinds -> Int]
      BY <2>1, <2>2, SettledType
    <2>4. CASE reservations[id[q]].reconciled
      BY <1>2, <2>4 DEF Reconcile
    <2>5. CASE ~reservations[id[q]].reconciled
      <3>1. policyRuns' = [policyRuns EXCEPT ![run[q]].usage = settled]
        BY <1>2, <2>5 DEF Reconcile
      <3>2. reservations' = [reservations EXCEPT ![id[q]].amount = final,
                                                 ![id[q]].reconciled = TRUE]
        BY <1>2, <2>5 DEF Reconcile
      <3> HIDE DEF final, settled
      <3> QED BY <1>2, <2>1, <2>2, <2>3, <3>1, <3>2
    <2> QED BY <2>4, <2>5
  <1>3. ASSUME NEW q \in Requests, Step(q) PROVE Tables'
    <2>1. CASE Reserve(q) BY <1>1, <2>1
    <2>2. CASE Settle(q) BY <1>2, <2>2 DEF Settle, record
    <2>3. CASE SettleFirst(q) BY <1>2, <2>3 DEF SettleFirst
    <2>4. CASE UNCHANGED <<policyRuns, reservations, sent>> BY <2>4
    <2> QED BY <1>3, <2>1, <2>2, <2>3, <2>4
         DEF Step, Preflight, CheckDaily, ReserveBlocked, ProviderAnswers, SettleSecond, SettleFails,
             record
  <1>4. ASSUME NEW old, PruneReservations(old) PROVE Tables'
    <2>1. NoReservation \in [run : Runs \cup {None}, amount : [Kinds -> Int],
                             reconciled : BOOLEAN]
      BY ZeroType DEF NoReservation
    <2>2. reservations' \in [Ids -> [run : Runs \cup {None}, amount : [Kinds -> Int],
                                     reconciled : BOOLEAN]]
      BY <1>4, <2>1 DEF PruneReservations
    <2> QED BY <1>4, <2>2 DEF PruneReservations
  <1>5. CASE PruneRuns
    <2>1. NoRun \in [present : BOOLEAN, calls : Int, usage : [Kinds -> Int]]
      BY ZeroType DEF NoRun
    <2>2. policyRuns' \in [Runs -> [present : BOOLEAN, calls : Int, usage : [Kinds -> Int]]]
      BY <1>5, <2>1 DEF PruneRuns
    <2> QED BY <1>5, <2>2 DEF PruneRuns, record
  <1> QED BY <1>3, <1>4, <1>5 DEF Next, Expire, NewDay, PruneStops, Restart, vars, record

\* A request keeps its run, estimate and report until it returns.
LEMMA LocalsStep == IInv /\ [Next]_vars => Locals'
  <1> SUFFICES ASSUME IInv, [Next]_vars PROVE Locals'
    OBVIOUS
  <1> USE DEF IInv, Locals
  <1>1. ASSUME NEW q \in Requests, Step(q) PROVE Locals'
    <2>1. ASSUME Return(q), UNCHANGED <<pruning, overrun, pruned>> PROVE Locals'
      BY <2>1 DEF Return
    <2>2. ASSUME NEW r \in Runs, NEW e \in Estimates, Preflight(q, r, e) PROVE Locals'
      BY <2>2 DEF Preflight, Goto, clock, starting, record
    <2>3. CASE CheckDaily(q)
      BY <2>1, <2>3 DEF CheckDaily, Goto, locals, clock, starting, record
    <2>4. CASE Reserve(q)
      <3>1. UNCHANGED <<pruning, overrun, pruned>> /\ pc[q] = "reserve"
        BY <2>4 DEF Reserve, clock, starting
      <3>2. \/ Return(q)
            \/ /\ Goto(q, "call") /\ UNCHANGED <<run, est, spent>>
               /\ \E i \in Ids : id' = [id EXCEPT ![q] = i]
        BY <2>4 DEF Reserve, FreeIds
      <3> QED BY <2>1, <3>1, <3>2 DEF Goto
    <2>5. ASSUME NEW actual \in Actuals, ProviderAnswers(q, actual) PROVE Locals'
      <3>1. pc[q] = "call" /\ run[q] \in Runs
        BY <2>5 DEF ProviderAnswers
      <3>2. overrun \subseteq overrun' /\ overrun' \in SUBSET Runs
        BY <2>5, <3>1 DEF ProviderAnswers
      <3>3. run[q] \in overrun' \/ Honest(actual, est[q])
        BY <2>5 DEF ProviderAnswers
      <3> QED BY <2>5, <3>1, <3>2, <3>3 DEF ProviderAnswers, Goto, clock, starting
    <2>6. CASE SettleFirst(q)
      BY <2>1, <2>6 DEF SettleFirst, Goto, locals, clock, starting
    <2> QED BY <1>1, <2>1, <2>2, <2>3, <2>4, <2>5, <2>6
         DEF Step, ReserveBlocked, Settle, SettleSecond, SettleFails, clock, starting, record
  <1>2. CASE Restart
    BY <1>2 DEF Restart, starting
  <1>3. ASSUME NEW old \in SUBSET Runs, PruneReservations(old) PROVE Locals'
    BY <1>3 DEF PruneReservations, locals
  <1>4. CASE PruneRuns \/ PruneStops
    BY <1>4 DEF PruneRuns, PruneStops, locals, record
  <1>5. CASE UNCHANGED <<pc, run, est, id, spent, pruning, overrun, pruned>>
    BY <1>5
  <1> QED BY <1>1, <1>2, <1>3, <1>4, <1>5
       DEF Next, Expire, NewDay, vars, locals, clock, starting, record

\* Only Reserve makes a reservation somebody's, and it takes a free one; only
\* the owner changes it, and pruning takes it away.
LEMMA OwnedStep == IInv /\ [Next]_vars => Owned'
  <1> SUFFICES ASSUME IInv, [Next]_vars PROVE Owned'
    OBVIOUS
  <1> USE DEF IInv, Locals, Owned, InFlight
  <1>1. ASSUME NEW q \in Requests, Return(q), UNCHANGED <<reservations, pruned>>
        PROVE  Owned'
    BY <1>1 DEF Return
  <1>2. ASSUME NEW q \in Requests, Reserve(q) PROVE Owned'
    <2>1. PICK i \in FreeIds :
            /\ reservations' = [reservations EXCEPT ![i] =
                  [run |-> run[q], amount |-> Priced(est[q]), reconciled |-> FALSE]]
            /\ \/ /\ Goto(q, "call") /\ id' = [id EXCEPT ![q] = i]
                  /\ UNCHANGED <<run, est>>
               \/ Return(q)
      BY <1>2 DEF Reserve
    <2>2. i \in Ids /\ \A p \in Requests : id[p] # i
      BY DEF FreeIds
    <2>9. pruned' = pruned
      BY <1>2 DEF Reserve
    <2>3. i \in DOMAIN reservations
      BY <2>2 DEF Tables
    <2>4. pc[q] = "reserve"
      BY <1>2 DEF Reserve
    <2>5. \A p \in Requests : InFlight(p) => reservations'[id[p]] = reservations[id[p]]
      BY <2>1, <2>2 DEF Tables
    <2>6. reservations'[i] = [run |-> run[q], amount |-> Priced(est[q]), reconciled |-> FALSE]
      BY <2>1, <2>3
    <2>7. CASE Goto(q, "call") /\ id' = [id EXCEPT ![q] = i] /\ UNCHANGED <<run, est>>
      BY <2>2, <2>4, <2>5, <2>6, <2>7, <2>9 DEF Goto
    <2>8. CASE Return(q)
      BY <2>4, <2>5, <2>8, <2>9 DEF Return
    <2> QED BY <2>1, <2>7, <2>8
  <1>3. ASSUME NEW q \in Requests, Reconcile(q), pc[q] = "settle",
               UNCHANGED pruned, Return(q) \/ (Goto(q, "count") /\ UNCHANGED locals)
        PROVE  Owned'
    <2>1. \A p \in Requests : InFlight(p) /\ p # q => reservations'[id[p]] = reservations[id[p]]
      BY <1>3 DEF Reconcile, Tables
    <2>2. \A p \in Requests : InFlight(p)' => InFlight(p) /\ p # q
      BY <1>3 DEF Return, Goto
    <2>3. \A p \in Requests : p # q => id'[p] = id[p] /\ run'[p] = run[p] /\ est'[p] = est[p]
      BY <1>3 DEF Return, Goto, locals
    <2> QED BY <1>3, <2>1, <2>2, <2>3
  <1>4. ASSUME NEW q \in Requests, Step(q) PROVE Owned'
    <2>1. ASSUME NEW r \in Runs, NEW e \in Estimates, Preflight(q, r, e) PROVE Owned'
      BY <2>1 DEF Preflight, Goto, record
    <2>2. CASE CheckDaily(q)
      BY <1>1, <2>2 DEF CheckDaily, Goto, locals, record
    <2>3. ASSUME NEW actual \in Actuals, ProviderAnswers(q, actual) PROVE Owned'
      BY <2>3 DEF ProviderAnswers, Goto
    <2>4. CASE Settle(q) \/ SettleFirst(q)
      BY <1>3, <2>4 DEF Settle, SettleFirst, record
    <2>5. CASE ReserveBlocked(q) \/ SettleSecond(q) \/ SettleFails(q)
      BY <1>1, <2>5 DEF ReserveBlocked, SettleSecond, SettleFails, record
    <2> QED BY <1>2, <1>4, <2>1, <2>2, <2>3, <2>4, <2>5 DEF Step
  <1>5. CASE Restart
    BY <1>5 DEF Restart
  <1>6. ASSUME NEW old, PruneReservations(old) PROVE Owned'
    <2>1. UNCHANGED <<pc, run, est, id>> /\ pruned' = pruned \cup old
      BY <1>6 DEF PruneReservations, locals
    <2>2. ASSUME NEW q \in Requests, InFlight(q)
          PROVE  \/ reservations'[id[q]] = reservations[id[q]]
                 \/ reservations'[id[q]] = NoReservation /\ run[q] \in pruned'
      <3>1. reservations'[id[q]] = IF reservations[id[q]].run \in old THEN NoReservation
                                   ELSE reservations[id[q]]
        BY <1>6, <2>2 DEF PruneReservations
      <3> QED BY <2>1, <2>2, <3>1
    <2> QED BY <2>1, <2>2
  <1>7. CASE UNCHANGED <<reservations, pc, run, est, id, pruned>>
    BY <1>7
  <1> QED BY <1>4, <1>5, <1>6, <1>7
       DEF Next, PruneRuns, PruneStops, Expire, NewDay, vars, locals, record

\* A call in flight owns its reservation, in every reachable state.
LEMMA Inductive == Spec => []IInv
  <1>1. IInv /\ [Next]_vars => IInv'
    BY TablesStep, LocalsStep, OwnedStep DEF IInv
  <1> QED BY <1>1, InitIInv, PTL DEF Spec

-----------------------------------------------------------------------------
\* CallLimitHolds (ReservePolicy's max_calls): what is counted is not given back
\* before the run is pruned, in whatever order calls are admitted, settled,
\* failed and lost.
THEOREM CallLimit == Spec => []CallLimitHolds
  <1>1. Init => Counted
    BY LimitAssumption DEF Init, Counted, NoRun
  <1>2. IInv /\ Counted /\ [Next]_vars => Counted'
    <2> SUFFICES ASSUME IInv, Counted, [Next]_vars PROVE Counted'
      OBVIOUS
    <2> USE DEF Counted
    <2>1. ASSUME NEW q \in Requests, Reserve(q) PROVE Counted'
      <3>1. run[q] \in Runs
        BY <2>1 DEF Reserve, IInv, Locals
      <3>2. policyRuns' = [policyRuns EXCEPT ![run[q]] =
                [present |-> TRUE, calls |-> policyRuns[run[q]].calls + 1,
                 usage |-> Plus(policyRuns[run[q]].usage, Priced(est[q]))]]
        BY <2>1 DEF Reserve
      <3>3. sent' = sent \/ sent' = [sent EXCEPT ![run[q]] = sent[run[q]] + 1]
        BY <2>1 DEF Reserve
      <3>4. Limit.calls > 0 => ~(policyRuns[run[q]].calls >= Limit.calls)
        BY <2>1 DEF Reserve, OverLimit
      <3>5. Limit.calls \in Int
        BY LimitAssumption
      <3>6. pruned' = pruned
        BY <2>1 DEF Reserve
      <3> QED BY <3>1, <3>2, <3>3, <3>4, <3>5, <3>6 DEF IInv, Tables
    <2>2. ASSUME NEW q \in Requests, Reconcile(q), UNCHANGED <<sent, pruned>> PROVE Counted'
      <3>1. \A r \in Runs : policyRuns'[r].calls = policyRuns[r].calls
        BY <2>2 DEF Reconcile, IInv, Tables
      <3> QED BY <2>2, <3>1
    <2>3. ASSUME NEW q \in Requests, Step(q) PROVE Counted'
      BY <2>1, <2>2, <2>3
      DEF Step, Preflight, CheckDaily, ReserveBlocked, ProviderAnswers, Settle, SettleFirst,
          SettleSecond, SettleFails, record
    <2>4. ASSUME NEW old, PruneReservations(old) PROVE Counted'
      BY <2>4 DEF PruneReservations
    <2>5. CASE PruneRuns
      <3>1. \A r \in Runs : \/ policyRuns'[r] = policyRuns[r]
                            \/ r \in pruned /\ policyRuns'[r] = NoRun
        <4>1. pruning \subseteq pruned
          BY DEF IInv, Locals
        <4>2. policyRuns' = [r \in Runs |-> IF r \in pruning THEN NoRun ELSE policyRuns[r]]
          BY <2>5 DEF PruneRuns
        <4> QED BY <4>1, <4>2
      <3> QED BY <2>5, <3>1, LimitAssumption DEF PruneRuns, NoRun, record
    <2> QED BY <2>3, <2>4, <2>5 DEF Next, PruneStops, Restart, Expire, NewDay, vars, record
  <1>3. IInv /\ Counted => CallLimitHolds
    <2> SUFFICES ASSUME IInv, Counted, NEW r \in Runs \ pruned, Limit.calls > 0
                 PROVE  sent[r] <= Limit.calls
      BY DEF CallLimitHolds
    <2> QED BY LimitAssumption DEF IInv, Tables, Counted
  <1> QED BY <1>1, <1>2, <1>3, Inductive, PTL DEF Spec

\* SpendingWithinLimits (ReservePolicy and reconcilePolicyTx): a reservation is
\* compared before it is added, and a report within the estimate gives back at
\* least as much as it takes.
THEOREM SpendingHolds == Spec => []SpendingWithinLimits
  <1>1. Init => SpendingWithinLimits
    BY LimitAssumption DEF Init, SpendingWithinLimits, NoRun, Zero, WithinLimits, Kinds, Counters, Unknown
  <1>2. IInv /\ SpendingWithinLimits /\ [Next]_vars => SpendingWithinLimits'
    <2> SUFFICES ASSUME IInv, SpendingWithinLimits, [Next]_vars PROVE SpendingWithinLimits'
      OBVIOUS
    <2> USE DEF SpendingWithinLimits
    <2>1. ASSUME NEW q \in Requests, Reserve(q) PROVE SpendingWithinLimits'
      <3> DEFINE next == Plus(policyRuns[run[q]].usage, Priced(est[q]))
      <3>1. run[q] \in Runs /\ est[q] \in Estimates
        BY <2>1 DEF Reserve, IInv, Locals
      <3>2. next \in [Kinds -> Int]
        BY <3>1, PricedType, PlusType DEF IInv, Tables
      <3>3. ~OverLimit(policyRuns[run[q]], next)
        BY <2>1 DEF Reserve
      <3>4. WithinLimits(next)
        BY <3>2, <3>3, LimitAssumption DEF WithinLimits, OverLimit, Kinds, Counters, Unknown
      <3>5. policyRuns' = [policyRuns EXCEPT ![run[q]] =
                [present |-> TRUE, calls |-> policyRuns[run[q]].calls + 1, usage |-> next]]
        BY <2>1 DEF Reserve
      <3> HIDE DEF next
      <3>6. \A r \in Runs : policyRuns'[r].usage = policyRuns[r].usage
                            \/ policyRuns'[r].usage = next
        BY <3>1, <3>5 DEF IInv, Tables
      <3> QED BY <2>1, <3>4, <3>6 DEF WithinLimits, Reserve
    <2>2. ASSUME NEW q \in Requests, Reconcilable(q), Reconcile(q), pc[q] = "settle",
                 UNCHANGED overrun
          PROVE  SpendingWithinLimits'
      <3> DEFINE usage == policyRuns[run[q]].usage
                 settled == Settled(usage, Priced(est[q]), Reported(spent[q], Priced(est[q])))
      <3>1. /\ run[q] \in Runs /\ est[q] \in Estimates
            /\ spent[q] \in Actuals /\ reservations[id[q]].amount = Priced(est[q])
        BY <2>2, NoneAssumption DEF Reconcilable, NoReservation, IInv, Locals, Owned, InFlight
      <3>2. usage \in [Kinds -> Int]
        BY <3>1 DEF IInv, Tables
      <3>3. settled \in [Kinds -> Int]
        BY <3>1, <3>2, PricedType, ReportedType, SettledType
      <3>4. ASSUME run[q] \notin overrun PROVE WithinLimits(settled)
        <4>1. Honest(spent[q], est[q])
          BY <2>2, <3>4 DEF IInv, Locals
        <4>2. \A k \in Kinds : settled[k] <= usage[k]
          BY <3>1, <3>2, <4>1, HonestSettles
        <4>3. WithinLimits(usage)
          BY <3>1, <3>4
        <4> HIDE DEF settled, usage
        <4> QED BY <3>2, <3>3, <4>2, <4>3, LowerWithinLimits
      <3>5. policyRuns' = policyRuns \/ policyRuns' = [policyRuns EXCEPT ![run[q]].usage = settled]
        BY <2>2, <3>1 DEF Reconcile
      <3> HIDE DEF settled
      <3>6. \A r \in Runs : \/ policyRuns'[r].usage = policyRuns[r].usage
                            \/ r = run[q] /\ policyRuns'[r].usage = settled
        BY <3>1, <3>5 DEF IInv, Tables
      <3> QED BY <2>2, <3>4, <3>6 DEF WithinLimits
    <2>3. ASSUME NEW q \in Requests, Step(q) PROVE SpendingWithinLimits'
      <3>1. CASE UNCHANGED policyRuns /\ overrun \subseteq overrun' BY <3>1 DEF WithinLimits
      <3> QED BY <2>1, <2>2, <2>3, <3>1
           DEF Step, Preflight, CheckDaily, ReserveBlocked, ProviderAnswers, Settle, SettleFirst,
               SettleSecond, SettleFails, record
    <2>4. CASE PruneRuns
      <3>1. WithinLimits(Zero)
        BY LimitAssumption DEF Zero, WithinLimits, Kinds, Counters, Unknown
      <3>2. \A r \in Runs : policyRuns'[r].usage = policyRuns[r].usage
                            \/ policyRuns'[r].usage = Zero
        BY <2>4 DEF PruneRuns, NoRun
      <3> QED BY <2>4, <3>1, <3>2 DEF WithinLimits, PruneRuns, record
    <2>5. CASE UNCHANGED <<policyRuns, overrun>> BY <2>5 DEF WithinLimits
    <2> QED BY <2>3, <2>4, <2>5
         DEF Next, PruneReservations, PruneStops, Restart, Expire, NewDay, vars, record
  <1> QED BY <1>1, <1>2, Inductive, PTL DEF Spec

-----------------------------------------------------------------------------
\* What the reservations of a run come to.
AmountsOf(k) == [i \in Ids |-> reservations[i].amount[k]]
IdsOf(r) == {i \in Ids : reservations[i].run = r}
Reserved(r, k) == SumOn(AmountsOf(k), IdsOf(r))

\* No amount is negative, no counter of a run passes MaxInt, and a call in
\* flight has a reservation that is not settled.
Sound ==
    /\ \A i \in Ids : reservations[i].amount \in Amount
    /\ \A r \in Runs : /\ policyRuns[r].calls \in 0..MaxInt
                       /\ \A k \in Counters : policyRuns[r].usage[k] <= MaxInt
    /\ \A q \in Requests : InFlight(q) => ~reservations[id[q]].reconciled

\* The counters of a run are what its reservations come to, or more when it was
\* pruned and the second statement of Prune did not come, or has not.
Covered ==
    \A r \in Runs, k \in Kinds :
        /\ Reserved(r, k) <= policyRuns[r].usage[k]
        /\ r \notin pruned => Reserved(r, k) = policyRuns[r].usage[k]

-----------------------------------------------------------------------------
\* Natural amounts: what the operations on them return.

\* The amount reserved for an estimate.
LEMMA PricedNatural == ASSUME NEW e \in Estimates PROVE Priced(e) \in Amount
  BY UsageAssumption DEF Priced, Estimate, Amount, Kinds, Counters, Unknown

\* What a report makes of a reservation.
LEMMA ReportedNatural ==
    ASSUME NEW a \in Actuals, NEW u \in Amount PROVE Reported(a, u) \in Amount
  BY UsageAssumption DEF Reported, Actual, Amount, Unknown

\* Amounts are integers.
LEMMA AmountIsInteger == ASSUME NEW u \in Amount PROVE u \in [Kinds -> Int]
  BY DEF Amount

\* Before the first reservation.
LEMMA InitSound == Init => Sound
  BY BoundAssumption
  DEF Init, Sound, InFlight, NoRun, NoReservation, Zero, Amount, Kinds, Counters

\* Every amount that is written is an estimate or a report, and every counter
\* was compared with MaxInt.
LEMMA SoundStep == IInv /\ Sound /\ [Next]_vars => Sound'
  <1> SUFFICES ASSUME IInv, Sound, [Next]_vars PROVE Sound'
    OBVIOUS
  <1> USE DEF Sound
  <1>1. ASSUME NEW q \in Requests, Reserve(q) PROVE Sound'
    <2> DEFINE r == run[q]
               amount == Priced(est[q])
               next == Plus(policyRuns[r].usage, amount)
               row == [present |-> TRUE, calls |-> policyRuns[r].calls + 1, usage |-> next]
    <2>1. r \in Runs /\ est[q] \in Estimates /\ ~InFlight(q)
      BY <1>1 DEF Reserve, IInv, Locals, InFlight
    <2>2. amount \in Amount
      BY <2>1, PricedNatural
    <2>3. policyRuns' = [policyRuns EXCEPT ![r] = row]
      BY <1>1 DEF Reserve
    <2>4. PICK i \in FreeIds :
            /\ reservations' = [reservations EXCEPT ![i] =
                  [run |-> r, amount |-> amount, reconciled |-> FALSE]]
            /\ \/ /\ Goto(q, "call") /\ id' = [id EXCEPT ![q] = i]
                  /\ UNCHANGED <<run, est>>
               \/ Return(q)
      BY <1>1 DEF Reserve
    <2>10. i \in Ids
      BY DEF FreeIds
    <2>5. Fits(next) /\ policyRuns[r].calls < MaxInt
      BY <1>1 DEF Reserve
    <2> HIDE DEF r, amount, next
    <2>6. \A j \in Ids : reservations'[j].amount \in Amount
      BY <2>2, <2>4 DEF IInv, Tables
    <2>7. \A u \in Runs : /\ policyRuns'[u].calls \in 0..MaxInt
                          /\ \A k \in Counters : policyRuns'[u].usage[k] <= MaxInt
      <3>1. ASSUME NEW u \in Runs, u # r PROVE policyRuns'[u] = policyRuns[u]
        BY <2>1, <2>3, <3>1 DEF IInv, Tables
      <3>2. policyRuns'[r] = row
        BY <2>1, <2>3 DEF IInv, Tables
      <3>3. row.calls \in 0..MaxInt
        BY <2>1, <2>5, BoundAssumption
      <3>4. \A k \in Counters : row.usage[k] <= MaxInt
        BY <2>5 DEF Fits
      <3> HIDE DEF row
      <3>5. QED BY <3>1, <3>2, <3>3, <3>4
    <2>8. ASSUME NEW p \in Requests, InFlight(p)' PROVE ~reservations'[id'[p]].reconciled
      <3>1. CASE p = q
        <4>1. id'[q] = i
          BY <2>4, <2>8, <3>1 DEF Return, InFlight, IInv, Locals
        <4>2. QED BY <2>4, <2>10, <3>1, <4>1 DEF IInv, Tables
      <3>2. CASE p # q
        <4>1. InFlight(p) /\ id'[p] = id[p]
          BY <2>4, <2>8, <3>2 DEF Return, Goto, InFlight, IInv, Locals
        <4>2. id[p] \in Ids /\ id[p] # i
          BY <2>4, <4>1 DEF IInv, Owned, FreeIds
        <4>3. QED BY <2>4, <4>1, <4>2 DEF IInv, Tables
      <3>3. QED BY <3>1, <3>2
    <2>9. QED BY <2>6, <2>7, <2>8
  <1>2. ASSUME NEW q \in Requests, Reconcile(q), Reconcilable(q), pc[q] = "settle",
               Return(q) \/ (Goto(q, "count") /\ UNCHANGED locals)
        PROVE  Sound'
    <2> DEFINE reserved == reservations[id[q]].amount
               final == Reported(spent[q], reserved)
               settled == Settled(policyRuns[run[q]].usage, reserved, final)
    <2>1. InFlight(q) /\ run[q] \in Runs /\ id[q] \in Ids /\ spent[q] \in Actuals
      BY <1>2 DEF IInv, Locals, Owned, InFlight
    <2>2. final \in Amount
      BY <2>1, ReportedNatural
    <2>3. Fits(settled)
      BY <1>2 DEF Reconcilable
    <2>4. /\ policyRuns' = [policyRuns EXCEPT ![run[q]].usage = settled]
          /\ reservations' = [reservations EXCEPT ![id[q]].amount = final,
                                                  ![id[q]].reconciled = TRUE]
      BY <1>2, <2>1 DEF Reconcile
    <2> HIDE DEF final, settled
    <2>5. \A j \in Ids : reservations'[j].amount \in Amount
      BY <2>1, <2>2, <2>4 DEF IInv, Tables
    <2>6. \A u \in Runs : /\ policyRuns'[u].calls \in 0..MaxInt
                          /\ \A k \in Counters : policyRuns'[u].usage[k] <= MaxInt
      <3>1. ASSUME NEW u \in Runs
            PROVE  /\ policyRuns'[u].calls = policyRuns[u].calls
                   /\ policyRuns'[u].usage = IF u = run[q] THEN settled
                                             ELSE policyRuns[u].usage
        BY <2>1, <2>4 DEF IInv, Tables
      <3>2. QED BY <2>3, <3>1 DEF Fits
    <2>7. ASSUME NEW p \in Requests, InFlight(p)' PROVE ~reservations'[id'[p]].reconciled
      <3>1. InFlight(p) /\ p # q /\ id'[p] = id[p]
        BY <1>2, <2>7 DEF Return, Goto, locals, InFlight, IInv, Locals
      <3>2. id[p] \in Ids /\ id[p] # id[q]
        BY <2>1, <3>1 DEF IInv, Owned
      <3>3. QED BY <2>4, <3>1, <3>2 DEF IInv, Tables
    <2>8. QED BY <2>5, <2>6, <2>7
  <1>3. ASSUME NEW q \in Requests, Step(q) PROVE Sound'
    <2>1. ASSUME UNCHANGED <<policyRuns, reservations>>,
                 \A p \in Requests : InFlight(p)' => InFlight(p) /\ id'[p] = id[p]
          PROVE  Sound'
      BY <2>1
    <2>2. Return(q) => \A p \in Requests : InFlight(p)' => InFlight(p) /\ id'[p] = id[p]
      BY DEF Return, InFlight, IInv, Locals
    <2>3. ASSUME NEW r \in Runs, NEW e \in Estimates, Preflight(q, r, e) PROVE Sound'
      BY <2>1, <2>3 DEF Preflight, Goto, InFlight, IInv, Locals
    <2>4. CASE CheckDaily(q)
      BY <2>1, <2>2, <2>4 DEF CheckDaily, Goto, locals, InFlight, IInv, Locals
    <2>5. ASSUME NEW actual \in Actuals, ProviderAnswers(q, actual) PROVE Sound'
      BY <2>1, <2>5 DEF ProviderAnswers, Goto, InFlight, IInv, Locals
    <2>6. CASE Settle(q) \/ SettleFirst(q)
      BY <1>2, <2>6 DEF Settle, SettleFirst
    <2>7. CASE ReserveBlocked(q) \/ SettleSecond(q) \/ SettleFails(q)
      BY <2>1, <2>2, <2>7 DEF ReserveBlocked, SettleSecond, SettleFails
    <2>8. QED BY <1>1, <1>3, <2>3, <2>4, <2>5, <2>6, <2>7 DEF Step
  <1>4. Zero \in Amount /\ \A k \in Counters : Zero[k] <= MaxInt
    BY BoundAssumption DEF Zero, Amount, Kinds, Counters
  <1>5. CASE Restart
    BY <1>5 DEF Restart, InFlight
  <1>6. ASSUME NEW old, PruneReservations(old) PROVE Sound'
    <2>1. \A i \in Ids : \/ reservations'[i] = reservations[i]
                         \/ /\ reservations'[i].amount = Zero
                            /\ reservations'[i].reconciled = FALSE
      BY <1>6 DEF PruneReservations, NoReservation
    <2>2. UNCHANGED <<policyRuns, pc, id>>
      BY <1>6 DEF PruneReservations, locals
    <2>3. QED BY <1>4, <2>1, <2>2 DEF InFlight, IInv, Owned
  <1>7. CASE PruneRuns
    <2>1. \A r \in Runs : policyRuns'[r] = policyRuns[r] \/ policyRuns'[r] = NoRun
      BY <1>7 DEF PruneRuns
    <2>2. \A r \in Runs : /\ policyRuns'[r].calls \in 0..MaxInt
                          /\ \A k \in Counters : policyRuns'[r].usage[k] <= MaxInt
      BY <1>4, <2>1, BoundAssumption DEF NoRun
    <2>3. UNCHANGED <<reservations, pc, id>>
      BY <1>7 DEF PruneRuns, locals
    <2>4. QED BY <2>2, <2>3 DEF InFlight
  <1>8. CASE UNCHANGED <<policyRuns, reservations, pc, id>>
    BY <1>8 DEF InFlight
  <1>9. QED BY <1>3, <1>5, <1>6, <1>7, <1>8
       DEF Next, PruneStops, Expire, NewDay, vars, locals

-----------------------------------------------------------------------------
\* Sums of reservations.

\* The reservations of a run have finitely many natural amounts.
LEMMA AmountsAreNatural ==
    ASSUME Sound, NEW r \in Runs, NEW k \in Kinds
    PROVE  /\ IsFiniteSet(IdsOf(r)) /\ IdsOf(r) \subseteq Ids
           /\ \A i \in Ids : AmountsOf(k)[i] \in Nat
           /\ Reserved(r, k) \in Nat
  <1>1. IsFiniteSet(IdsOf(r)) /\ IdsOf(r) \subseteq Ids
    BY FiniteAssumption, FS_Subset DEF IdsOf
  <1>2. \A i \in Ids : AmountsOf(k)[i] \in Nat
    BY DEF AmountsOf, Sound, Amount
  <1>3. Reserved(r, k) \in Nat
    BY <1>1, <1>2, SumNatural DEF Reserved
  <1> QED BY <1>1, <1>2, <1>3

\* A run whose reservations stay has the same sum.
LEMMA ReservedSame ==
    ASSUME Sound, NEW r \in Runs, NEW k \in Kinds, IdsOf(r)' = IdsOf(r),
           \A i \in IdsOf(r) : reservations'[i].amount = reservations[i].amount
    PROVE  Reserved(r, k)' = Reserved(r, k)
  <1>1. IsFiniteSet(IdsOf(r)) /\ IdsOf(r) \subseteq Ids
    BY AmountsAreNatural
  <1>2. \A i \in IdsOf(r) : AmountsOf(k)'[i] = AmountsOf(k)[i]
    BY <1>1 DEF AmountsOf
  <1>3. SumOn(AmountsOf(k)', IdsOf(r)) = SumOn(AmountsOf(k), IdsOf(r))
    <2> DEFINE f == AmountsOf(k)'
               g == AmountsOf(k)
    <2>1. \A i \in IdsOf(r) : f[i] = g[i]
      BY <1>2
    <2> HIDE DEF f, g
    <2>2. SumOn(f, IdsOf(r)) = SumOn(g, IdsOf(r))
      BY <1>1, <2>1, SumSame
    <2>3. QED BY <2>2 DEF f, g
  <1> QED BY <1>3 DEF Reserved

\* A new reservation adds its amount to the sum of its run.
LEMMA ReservedGrows ==
    ASSUME Sound, Sound', NEW r \in Runs, NEW k \in Kinds, NEW i \in Ids \ IdsOf(r),
           IdsOf(r)' = IdsOf(r) \cup {i},
           \A j \in IdsOf(r) : reservations'[j].amount = reservations[j].amount
    PROVE  Reserved(r, k)' = Reserved(r, k) + reservations'[i].amount[k]
  <1> DEFINE f == AmountsOf(k)'
             g == AmountsOf(k)
  <1>1. IsFiniteSet(IdsOf(r)) /\ IdsOf(r) \subseteq Ids /\ Reserved(r, k) \in Nat
    BY AmountsAreNatural
  <1>2. \A j \in Ids : f[j] \in Nat
    BY DEF AmountsOf, Sound, Amount
  <1>3. \A j \in IdsOf(r) : f[j] = g[j]
    BY <1>1 DEF AmountsOf
  <1>4. f[i] = reservations'[i].amount[k]
    BY DEF AmountsOf
  <1> HIDE DEF f, g
  <1>5. SumOn(f, IdsOf(r) \cup {i}) = f[i] + SumOn(f, IdsOf(r))
    BY <1>1, <1>2, SumAdd
  <1>6. SumOn(f, IdsOf(r)) = SumOn(g, IdsOf(r))
    BY <1>1, <1>3, SumSame
  <1> QED BY <1>1, <1>2, <1>4, <1>5, <1>6 DEF Reserved, f, g

\* A settled reservation replaces its amount in the sum of its run.
LEMMA ReservedChanges ==
    ASSUME Sound, Sound', NEW r \in Runs, NEW k \in Kinds, NEW i \in IdsOf(r),
           IdsOf(r)' = IdsOf(r),
           \A j \in IdsOf(r) \ {i} : reservations'[j].amount = reservations[j].amount
    PROVE  Reserved(r, k)' = (Reserved(r, k) - reservations[i].amount[k])
                                 + reservations'[i].amount[k]
  <1> DEFINE f == AmountsOf(k)'
             g == AmountsOf(k)
  <1>1. IsFiniteSet(IdsOf(r)) /\ IdsOf(r) \subseteq Ids
    BY AmountsAreNatural
  <1>2. \A j \in Ids : f[j] \in Nat /\ g[j] \in Nat
    BY DEF AmountsOf, Sound, Amount
  <1>3. \A j \in IdsOf(r) \ {i} : f[j] = g[j]
    BY <1>1 DEF AmountsOf
  <1>4. f[i] = reservations'[i].amount[k] /\ g[i] = reservations[i].amount[k]
    BY <1>1 DEF AmountsOf
  <1> HIDE DEF f, g
  <1>5. SumOn(f, IdsOf(r)) = (SumOn(g, IdsOf(r)) - g[i]) + f[i]
    BY <1>1, <1>2, <1>3, SumChange
  <1> QED BY <1>4, <1>5 DEF Reserved, f, g

\* At first there is no reservation.
LEMMA InitCovered == Init => Covered
  <1> SUFFICES ASSUME Init, NEW r \in Runs, NEW k \in Kinds
               PROVE  Reserved(r, k) = 0 /\ policyRuns[r].usage[k] = 0
    BY DEF Covered
  <1>1. IdsOf(r) = {}
    BY NoneAssumption DEF Init, IdsOf, NoReservation
  <1> QED BY <1>1, SumEmpty DEF Reserved, Init, NoRun, Zero

\* The counters of a run and its reservations change together: by the same
\* amounts when a call is admitted or settled, and to nothing when the run is
\* pruned.
LEMMA CoveredStep == IInv /\ Sound /\ Sound' /\ Covered /\ [Next]_vars => Covered'
  <1> SUFFICES ASSUME IInv, Sound, Sound', Covered, [Next]_vars PROVE Covered'
    OBVIOUS
  <1>1. ASSUME NEW r \in Runs,
               \A k \in Kinds : policyRuns'[r].usage[k] = policyRuns[r].usage[k],
               IdsOf(r)' = IdsOf(r),
               \A i \in IdsOf(r) : reservations'[i].amount = reservations[i].amount,
               pruned \subseteq pruned'
        PROVE  \A k \in Kinds : /\ Reserved(r, k)' <= policyRuns'[r].usage[k]
                                /\ r \notin pruned' => Reserved(r, k)' = policyRuns'[r].usage[k]
    <2> TAKE k \in Kinds
    <2>1. Reserved(r, k)' = Reserved(r, k)
      BY <1>1, ReservedSame
    <2>2. QED BY <1>1, <2>1 DEF Covered
  <1>2. ASSUME NEW q \in Requests, Reserve(q) PROVE Covered'
    <2> DEFINE amount == Priced(est[q])
               next == Plus(policyRuns[run[q]].usage, amount)
    <2>0. PICK r \in Runs : r = run[q]
      BY <1>2 DEF Reserve, IInv, Locals
    <2>1. r \in Runs /\ est[q] \in Estimates /\ amount \in Amount
      BY <1>2, PricedNatural DEF Reserve, IInv, Locals
    <2>2. policyRuns' = [policyRuns EXCEPT ![r] =
              [present |-> TRUE, calls |-> policyRuns[r].calls + 1, usage |-> next]]
      BY <1>2, <2>0 DEF Reserve
    <2>3. PICK i \in FreeIds :
            reservations' = [reservations EXCEPT ![i] =
                  [run |-> r, amount |-> amount, reconciled |-> FALSE]]
      BY <1>2, <2>0 DEF Reserve
    <2>4. \A k \in Kinds : next[k] = policyRuns[r].usage[k] + amount[k]
      BY <2>0 DEF Plus
    <2>5. pruned' = pruned
      BY <1>2 DEF Reserve
    <2> HIDE DEF amount, next
    <2>6. i \in Ids /\ \A u \in Runs : i \notin IdsOf(u)
      BY <2>3, NoneAssumption DEF IdsOf, FreeIds, NoReservation
    <2>7. ASSUME NEW u \in Runs, u # r, NEW k \in Kinds
          PROVE  /\ Reserved(u, k)' <= policyRuns'[u].usage[k]
                 /\ u \notin pruned' => Reserved(u, k)' = policyRuns'[u].usage[k]
      <3>1. IdsOf(u)' = IdsOf(u)
        BY <2>3, <2>6, <2>7 DEF IdsOf, IInv, Tables
      <3>2. \A j \in IdsOf(u) : reservations'[j].amount = reservations[j].amount
        BY <2>3, <2>6 DEF IdsOf, IInv, Tables
      <3>3. policyRuns'[u] = policyRuns[u]
        BY <2>1, <2>2, <2>7 DEF IInv, Tables
      <3>4. QED BY <1>1, <2>5, <3>1, <3>2, <3>3
    <2>8. ASSUME NEW k \in Kinds
          PROVE  /\ Reserved(r, k)' <= policyRuns'[r].usage[k]
                 /\ r \notin pruned' => Reserved(r, k)' = policyRuns'[r].usage[k]
      <3>1. IdsOf(r)' = IdsOf(r) \cup {i}
        BY <2>3, <2>6 DEF IdsOf, IInv, Tables
      <3>2. \A j \in IdsOf(r) : reservations'[j].amount = reservations[j].amount
        BY <2>3, <2>6 DEF IdsOf, IInv, Tables
      <3>3. reservations'[i].amount = amount
        BY <2>3, <2>6 DEF IInv, Tables
      <3>4. Reserved(r, k)' = Reserved(r, k) + amount[k]
        BY <2>1, <2>6, <3>1, <3>2, <3>3, ReservedGrows
      <3>5. policyRuns'[r].usage[k] = policyRuns[r].usage[k] + amount[k]
        BY <2>1, <2>2, <2>4 DEF IInv, Tables
      <3>6. /\ Reserved(r, k) \in Nat /\ amount[k] \in Nat /\ policyRuns[r].usage[k] \in Int
        BY <2>1, AmountsAreNatural DEF Amount, IInv, Tables
      <3>7. QED BY <2>1, <2>5, <3>4, <3>5, <3>6 DEF Covered
    <2>9. QED BY <2>7, <2>8 DEF Covered
  <1>3. ASSUME NEW q \in Requests, Reconcilable(q), Reconcile(q), pc[q] = "settle",
               UNCHANGED pruned
        PROVE  Covered'
    <2> DEFINE reserved == reservations[id[q]].amount
               final == Reported(spent[q], reserved)
               settled == Settled(policyRuns[run[q]].usage, reserved, final)
    <2>0. /\ InFlight(q) /\ run[q] \in Runs /\ id[q] \in Ids
          /\ reservations[id[q]].run = run[q] /\ spent[q] \in Actuals
      BY <1>3 DEF Reconcilable, IInv, Locals, Owned, InFlight
    <2>00. PICK r \in Runs : r = run[q]
      BY <2>0
    <2>01. PICK i \in Ids : i = id[q]
      BY <2>0
    <2>1. r \in Runs /\ i \in Ids /\ i \in IdsOf(r)
      BY <2>0, <2>00, <2>01 DEF IdsOf
    <2>2. final \in Amount /\ reserved \in Amount
      BY <2>0, ReportedNatural DEF Sound
    <2>3. /\ policyRuns' = [policyRuns EXCEPT ![r].usage = settled]
          /\ reservations' = [reservations EXCEPT ![i].amount = final, ![i].reconciled = TRUE]
      BY <1>3, <2>0, <2>00, <2>01 DEF Reconcile, Sound
    <2>4. \A k \in Kinds : settled[k] = (policyRuns[r].usage[k] - reserved[k]) + final[k]
      BY <2>00 DEF Settled
    <2>5. reservations'[i].amount = final /\ reservations[i].amount = reserved
      <3> HIDE DEF final
      <3>1. QED BY <2>01, <2>1, <2>3 DEF IInv, Tables
    <2> HIDE DEF final, settled, reserved
    <2>6. \A u \in Runs : IdsOf(u)' = IdsOf(u)
      BY <2>1, <2>3 DEF IdsOf, IInv, Tables
    <2>7. \A j \in Ids \ {i} : reservations'[j].amount = reservations[j].amount
      BY <2>3 DEF IInv, Tables
    <2>8. ASSUME NEW u \in Runs, u # r, NEW k \in Kinds
          PROVE  /\ Reserved(u, k)' <= policyRuns'[u].usage[k]
                 /\ u \notin pruned' => Reserved(u, k)' = policyRuns'[u].usage[k]
      <3>1. \A j \in IdsOf(u) : reservations'[j].amount = reservations[j].amount
        BY <2>1, <2>7, <2>8 DEF IdsOf
      <3>2. policyRuns'[u] = policyRuns[u]
        BY <2>1, <2>3, <2>8 DEF IInv, Tables
      <3>3. QED BY <1>1, <1>3, <2>6, <3>1, <3>2
    <2>9. ASSUME NEW k \in Kinds
          PROVE  /\ Reserved(r, k)' <= policyRuns'[r].usage[k]
                 /\ r \notin pruned' => Reserved(r, k)' = policyRuns'[r].usage[k]
      <3>1. \A j \in IdsOf(r) \ {i} : reservations'[j].amount = reservations[j].amount
        BY <2>7 DEF IdsOf
      <3>2. Reserved(r, k)' = (Reserved(r, k) - reserved[k]) + final[k]
        BY <2>1, <2>5, <2>6, <3>1, ReservedChanges
      <3>3. policyRuns'[r].usage[k] = (policyRuns[r].usage[k] - reserved[k]) + final[k]
        BY <2>1, <2>3, <2>4 DEF IInv, Tables
      <3>4. /\ Reserved(r, k) \in Nat /\ policyRuns[r].usage[k] \in Int
            /\ reserved[k] \in Nat /\ final[k] \in Nat
        BY <2>1, <2>2, AmountsAreNatural DEF Amount, IInv, Tables
      <3>5. QED BY <1>3, <2>1, <3>2, <3>3, <3>4 DEF Covered
    <2>10. QED BY <2>8, <2>9 DEF Covered
  <1>4. ASSUME UNCHANGED <<policyRuns, reservations, pruned>> PROVE Covered'
    BY <1>4 DEF Covered, Reserved, AmountsOf, IdsOf
  <1>5. ASSUME NEW q \in Requests, Step(q) PROVE Covered'
    <2>1. CASE Reserve(q) BY <1>2, <2>1
    <2>2. CASE Settle(q) BY <1>3, <2>2 DEF Settle, record
    <2>3. CASE SettleFirst(q) BY <1>3, <2>3 DEF SettleFirst
    <2>4. QED BY <1>4, <1>5, <2>1, <2>2, <2>3
         DEF Step, Preflight, CheckDaily, ReserveBlocked, ProviderAnswers, SettleSecond, SettleFails,
             record
  <1>6. ASSUME NEW old \in SUBSET Runs, PruneReservations(old) PROVE Covered'
    <2>1. ASSUME NEW r \in Runs, r \notin old, NEW k \in Kinds
          PROVE  /\ Reserved(r, k)' <= policyRuns'[r].usage[k]
                 /\ r \notin pruned' => Reserved(r, k)' = policyRuns'[r].usage[k]
      <3>1. policyRuns' = policyRuns /\ pruned \subseteq pruned'
        BY <1>6 DEF PruneReservations
      <3>2. IdsOf(r)' = IdsOf(r)
        BY <1>6, <2>1, NoneAssumption DEF PruneReservations, IdsOf, NoReservation
      <3>3. \A i \in IdsOf(r) : reservations'[i].amount = reservations[i].amount
        BY <1>6, <2>1 DEF PruneReservations, IdsOf
      <3>4. QED BY <1>1, <3>1, <3>2, <3>3
    <2>2. ASSUME NEW r \in old, NEW k \in Kinds
          PROVE  Reserved(r, k)' <= policyRuns'[r].usage[k] /\ r \in pruned'
      <3>1. IdsOf(r)' = {} /\ r \in Runs /\ r \in pruned'
        BY <1>6, NoneAssumption DEF PruneReservations, IdsOf, NoReservation
      <3>2. SumOn(AmountsOf(k)', {}) = 0
        BY SumEmpty
      <3>3. Reserved(r, k)' = 0
        BY <3>1, <3>2 DEF Reserved
      <3>4. policyRuns' = policyRuns
        BY <1>6 DEF PruneReservations
      <3>5. Reserved(r, k) \in Nat /\ policyRuns[r].usage[k] \in Int
            /\ Reserved(r, k) <= policyRuns[r].usage[k]
        BY <3>1, AmountsAreNatural DEF Covered, IInv, Tables
      <3>6. QED BY <3>1, <3>3, <3>4, <3>5
    <2>3. QED BY <2>1, <2>2 DEF Covered
  <1>7. CASE PruneRuns
    <2>1. UNCHANGED <<reservations, pruned>> /\ pruning \subseteq pruned
      BY <1>7 DEF PruneRuns, record, IInv, Locals
    <2>2. \A r \in Runs : IdsOf(r)' = IdsOf(r)
      BY <2>1 DEF IdsOf
    <2>3. ASSUME NEW r \in Runs, r \notin pruning, NEW k \in Kinds
          PROVE  /\ Reserved(r, k)' <= policyRuns'[r].usage[k]
                 /\ r \notin pruned' => Reserved(r, k)' = policyRuns'[r].usage[k]
      <3>1. policyRuns'[r] = policyRuns[r]
        BY <1>7, <2>3 DEF PruneRuns
      <3>2. QED BY <1>1, <2>1, <2>2, <3>1
    <2>4. ASSUME NEW r \in Runs, r \in pruning, NEW k \in Kinds
          PROVE  Reserved(r, k)' <= policyRuns'[r].usage[k] /\ r \in pruned'
      <3>1. IdsOf(r)' = {}
        BY <1>7, <2>2, <2>4 DEF PruneRuns, Refers, IdsOf
      <3>2. SumOn(AmountsOf(k)', {}) = 0
        BY SumEmpty
      <3>3. Reserved(r, k)' = 0
        BY <3>1, <3>2 DEF Reserved
      <3>4. policyRuns'[r].usage[k] = 0
        BY <1>7, <2>4 DEF PruneRuns, NoRun, Zero
      <3>5. QED BY <2>1, <2>4, <3>3, <3>4
    <2>5. QED BY <2>3, <2>4 DEF Covered
  <1>8. QED BY <1>4, <1>5, <1>6, <1>7
       DEF Next, PruneStops, Restart, Expire, NewDay, vars, record

\* Both hold in every reachable state.
LEMMA CoveredAlways == Spec => [](Sound /\ Covered)
  <1>1. IInv /\ IInv' /\ Sound /\ Covered /\ [Next]_vars => (Sound /\ Covered)'
    BY SoundStep, CoveredStep
  <1> QED BY <1>1, InitSound, InitCovered, Inductive, PTL DEF Spec

\* UsageIsSum (ReservePolicy, reconcilePolicyTx, Prune): what is counted for a
\* run is what its reservations come to.
THEOREM UsageIsTheSum == Spec => []UsageIsSum
  <1>1. Covered => UsageIsSum
    BY DEF Covered, UsageIsSum, Reserved, AmountsOf, IdsOf, SumOn
  <1> QED BY <1>1, CoveredAlways, PTL

\* ReservationIsThere (reconcilePolicyTx, Prune): the reservation of a call in
\* flight is its own, not settled, and part of what was counted for its run, or
\* its run was pruned and there is none.
THEOREM ReservationsAreThere == Spec => []ReservationIsThere
  <1>1. IInv /\ Sound /\ Covered => ReservationIsThere
    <2> SUFFICES ASSUME IInv, Sound, Covered, NEW q \in Requests, pc[q] \in {"call", "settle"}
                 PROVE  IF reservations[id[q]] = NoReservation
                          THEN run[q] \in pruned
                          ELSE /\ reservations[id[q]].run = run[q]
                               /\ ~reservations[id[q]].reconciled
                               /\ \A k \in Kinds : reservations[id[q]].amount[k]
                                                      <= policyRuns[run[q]].usage[k]
      BY DEF ReservationIsThere
    <2>0. /\ InFlight(q) /\ run[q] \in Runs /\ id[q] \in Ids
          /\ \/ reservations[id[q]] = NoReservation /\ run[q] \in pruned
             \/ reservations[id[q]].run = run[q]
      BY DEF IInv, Locals, Owned, InFlight
    <2>1. CASE reservations[id[q]] = NoReservation
      BY <2>0, <2>1, NoneAssumption DEF NoReservation
    <2>2. ASSUME reservations[id[q]].run = run[q], NEW k \in Kinds
          PROVE  reservations[id[q]].amount[k] <= policyRuns[run[q]].usage[k]
      <3>1. AmountsOf(k)[id[q]] <= Reserved(run[q], k)
        <4>1. id[q] \in IdsOf(run[q])
          BY <2>0, <2>2 DEF IdsOf
        <4>2. /\ IsFiniteSet(IdsOf(run[q])) /\ IdsOf(run[q]) \subseteq Ids
              /\ \A i \in Ids : AmountsOf(k)[i] \in Nat
          BY <2>0, AmountsAreNatural
        <4>3. QED BY <4>1, <4>2, SumAtLeast DEF Reserved
      <3>2. AmountsOf(k)[id[q]] = reservations[id[q]].amount[k]
        BY <2>0 DEF AmountsOf
      <3>3. /\ Reserved(run[q], k) \in Nat /\ reservations[id[q]].amount[k] \in Nat
            /\ Reserved(run[q], k) <= policyRuns[run[q]].usage[k]
            /\ policyRuns[run[q]].usage[k] \in Int
        BY <2>0, AmountsAreNatural DEF Covered, Sound, Amount, IInv, Tables
      <3>4. QED BY <3>1, <3>2, <3>3
    <2>3. QED BY <2>0, <2>1, <2>2 DEF Sound
  <1> QED BY <1>1, CoveredAlways, Inductive, PTL

-----------------------------------------------------------------------------
\* The day.

\* Calls that were let through and not yet counted, and calls that were let
\* through by the daily check and not yet by the run's.
Uncounted == {q \in Requests : pc[q] \in {"call", "settle", "count"}}
Checked == {q \in Requests : pc[q] = "reserve"}

\* The histories, the counters of the day and the clocks.
Calendar ==
    /\ daily \in [calls : Nat, cost : Nat]
    /\ prunes \in Nat /\ restarts \in Nat /\ days \in Nat
    /\ today \in Nat /\ lost \in Nat
    /\ sent \in [Runs -> Nat]
    /\ expired \in SUBSET Runs

\* Every call of the day is counted, about to be, or lost.  At most so many calls
\* pass the daily check as there are requests, after the last one that may.
DayBounded ==
    /\ today <= daily.calls + lost + Cardinality(Uncounted)
    /\ DailyLimit.calls > 0 =>
          today + Cardinality(Checked)
              <= (DailyLimit.calls - 1) + lost + Cardinality(Requests)

\* The sets of requests are finite.
LEMMA RequestSets ==
    ASSUME NEW A \in SUBSET Requests
    PROVE  IsFiniteSet(A) /\ Cardinality(A) \in Nat /\ Cardinality(A) <= Cardinality(Requests)
  BY FiniteAssumption, FS_Subset, FS_CardinalityType

\* Two sets of requests that have none in common.
LEMMA RequestsApart ==
    ASSUME NEW A \in SUBSET Requests, NEW B \in SUBSET Requests, A \cap B = {}
    PROVE  Cardinality(A) + Cardinality(B) <= Cardinality(Requests)
  <1>1. Cardinality(A \cup B) = Cardinality(A) + Cardinality(B)
    <2>1. IsFiniteSet(A) /\ IsFiniteSet(B)
      BY RequestSets
    <2>2. Cardinality(A \cup B) = Cardinality(A) + Cardinality(B) - Cardinality(A \cap B)
      BY <2>1, FS_Union
    <2>3. Cardinality(A \cap B) = 0
      BY FS_EmptySet
    <2>4. QED BY <2>2, <2>3, RequestSets
  <1>2. A \cup B \in SUBSET Requests
    OBVIOUS
  <1> QED BY <1>1, <1>2, RequestSets

\* The number of requests in a set when one comes or goes.
LEMMA OneMore ==
    ASSUME NEW A \in SUBSET Requests, NEW q \in Requests
    PROVE  /\ q \notin A => Cardinality(A \cup {q}) = Cardinality(A) + 1
           /\ q \in A => Cardinality(A \ {q}) = Cardinality(A) - 1
  BY RequestSets, FS_AddElement, FS_RemoveElement

\* They have their types at first.
LEMMA InitCalendar == Init => Calendar
  BY DEF Init, Calendar

\* They keep their types.
LEMMA CalendarStep == IInv /\ Calendar /\ [Next]_vars => Calendar'
  <1> SUFFICES ASSUME IInv, Calendar, [Next]_vars PROVE Calendar'
    OBVIOUS
  <1> USE DEF Calendar
  <1>1. ASSUME NEW q \in Requests, CountToday(q), spent[q] \in Actuals \cup {Zero}
        PROVE  daily' \in [calls : Nat, cost : Nat]
    <2>1. spent[q]["cost"] \in Nat \cup {Unknown}
      BY <1>1, UsageAssumption DEF Actual, Zero, Kinds
    <2>2. QED BY <1>1, <2>1 DEF CountToday
  <1>2. ASSUME NEW q \in Requests, Step(q) PROVE Calendar'
    <2>0. spent[q] \in Actuals \cup {Zero}
      BY DEF IInv, Locals
    <2>1. CASE Reserve(q)
      BY <2>1 DEF Reserve, clock, starting
    <2>2. CASE Settle(q)
      BY <1>1, <2>0, <2>2 DEF Settle, clock, starting, record
    <2>3. CASE SettleFirst(q)
      BY <2>3 DEF SettleFirst, clock, starting
    <2>4. CASE SettleSecond(q)
      BY <1>1, <2>0, <2>4 DEF SettleSecond, clock, starting
    <2>5. CASE SettleFails(q)
      BY <2>5 DEF SettleFails, clock, starting
    <2>6. QED BY <1>2, <2>1, <2>2, <2>3, <2>4, <2>5
         DEF Step, Preflight, CheckDaily, ReserveBlocked, ProviderAnswers, clock, starting, record
  <1>3. CASE Restart
    <2>1. Cardinality(Uncounted) \in Nat
      BY RequestSets DEF Uncounted
    <2>2. QED BY <1>3, <2>1 DEF Restart, starting, Uncounted
  <1>4. ASSUME NEW r \in Runs, Expire(r) PROVE Calendar'
    BY <1>4 DEF Expire, clock, starting, record
  <1>5. CASE NewDay
    BY <1>5 DEF NewDay, starting
  <1>6. ASSUME NEW old, PruneReservations(old) PROVE Calendar'
    BY <1>6 DEF PruneReservations
  <1>7. CASE PruneRuns \/ PruneStops
    BY <1>7 DEF PruneRuns, PruneStops, record
  <1>8. QED BY <1>2, <1>3, <1>4, <1>5, <1>6, <1>7 DEF Next, vars

\* No call has come at first.
LEMMA InitDay == Init => DayBounded
  <1> SUFFICES ASSUME Init PROVE DayBounded
    OBVIOUS
  <1>1. Cardinality(Checked) = 0 /\ Cardinality(Uncounted) = 0
    <2>1. Checked = {} /\ Uncounted = {}
      BY DEF Init, Checked, Uncounted
    <2>2. QED BY <2>1, FS_EmptySet
  <1>2. Cardinality(Requests) \in Nat
    BY RequestSets
  <1> QED BY <1>1, <1>2, LimitAssumption DEF Init, DayBounded

\* Each step moves one request at most, midnight starts again, and a restart
\* turns the calls that were not counted into lost ones.
LEMMA DayStep == IInv /\ Calendar /\ Calendar' /\ DayBounded /\ [Next]_vars => DayBounded'
  <1> SUFFICES ASSUME IInv, Calendar, Calendar', DayBounded, [Next]_vars PROVE DayBounded'
    OBVIOUS
  <1> DEFINE N == Cardinality(Requests)
             c == Cardinality(Checked)
             u == Cardinality(Uncounted)
  <1>1. /\ Checked \in SUBSET Requests /\ Uncounted \in SUBSET Requests
        /\ Checked' \in SUBSET Requests /\ Uncounted' \in SUBSET Requests
        /\ c \in Nat /\ u \in Nat /\ c' \in Nat /\ u' \in Nat /\ N \in Nat
    <2>1. /\ Checked \in SUBSET Requests /\ Uncounted \in SUBSET Requests
          /\ Checked' \in SUBSET Requests /\ Uncounted' \in SUBSET Requests
      BY DEF Checked, Uncounted
    <2>2. QED BY <2>1, RequestSets
  <1>2. /\ daily.calls \in Nat /\ today \in Nat /\ lost \in Nat
        /\ daily'.calls \in Nat /\ today' \in Nat /\ lost' \in Nat /\ DailyLimit.calls \in Nat
    BY LimitAssumption DEF Calendar
  <1>3. pc \in [Requests -> {"idle", "daily", "reserve", "call", "settle", "count"}]
    BY DEF IInv, Locals
  <1>4. /\ today <= daily.calls + lost + u
        /\ DailyLimit.calls > 0 => today + c <= (DailyLimit.calls - 1) + lost + N
    BY DEF DayBounded
  <1>5. SUFFICES /\ today' <= daily'.calls + lost' + u'
                 /\ DailyLimit.calls > 0 => today' + c' <= (DailyLimit.calls - 1) + lost' + N
    BY DEF DayBounded
  <1>6. ASSUME NEW q \in Requests, Step(q)
        PROVE  /\ today' <= daily'.calls + lost' + u'
               /\ DailyLimit.calls > 0 => today' + c' <= (DailyLimit.calls - 1) + lost' + N
    <2>1. /\ q \notin Checked => Cardinality(Checked \cup {q}) = c + 1
          /\ q \in Checked => Cardinality(Checked \ {q}) = c - 1
          /\ q \notin Uncounted => Cardinality(Uncounted \cup {q}) = u + 1
          /\ q \in Uncounted => Cardinality(Uncounted \ {q}) = u - 1
      BY <1>1, OneMore
    <2>2. c' + u' <= N
      <3>1. Checked' \cap Uncounted' = {}
        BY DEF Checked, Uncounted
      <3>2. QED BY <1>1, <3>1, RequestsApart
    <2>3. Return(q) => Checked' = Checked \ {q} /\ Uncounted' = Uncounted \ {q}
      BY <1>3 DEF Return, Checked, Uncounted
    <2>4. ASSUME NEW r \in Runs, NEW e \in Estimates, Preflight(q, r, e)
          PROVE  UNCHANGED <<today, daily, lost, c, u>>
      <3>1. Checked' = Checked /\ Uncounted' = Uncounted
        BY <1>3, <2>4 DEF Preflight, Goto, Checked, Uncounted
      <3>2. QED BY <2>4, <3>1 DEF Preflight, record
    <2>5. CASE CheckDaily(q)
      <3>1. UNCHANGED <<today, daily, lost>> /\ q \notin Checked /\ q \notin Uncounted
        BY <2>5 DEF CheckDaily, record, Checked, Uncounted
      <3>2. CASE Return(q)
        <4>1. Checked' = Checked /\ Uncounted' = Uncounted
          BY <2>3, <3>1, <3>2
        <4>2. QED BY <1>4, <3>1, <4>1
      <3>3. CASE ~DailyBlocked(est[q]) /\ Goto(q, "reserve")
        <4>1. Checked' = Checked \cup {q} /\ Uncounted' = Uncounted
          BY <1>3, <3>1, <3>3 DEF Goto, Checked, Uncounted
        <4>2. DailyLimit.calls > 0 => daily.calls < DailyLimit.calls
          BY <1>2, <3>3 DEF DailyBlocked
        <4>3. c' = c + 1 /\ u' = u
          BY <2>1, <3>1, <4>1
        <4> HIDE DEF c, u, N
        <4>4. QED BY <1>1, <1>2, <1>4, <2>2, <3>1, <4>2, <4>3
      <3>4. QED BY <2>5, <3>2, <3>3 DEF CheckDaily
    <2>6. CASE Reserve(q)
      <3>1. q \in Checked /\ q \notin Uncounted /\ UNCHANGED <<daily, lost>>
        BY <2>6 DEF Reserve, Checked, Uncounted
      <3>2. CASE Goto(q, "call") /\ today' = today + 1
        <4>1. Checked' = Checked \ {q} /\ Uncounted' = Uncounted \cup {q}
          BY <1>3, <3>1, <3>2 DEF Goto, Checked, Uncounted
        <4>2. c' = c - 1 /\ u' = u + 1
          BY <2>1, <3>1, <4>1
        <4> HIDE DEF c, u, N
        <4>3. QED BY <1>1, <1>2, <1>4, <3>1, <3>2, <4>2
      <3>3. CASE Return(q) /\ today' = today
        <4>1. Checked' = Checked \ {q} /\ Uncounted' = Uncounted
          BY <2>3, <3>1, <3>3
        <4>2. c' = c - 1 /\ u' = u
          BY <2>1, <3>1, <4>1
        <4> HIDE DEF c, u, N
        <4>3. QED BY <1>1, <1>2, <1>4, <3>1, <3>3, <4>2
      <3>4. QED BY <2>6, <3>2, <3>3 DEF Reserve
    <2>7. CASE ReserveBlocked(q)
      <3>1. UNCHANGED <<today, daily, lost>> /\ q \in Checked /\ q \notin Uncounted /\ Return(q)
        BY <2>7 DEF ReserveBlocked, record, Checked, Uncounted
      <3>2. c' = c - 1 /\ u' = u
        BY <2>1, <2>3, <3>1
      <3> HIDE DEF c, u, N
      <3>3. QED BY <1>1, <1>2, <1>4, <3>1, <3>2
    <2>8. ASSUME NEW actual \in Actuals, ProviderAnswers(q, actual)
          PROVE  UNCHANGED <<today, daily, lost, c, u>>
      <3>1. Checked' = Checked /\ Uncounted' = Uncounted
        BY <1>3, <2>8 DEF ProviderAnswers, Goto, Checked, Uncounted
      <3>2. QED BY <2>8, <3>1 DEF ProviderAnswers
    <2>9. CASE SettleFirst(q) /\ Goto(q, "count") /\ UNCHANGED lost
      <3>1. Checked' = Checked /\ Uncounted' = Uncounted
        BY <1>3, <2>9 DEF SettleFirst, Goto, Checked, Uncounted
      <3>2. QED BY <1>4, <2>9, <3>1 DEF SettleFirst
    <2>10. ASSUME Return(q), q \in Uncounted, q \notin Checked, today' = today,
                  \/ daily'.calls = daily.calls + 1 /\ lost' = lost
                  \/ daily' = daily /\ lost' = lost + 1
           PROVE  /\ today' <= daily'.calls + lost' + u'
                  /\ DailyLimit.calls > 0 => today' + c' <= (DailyLimit.calls - 1) + lost' + N
      <3>1. c' = c /\ u' = u - 1
        BY <2>1, <2>3, <2>10
      <3> HIDE DEF c, u, N
      <3>2. QED BY <1>1, <1>2, <1>4, <2>10, <3>1
    <2>11. pc[q] \in {"settle", "count"} => q \in Uncounted /\ q \notin Checked
      BY DEF Checked, Uncounted
    <2>12. CountToday(q) => daily'.calls = daily.calls + 1
      BY DEF CountToday
    <2>13. CASE Settle(q)
      BY <2>10, <2>11, <2>12, <2>13 DEF Settle, record
    <2>14. CASE SettleFirst(q) /\ Return(q) /\ lost' = lost + 1
      BY <2>10, <2>11, <2>14 DEF SettleFirst
    <2>15. CASE SettleSecond(q)
      BY <2>10, <2>11, <2>12, <2>15 DEF SettleSecond
    <2>16. CASE SettleFails(q)
      BY <2>10, <2>11, <2>16 DEF SettleFails
    <2>17. CASE UNCHANGED <<today, daily, lost, c, u>>
      BY <1>4, <2>17
    <2> HIDE DEF c, u, N
    <2>18. SettleFirst(q) => \/ SettleFirst(q) /\ Goto(q, "count") /\ UNCHANGED lost
                             \/ SettleFirst(q) /\ Return(q) /\ lost' = lost + 1
      BY DEF SettleFirst
    <2>19. QED BY <1>6, <2>4, <2>5, <2>6, <2>7, <2>8, <2>9, <2>13, <2>14, <2>15, <2>16, <2>17, <2>18
         DEF Step
  <1>7. CASE Restart
    <2>1. Checked' = {} /\ Uncounted' = {}
      BY <1>7 DEF Restart, Checked, Uncounted
    <2>2. c' = 0 /\ u' = 0
      BY <2>1, FS_EmptySet
    <2>3. today' = today /\ daily' = daily /\ lost' = lost + u
      BY <1>7 DEF Restart, Uncounted
    <2> HIDE DEF c, u, N
    <2>4. QED BY <1>1, <1>2, <1>4, <2>2, <2>3
  <1>8. CASE NewDay
    <2>1. Checked' = Checked /\ today' = 0 /\ lost' = 0
      BY <1>8 DEF NewDay, Checked
    <2>2. c <= N /\ c' = c
      BY <1>1, <2>1, RequestSets
    <2> HIDE DEF c, u, N
    <2>3. today' <= daily'.calls + lost' + u'
      <3>1. today' <= u'
        BY <1>1, <2>1
      <3>2. QED BY <1>1, <1>2, <3>1
    <2>4. DailyLimit.calls > 0 => c' <= (DailyLimit.calls - 1) + N
      BY <1>1, <1>2, <2>2
    <2>5. QED BY <1>1, <1>2, <2>1, <2>3, <2>4
  <1>9. CASE UNCHANGED <<pc, today, daily, lost>>
    <2>1. Checked' = Checked /\ Uncounted' = Uncounted
      BY <1>9 DEF Checked, Uncounted
    <2>2. QED BY <1>4, <1>9, <2>1
  <1> HIDE DEF c, u, N
  <1>10. QED BY <1>6, <1>7, <1>8, <1>9
       DEF Next, PruneReservations, PruneRuns, PruneStops, Expire, vars, record

\* Both hold in every reachable state.
LEMMA DayAlways == Spec => [](Calendar /\ DayBounded)
  <1>1. IInv /\ Calendar /\ DayBounded /\ [Next]_vars => (Calendar /\ DayBounded)'
    BY CalendarStep, DayStep
  <1> QED BY <1>1, InitCalendar, InitDay, Inductive, PTL DEF Spec

\* DailyOvershootBounded (Preflight and the postflight of the daily counters):
\* the check and the count are apart, and no more calls come between them than
\* there are requests.
THEOREM DailyOvershoot == Spec => []DailyOvershootBounded
  <1>1. Calendar /\ DayBounded => DailyOvershootBounded
    <2>1. Cardinality(Requests) \in Nat /\ Cardinality(Checked) \in Nat
      BY RequestSets DEF Checked
    <2>2. QED BY <2>1, LimitAssumption DEF Calendar, DayBounded, DailyOvershootBounded
  <1> QED BY <1>1, DayAlways, PTL

\* TypeOK: the shape of every variable; no counter of a run passes the largest
\* int64, and no amount and no cost is ever negative.
THEOREM TypeCorrect == Spec => []TypeOK
  <1>1. IInv /\ Sound /\ Covered /\ Calendar => TypeOK
    <2> SUFFICES ASSUME IInv, Sound, Covered, Calendar PROVE TypeOK
      OBVIOUS
    <2>1. ASSUME NEW r \in Runs
          PROVE  policyRuns[r] \in [present : BOOLEAN, calls : 0..MaxInt, usage : Amount]
      <3>1. \A k \in Kinds : policyRuns[r].usage[k] \in Nat
        BY AmountsAreNatural DEF Covered, IInv, Tables
      <3>2. policyRuns[r].usage \in Amount
        BY <3>1 DEF Amount, IInv, Tables
      <3>3. policyRuns[r].calls \in 0..MaxInt
        BY DEF Sound
      <3>4. QED BY <3>2, <3>3 DEF IInv, Tables
    <2>2. policyRuns \in [Runs -> [present : BOOLEAN, calls : 0..MaxInt, usage : Amount]]
      BY <2>1 DEF IInv, Tables
    <2>3. reservations \in [Ids -> [run : Runs \cup {None}, amount : Amount, reconciled : BOOLEAN]]
      BY DEF IInv, Tables, Sound
    <2>4. \A r \in Runs : \A k \in Counters : policyRuns[r].usage[k] <= MaxInt
      BY DEF Sound
    <2>5. QED BY <2>2, <2>3, <2>4 DEF TypeOK, IInv, Locals, Calendar
  <1> QED BY <1>1, CoveredAlways, DayAlways, Inductive, PTL
=============================================================================
