--------------------------- MODULE PolicyBudget ---------------------------
(***************************************************************************)
(* The budgets of a run and of the installation (internal/policies         *)
(* policy.go, internal/storage policy_counters.go, postflight.go and       *)
(* retention.go).                                                          *)
(*                                                                         *)
(* A gateway call is checked against the daily counters, then reserved     *)
(* against its run's counters in one transaction, sent to the provider,    *)
(* and settled: its reservation is replaced by the actual usage and the    *)
(* day's counters are incremented, in one transaction or in two.  Calls    *)
(* run concurrently; between any two of these steps others go on, and a    *)
(* core that stops loses the calls in flight but not the tables.  A core   *)
(* that starts prunes old runs, and it does so before it finds out whether *)
(* another one is serving: then calls of these runs are in flight.         *)
(*                                                                         *)
(* Amounts are natural numbers: a cost is an exact rational in the code.   *)
(* The repetition rules and the allowlists come before all this and change *)
(* no counter; a call they block is not modelled.                          *)
(***************************************************************************)
EXTENDS Integers, FiniteSets, Functions

CONSTANTS
    Runs,           \* run IDs
    Requests,       \* goroutines that serve calls
    Ids,            \* reservation IDs; bounds the calls admitted
    None,           \* no reservation, no run
    Limit,          \* the limits of a run: calls, input, output, total, tools, cost
    DailyLimit,     \* the limits of the installation: calls, cost
    DurationLimited,\* TRUE: max_duration_seconds is set
    Estimates,      \* what a call may be expected to use
    Actuals,        \* what a provider may report
    MaxInt,         \* the largest int64
    ControlPlane,   \* TRUE: the outbox recorder, which never settles in one step
    StoreFaults,    \* TRUE: a transaction may fail, or fail after its commit
    MaxRestarts,    \* bound: restarts of the core
    MaxEvents       \* bound: midnights (UTC), and other cores that start and prune

\* A limit, a cost estimate or a reported amount that is not given.
Unknown == -1

Counters == {"input", "output", "tools"}
Kinds == Counters \cup {"cost"}
Amount == [Kinds -> Nat]
Estimate == [input : Nat, output : Nat, tools : Nat, cost : Nat \cup {Unknown}]
Actual == [Kinds -> Nat \cup {Unknown}]

ASSUME LimitAssumption ==
    /\ Limit \in [calls : Nat, input : Nat, output : Nat, total : Nat, tools : Nat,
                  cost : Nat \cup {Unknown}]
    /\ DailyLimit \in [calls : Nat, cost : Nat]
ASSUME UsageAssumption == Estimates \subseteq Estimate /\ Actuals \subseteq Actual
ASSUME SwitchAssumption ==
    {DurationLimited, ControlPlane, StoreFaults} \subseteq BOOLEAN
ASSUME BoundAssumption ==
    MaxInt \in Nat /\ MaxRestarts \in Nat /\ MaxEvents \in Nat
\* A process has finitely many goroutines, a table finitely many rows.
ASSUME FiniteAssumption == IsFiniteSet(Requests) /\ IsFiniteSet(Ids)
ASSUME NoneAssumption == None \notin Ids /\ None \notin Runs

VARIABLES
    policyRuns,    \* table policy_runs
    reservations,  \* table policy_reservations
    daily,         \* today's row of installation_daily_counters
    expired,       \* runs older than max_duration_seconds
    pc,            \* where each request is
    run,           \* the run it belongs to
    est,           \* its estimate
    id,            \* its reservation
    spent,         \* what the provider reported
    pruning,       \* the runs that a starting core is about to delete
    prunes,
    restarts,
    days,
    sent,          \* history: calls admitted, by run
    today,         \* history: calls admitted today
    lost,          \* history: calls that went uncounted today
    overrun,       \* history: runs for which more was reported than estimated
    pruned         \* history: runs that were pruned

vars == <<policyRuns, reservations, daily, expired, pc, run, est, id, spent,
          pruning, prunes, restarts, days, sent, today, lost, overrun, pruned>>
locals == <<run, est, id, spent>>
starting == <<pruning, prunes>>
clock == <<starting, restarts, days>>
record == <<sent, today, lost, overrun, pruned>>

Zero == [k \in Kinds |-> 0]
NoRun == [present |-> FALSE, calls |-> 0, usage |-> Zero]
NoReservation == [run |-> None, amount |-> Zero, reconciled |-> FALSE]

TypeOK ==
    /\ policyRuns \in [Runs -> [present : BOOLEAN, calls : 0..MaxInt, usage : Amount]]
    /\ \A r \in Runs : \A k \in Counters : policyRuns[r].usage[k] <= MaxInt
    /\ reservations \in [Ids -> [run : Runs \cup {None}, amount : Amount, reconciled : BOOLEAN]]
    /\ daily \in [calls : Nat, cost : Nat]
    /\ expired \in SUBSET Runs
    /\ pc \in [Requests -> {"idle", "daily", "reserve", "call", "settle", "count"}]
    /\ run \in [Requests -> Runs \cup {None}]
    /\ est \in [Requests -> Estimates \cup {Zero}]
    /\ id \in [Requests -> Ids \cup {None}]
    /\ spent \in [Requests -> Actuals \cup {Zero}]
    /\ pruning \in SUBSET Runs /\ prunes \in Nat
    /\ restarts \in Nat /\ days \in Nat
    /\ sent \in [Runs -> Nat] /\ today \in Nat /\ lost \in Nat
    /\ overrun \in SUBSET Runs /\ pruned \in SUBSET Runs

Init ==
    /\ policyRuns = [r \in Runs |-> NoRun]
    /\ reservations = [i \in Ids |-> NoReservation]
    /\ daily = [calls |-> 0, cost |-> 0]
    /\ expired = {}
    /\ pc = [q \in Requests |-> "idle"]
    /\ run = [q \in Requests |-> None]
    /\ est = [q \in Requests |-> Zero]
    /\ id = [q \in Requests |-> None]
    /\ spent = [q \in Requests |-> Zero]
    /\ pruning = {} /\ prunes = 0
    /\ restarts = 0 /\ days = 0
    /\ sent = [r \in Runs |-> 0] /\ today = 0 /\ lost = 0
    /\ overrun = {} /\ pruned = {}

Goto(q, label) == pc' = [pc EXCEPT ![q] = label]

Return(q) ==
    /\ pc' = [pc EXCEPT ![q] = "idle"]
    /\ run' = [run EXCEPT ![q] = None]
    /\ est' = [est EXCEPT ![q] = Zero]
    /\ id' = [id EXCEPT ![q] = None]
    /\ spent' = [spent EXCEPT ![q] = Zero]

-----------------------------------------------------------------------------
\* Amounts.

\* The cost of an estimate counts as zero when it is not given.
Priced(e) == [k \in Kinds |-> IF e[k] = Unknown THEN 0 ELSE e[k]]

Plus(u, v) == [k \in Kinds |-> u[k] + v[k]]

\* Mutant: the counters are added without a check for overflow.
MutUncheckedAdd(u) == \A k \in Counters : u[k] >= 0

\* checkedAdd, on the three counters and on the sum of the tokens.
Fits(u) ==
    /\ \A k \in Counters : u[k] <= MaxInt
    /\ u["input"] + u["output"] <= MaxInt

\* A reported amount, or the reserved one when none was reported.
Reported(actual, reserved) ==
    [k \in Kinds |-> IF actual[k] = Unknown THEN reserved[k] ELSE actual[k]]

Settled(usage, reserved, final) ==
    [k \in Kinds |-> (usage[k] - reserved[k]) + final[k]]

-----------------------------------------------------------------------------
\* Preflight.

\* An ID is not drawn again while its row, or a call that has it, is there.
FreeIds == {i \in Ids : reservations[i] = NoReservation /\ \A q \in Requests : id[q] # i}

\* Bound: a call comes in only while there is a reservation ID left for it.
IdsLeft == Cardinality({q \in Requests : pc[q] \in {"daily", "reserve"}}) < Cardinality(FreeIds)

\* A run that has a cost limit takes only calls with an estimate of the cost.
Admissible(e) == Limit.cost # Unknown => e.cost # Unknown

Preflight(q, r, e) ==
    /\ pc[q] = "idle" /\ IdsLeft
    /\ Admissible(e)
    /\ Goto(q, "daily")
    /\ run' = [run EXCEPT ![q] = r]
    /\ est' = [est EXCEPT ![q] = e]
    /\ UNCHANGED <<policyRuns, reservations, daily, expired, id, spent, clock, record>>

\* Mutant: the day's call limit is off by one.
MutDailyOffByOne(e) ==
    \/ DailyLimit.calls > 0 /\ daily.calls > DailyLimit.calls
    \/ DailyLimit.cost > 0 /\ daily.cost + Priced(e)["cost"] > DailyLimit.cost

DailyBlocked(e) ==
    \/ DailyLimit.calls > 0 /\ daily.calls >= DailyLimit.calls
    \/ DailyLimit.cost > 0 /\ daily.cost + Priced(e)["cost"] > DailyLimit.cost

\* The daily counters are read on their own, from the read pool.
CheckDaily(q) ==
    /\ pc[q] = "daily"
    /\ \/ /\ ~DailyBlocked(est[q])
          /\ Goto(q, "reserve")
          /\ UNCHANGED locals
       \/ /\ DailyBlocked(est[q]) \/ StoreFaults
          /\ Return(q)
    /\ UNCHANGED <<policyRuns, reservations, daily, expired, clock, record>>

\* Mutant: the reservation is not added up before it is compared.
MutCompareBeforeAdding(row, next) ==
    \/ Limit.calls > 0 /\ row.calls >= Limit.calls
    \/ \E k \in Counters : Limit[k] > 0 /\ row.usage[k] > Limit[k]
    \/ Limit.total > 0 /\ row.usage["input"] + row.usage["output"] > Limit.total
    \/ Limit.cost # Unknown /\ row.usage["cost"] > Limit.cost

\* Mutant: the call limit is compared with the calls made, not the next one.
MutCallsOffByOne(row, next) ==
    \/ Limit.calls > 0 /\ row.calls > Limit.calls
    \/ \E k \in Counters : Limit[k] > 0 /\ next[k] > Limit[k]
    \/ Limit.total > 0 /\ next["input"] + next["output"] > Limit.total
    \/ Limit.cost # Unknown /\ next["cost"] > Limit.cost

OverLimit(row, next) ==
    \/ Limit.calls > 0 /\ row.calls >= Limit.calls
    \/ \E k \in Counters : Limit[k] > 0 /\ next[k] > Limit[k]
    \/ Limit.total > 0 /\ next["input"] + next["output"] > Limit.total
    \/ Limit.cost # Unknown /\ next["cost"] > Limit.cost

\* ReservePolicy's transaction commits.  A failure after the commit leaves a
\* reservation that nobody settles.
Reserve(q) ==
    /\ pc[q] = "reserve"
    /\ LET r == run[q]
           amount == Priced(est[q])
           next == Plus(policyRuns[r].usage, amount)
       IN /\ Fits(next) /\ policyRuns[r].calls < MaxInt
          /\ ~OverLimit(policyRuns[r], next)
          /\ r \notin expired
          /\ policyRuns' = [policyRuns EXCEPT ![r] =
                [present |-> TRUE, calls |-> @.calls + 1, usage |-> next]]
          /\ \E i \in FreeIds :
               /\ reservations' = [reservations EXCEPT ![i] =
                     [run |-> r, amount |-> amount, reconciled |-> FALSE]]
               /\ \/ /\ Goto(q, "call")
                     /\ id' = [id EXCEPT ![q] = i]
                     /\ sent' = [sent EXCEPT ![r] = @ + 1]
                     /\ today' = today + 1
                     /\ UNCHANGED <<run, est, spent>>
                  \/ StoreFaults /\ Return(q) /\ UNCHANGED <<sent, today>>
    /\ UNCHANGED <<daily, expired, clock, lost, overrun, pruned>>

\* The transaction is rolled back: a limit, an overflow, or an error.
ReserveBlocked(q) ==
    /\ pc[q] = "reserve"
    /\ LET row == policyRuns[run[q]]
           next == Plus(row.usage, Priced(est[q]))
       IN \/ StoreFaults \/ ~Fits(next) \/ row.calls = MaxInt
          \/ OverLimit(row, next) \/ run[q] \in expired
    /\ Return(q)
    /\ UNCHANGED <<policyRuns, reservations, daily, expired, clock, record>>

-----------------------------------------------------------------------------
\* No more is reported than was estimated.
Honest(actual, e) == \A k \in Kinds : actual[k] <= Priced(e)[k]

\* The provider answers, or does not.
ProviderAnswers(q, actual) ==
    /\ pc[q] = "call"
    /\ Goto(q, "settle")
    /\ spent' = [spent EXCEPT ![q] = actual]
    /\ overrun' = IF Honest(actual, est[q]) THEN overrun ELSE overrun \cup {run[q]}
    /\ UNCHANGED <<policyRuns, reservations, daily, expired, run, est, id, clock,
                   sent, today, lost, pruned>>

\* Mutant: the usage is added and the reserved amount is not given back.
MutKeepReserved(q) ==
    LET r == run[q]
        reserved == reservations[id[q]].amount
        final == Reported(spent[q], reserved)
    IN /\ policyRuns' = [policyRuns EXCEPT ![r].usage = Plus(@, final)]
       /\ reservations' = [reservations EXCEPT ![id[q]].amount = final,
                                               ![id[q]].reconciled = TRUE]

\* reconcilePolicyTx can go through: the reservation is there, the counters
\* can give it back, and the new ones fit.
Reconcilable(q) ==
    LET usage == policyRuns[run[q]].usage
        reserved == reservations[id[q]].amount
        final == Reported(spent[q], reserved)
    IN /\ reservations[id[q]].run = run[q]
       /\ final["input"] + final["output"] <= MaxInt
       /\ \A k \in Counters : reserved[k] <= usage[k]
       /\ Fits(Settled(usage, reserved, final))

\* A reservation that is already reconciled stays as it is.
Reconcile(q) ==
    LET r == run[q]
        reserved == reservations[id[q]].amount
        final == Reported(spent[q], reserved)
    IN IF reservations[id[q]].reconciled
       THEN UNCHANGED <<policyRuns, reservations>>
       ELSE /\ policyRuns' = [policyRuns EXCEPT ![r].usage = Settled(@, reserved, final)]
            /\ reservations' = [reservations EXCEPT ![id[q]].amount = final,
                                                    ![id[q]].reconciled = TRUE]

\* incrementDailyCountersTx; an unknown cost counts as zero.
CountToday(q) ==
    daily' = [calls |-> daily.calls + 1,
              cost |-> daily.cost + (IF spent[q]["cost"] = Unknown THEN 0 ELSE spent[q]["cost"])]

\* PostflightAndAppend: all of it in one transaction.
Settle(q) ==
    /\ pc[q] = "settle" /\ ~ControlPlane
    /\ Reconcilable(q)
    /\ Reconcile(q)
    /\ CountToday(q)
    /\ Return(q)
    /\ UNCHANGED <<expired, clock, record>>

\* Postflight: two transactions, with a control plane, without a recorder, or
\* when the event of the call is rejected.
SettleFirst(q) ==
    /\ pc[q] = "settle"
    /\ Reconcilable(q)
    /\ Reconcile(q)
    /\ \/ Goto(q, "count") /\ UNCHANGED <<locals, lost>>
       \/ StoreFaults /\ Return(q) /\ lost' = lost + 1
    /\ UNCHANGED <<daily, expired, clock, sent, today, overrun, pruned>>

SettleSecond(q) ==
    /\ pc[q] = "count"
    /\ \/ CountToday(q) /\ UNCHANGED lost
       \/ StoreFaults /\ lost' = lost + 1 /\ UNCHANGED daily
    /\ Return(q)
    /\ UNCHANGED <<policyRuns, reservations, expired, clock, sent, today, overrun, pruned>>

\* The first transaction fails: it is logged and that is all.
SettleFails(q) ==
    /\ pc[q] = "settle"
    /\ StoreFaults \/ ~Reconcilable(q)
    /\ Return(q)
    /\ lost' = lost + 1
    /\ UNCHANGED <<policyRuns, reservations, daily, expired, clock, sent, today, overrun, pruned>>

-----------------------------------------------------------------------------
Expire(r) ==
    /\ DurationLimited /\ policyRuns[r].present
    /\ expired' = expired \cup {r}
    /\ UNCHANGED <<policyRuns, reservations, daily, pc, locals, clock, record>>

\* Midnight: the counters of the new day start from nothing.
NewDay ==
    /\ days + prunes < MaxEvents
    /\ days' = days + 1
    /\ daily' = [calls |-> 0, cost |-> 0]
    /\ today' = 0 /\ lost' = 0
    /\ UNCHANGED <<policyRuns, reservations, expired, pc, locals, starting, restarts,
                   sent, overrun, pruned>>

\* Prune, by a core that starts: alone, after a restart, or beside one that
\* serves.  The reservations of the runs that were started before the cutoff go
\* first.  Bound: no two cores prune at once.
PruneReservations(old) ==
    /\ days + prunes < MaxEvents /\ pruning = {}
    /\ prunes' = prunes + 1
    /\ pruning' = old
    /\ reservations' = [i \in Ids |-> IF reservations[i].run \in old THEN NoReservation
                                      ELSE reservations[i]]
    /\ pruned' = pruned \cup old
    /\ UNCHANGED <<policyRuns, daily, expired, pc, locals, restarts, days, sent, today, lost, overrun>>

\* Mutant: the foreign key does not hold the runs that are in use.
MutNoForeignKey(i) == FALSE

\* A reservation refers to a run that is being deleted.
Refers(i) == reservations[i].run \in pruning

\* Then the runs, in a statement of its own; a new reservation keeps its run.
PruneRuns ==
    /\ pruning # {} /\ ~(\E i \in Ids : Refers(i))
    /\ policyRuns' = [r \in Runs |-> IF r \in pruning THEN NoRun ELSE policyRuns[r]]
    /\ expired' = expired \ pruning
    /\ pruning' = {}
    /\ UNCHANGED <<reservations, daily, pc, locals, prunes, restarts, days, record>>

\* It fails: the foreign key, the store, or the core is gone.
PruneStops ==
    /\ pruning # {}
    /\ pruning' = {}
    /\ UNCHANGED <<policyRuns, reservations, daily, expired, pc, locals, prunes, restarts, days, record>>

\* The serving core stops and starts again: the calls in flight are gone.
Restart ==
    /\ restarts < MaxRestarts
    /\ restarts' = restarts + 1
    /\ pc' = [q \in Requests |-> "idle"]
    /\ run' = [q \in Requests |-> None]
    /\ est' = [q \in Requests |-> Zero]
    /\ id' = [q \in Requests |-> None]
    /\ spent' = [q \in Requests |-> Zero]
    /\ lost' = lost + Cardinality({q \in Requests : pc[q] \in {"call", "settle", "count"}})
    /\ UNCHANGED <<policyRuns, reservations, daily, expired, starting, days,
                   sent, today, overrun, pruned>>

-----------------------------------------------------------------------------
Step(q) ==
    \/ \E r \in Runs, e \in Estimates : Preflight(q, r, e)
    \/ CheckDaily(q) \/ Reserve(q) \/ ReserveBlocked(q)
    \/ \E actual \in Actuals : ProviderAnswers(q, actual)
    \/ Settle(q) \/ SettleFirst(q) \/ SettleSecond(q) \/ SettleFails(q)

Next ==
    \/ \E q \in Requests : Step(q)
    \/ \E r \in Runs : Expire(r)
    \/ \E old \in SUBSET {r \in Runs : policyRuns[r].present} \ {{}} : PruneReservations(old)
    \/ PruneRuns \/ PruneStops
    \/ NewDay \/ Restart

Spec == Init /\ [][Next]_vars

-----------------------------------------------------------------------------
\* A run never gets more calls through than it was granted, however many ask
\* at once, whatever fails and however often the core restarts, until it is pruned.
CallLimitHolds == \A r \in Runs \ pruned : Limit.calls > 0 => sent[r] <= Limit.calls

\* README: "call and budget counters in SQLite survive restart".  So the same
\* should hold of every run.
BudgetSurvivesRestart == \A r \in Runs : Limit.calls > 0 => sent[r] <= Limit.calls

\* A run never spends more than its limits, reservations of calls in flight
\* included, until a provider reports more than was estimated: what a call gives
\* back when it is settled makes no room that another call has taken.
WithinLimits(u) ==
    /\ \A k \in Counters : Limit[k] > 0 => u[k] <= Limit[k]
    /\ Limit.total > 0 => u["input"] + u["output"] <= Limit.total
    /\ Limit.cost # Unknown => u["cost"] <= Limit.cost
SpendingWithinLimits ==
    \A r \in Runs \ overrun : WithinLimits(policyRuns[r].usage)

\* The counters of a run are the sum of its reservations, settled or not, until
\* it is pruned: no usage is lost, counted twice or given back twice, in
\* whatever order calls overlap, fail and are lost in a restart.
UsageIsSum ==
    \A r \in Runs \ pruned : \A k \in Kinds :
        policyRuns[r].usage[k] =
            FoldFunctionOnSet(LAMBDA x, y : x + y, 0, [i \in Ids |-> reservations[i].amount[k]],
                              {i \in Ids : reservations[i].run = r})

\* A call that is settled finds its own reservation, not yet settled, and the
\* counters of its run can give it back, whatever was pruned, lost or reported
\* over the estimate meanwhile; it finds none only when its run was pruned while
\* it was in flight.  So reconcilePolicyTx never meets a "policy counter
\* underflow", and an "unknown policy reservation" is a pruned one.
ReservationIsThere ==
    \A q \in Requests : pc[q] \in {"call", "settle"} =>
        LET reservation == reservations[id[q]] IN
        IF reservation = NoReservation
          THEN run[q] \in pruned
          ELSE /\ reservation.run = run[q] /\ ~reservation.reconciled
               /\ \A k \in Kinds : reservation.amount[k] <= policyRuns[run[q]].usage[k]

\* The daily call limit is checked before the call and counted after it, so
\* calls in flight pass it together, although migration 005 has the counters
\* "enforce MaxCallsPerDay"; but a day's calls exceed it by no more than
\* the calls in flight at once, and those that a restart or a failure of the
\* store left uncounted.
DailyOvershootBounded ==
    DailyLimit.calls > 0 => today < DailyLimit.calls + Cardinality(Requests) + lost

=============================================================================
