# Virgil in TLA+

TLA+ specifications of Virgil: the circuit breaker (the core's registry of
supervised runs and the table behind it, and the supervisor of `virgil run`), the
budgets of runs and of the installation, a provider call through the gateway
with the repetition rules and the protocol translations, and the way of a
finished call's event to the Control Plane. TLC checks them on small instances;
TLAPS proves the theorems named below for every value of the constants.
Paths are relative to the root of the repository.

Run TLC and the prover from this directory:

    tlc -config RunRegistryFaults.cfg MCRunRegistry.tla
    tlapm RunRegistryProofs.tla

and so for the other modules of theorems, whose names end in `Proofs`.

`PROJECT.json` holds, in machine-readable form, the runs, the map from every
definition to the lines it models, the hazards, the findings, and for every
property a mutation of the model, as a plausible bug would make it, that
breaks the property.


## 1. The system

One executable is a local core (`virgil`, `virgil serve`) and a supervisor
(`virgil run`). The core is one process with an HTTP server on loopback and a
SQLite database; the supervisor registers a run with the core, starts a child
process tree that reaches its model provider through the core's gateway, and
stops the tree when the gateway blocks a call.

| component | state | operations | modelled in |
|---|---|---|---|
| execution registry, `internal/executions` | map run ID -> record (ready, finishing, claimed, closed, `notifyOnce`, a channel of one notice) under one mutex | Register, ResolveRunToken, Subscribe, NotifyPolicyBlock, Finish and the handlers around them | `RunRegistry` |
| executions table, `internal/storage/executions.go`, `sqlite.go` | one row per run: state, policy, termination, end | conditional statements, recovery at start | `ExecutionRow`, `ExecutionLifecycle` |
| run-token authentication, `internal/gateway/execution_auth.go` | none of its own | resolves the token in the registry | `RunRegistry` (`Authenticate`) |
| block path of the gateway, `chat.go` and the other protocols | the goroutine of the call | record the block, notify the runner, answer 403 | `RunRegistry`, `Supervision` |
| supervisor, `internal/runner/supervisor.go` | locals of `superviseWithStarter`, a background request, a stream reader | register, subscribe, start, select loop, terminate, finish | `Supervision` |
| control client, `control_client.go` | none | four requests, one stream | `Supervision` |
| process trees, `process*.go` | a process group or a job object | start, wait, sweep, terminate | `Supervision`, as a root and the descendants it may leave |
| budgets, `internal/policies/policy.go`, `storage/policy_counters.go`, `postflight.go` | `policy_runs`, `policy_reservations`, `installation_daily_counters` | check the day, reserve, settle | `PolicyBudget` |
| retention, `storage/retention.go` | (the tables) | prune at each start | `PolicyBudget`, `Outbox` and `Repetition`, each its own tables |
| repetition rules, `policies/repetition.go`, `storage/repetition.go`, `gateway/tool_results.go` | three caches of 1024 runs, in order of entry, under one mutex; a copy in SQLite | count, block, save, load | `Repetition`, `Gateway` |
| providers and translation, `internal/providers`, `gateway/chat.go`, `responses.go`, `responses_chat.go`, `messages.go` | locals of a handler and of a stream | translate a request, read or stream an answer, tell the client, record | `Conversations`, `ProviderStreams`, `Gateway` |
| journal writer, `storage/sqlite.go` | a bounded channel, one goroutine, a read-write lock | Append, Close | `Delivery` |
| outbox and delivery, `storage/outbox.go`, `export/controlplane.go` | `outbox_events`: state, attempts, next attempt, lease | enqueue, lease, acknowledge, fail, dead-letter, drain | `Outbox`, `Delivery`, `DeliveryPromise` |
| control-plane loop and client, `cmd/virgil/controlplane.go`, `internal/controlplane` | ETag, last policy, revocation, idle streak, interval | sync the policy, drain, back off | `Delivery` |
| remote policy, `controlplane/policy.go`, `policies/policy.go`, `storage/remote_policy.go` | one cached envelope, effective limits, last version | merge, save, put in force, load at start | `RemotePolicy`, `Delivery` |
| core start and shutdown, `internal/app/core.go` | | order of open, recover, prune, deliver, listen | the order, in `RunRegistry`, `PolicyBudget` and `Delivery` |
| settings, `internal/settings` | a file under one mutex | | not modelled |
| drainers for tests, dashboard, setup pages, config, pricing, redaction, telemetry, control credential | little or none | queries, pure functions | not modelled |

How they interact. The supervisor calls the core over HTTP (register, running,
finish) and listens on one server-sent-event stream. The child calls the gateway
with the run token. The gateway asks the policy engine, which reads and writes the
budget tables; a call that is refused is recorded in the executions table and
passed to the registry, whose channel wakes the goroutine of the stream, which
tells the supervisor. A call that is let through is translated, sent, and its
answer translated back; then its handler records its tool calls and its outcome
for the repetition rules, settles its budget and appends an event to the journal.
The journal's writer stores the event with a row of the outbox. The delivery loop
first fetches a policy, which the engine merges with the local limits, saves and
puts in force, and then leases rows, sends them and settles each. All goroutines of
the core share the registry's mutex and the database, and the registry gives its
mutex up around each store call, as the repetition rules do.

What is hard. Handlers, the stream and its deferred release, and blocked calls
interleave at every unlock and every transaction. The supervisor's `select` takes
any case that is ready, and its child runs before the core knows it does. A
store call can fail after its commit, a request after it was served. The core can
die at any point with all its memory, and two cores can meet on one database: the second
one recovers and prunes before it finds the port taken. The root of a process tree
can end by itself and leave descendants that cannot be killed.
Calls overlap between the check of a counter, its increase and its correction.
Repetition counts are saved after the mutex is given up, so saves overtake each
other, and a check that misses the cache reads a row that may change before it
fills the cache. A stream may fail, or its client leave, at any frame, and the five
routes routes treat this in five ways: some take a client that has left for an error of the
provider, one inspects a response after the client has it. A lease ends while its batch is on the way, a batch
is stored and its answer lost, a caller gives up on an append that goes on, and a
policy is saved and put in force in two steps; a policy, a batch and the outbox's
answer to it share fifteen seconds, which a Control Plane that hangs uses up.
These are listed line by line as `hazards` in `PROJECT.json`, with the properties
that would show each one going wrong.

What makes each component correct:

- registry: nobody closes or uses a closed channel; one finisher per run;
  a token is good only while the outcome is open; an acknowledged finish is final;
  one notice per run, and it does not claim a record that does not exist; the
  stream ends.
- table: an outcome is written once and agrees with what happened before.
- supervisor: no process is left behind unless it could not be killed, what is
  reported is true and, when
  nothing fails, accepted; a block, a lost core, a deadline and an interruption
  all stop the child.
- budgets: no run exceeds its limits however calls overlap; usage is neither lost
  nor counted twice; a call finds the reservation it settles.
- repetition: a call is blocked exactly when what came before it was the same
  three times, restarts, evictions and departed clients included as far as the code can.
- providers: what the client is told, what is recorded and what the provider did
  agree; a translation keeps the order, and the gateway takes back what it gave.
- journal: a caller is told the truth; Close neither panics nor hangs.
- delivery: no event is lost, marked delivered that was not, or given up early;
  two senders do not work on one event while its lease lasts; events get through.
- remote policy: no policy loosens the local limits, and none is forgotten.


## 2. Modules

`ExecutionRow` has no state: the type of a row, and each statement of
`storage/executions.go` as a guard and a function on rows. `CanFinish` and
`FinishSources` are the WHERE clauses of `FinishExecution`, `WellFormed` its early
errors; `AcceptedWhenActive`, `AcceptedWhenBlocked` and `BlockedResult` are the
finish handler's tests before the store sees a request. `RunRegistry` and
`Supervision` use it, so both mean the same by "the row takes this write".

`ExecutionLifecycle` is the abstract specification of the table: begin once, run
once, trip, conclude once with an outcome that agrees with the history, or be
interrupted by a core that starts. `RunRegistry` implements it (`LifecycleSpec`).

`RunRegistry` is the core. A goroutine is a member of `Handlers` with a `pc`,
the run it serves (`job`), the pointer to a record it holds (`rec`) and the locals
of a finish (`fin`) or of a blocked call (`kept`). Each action is one critical
section of `Registry.mu` or one transaction:

| code | actions |
|---|---|
| `Registry.Register` | `RegisterReserve`, `RegisterStart`, then `RegisterReady` or `RegisterUndo` |
| `HTTPHandler.Running` | `MarkRunning` |
| `authenticateExecution`, `finalizePolicyBlock` | `Authenticate`, then `CallAllowed`, `RecordBlock`, `BlockAlreadyRecorded` or `BlockNotRecorded`, then `Notify` |
| `HTTPHandler.Signals`, `Registry.Subscribe` | `Subscribe`, then `StreamNotice`, `StreamClosed` or `StreamDisconnect`, then `Release` |
| `HTTPHandler.Finish`, `Registry.Finish` | `FinishRequest`, `FinishClaim`, `FinishWrite`, then `FinishRemove`, or `FinishUndo` and perhaps `FinishReread` and once more |
| process death, `RunCore` | `Crash`, `Restart`, `StartSecondCore` |

Records are on a heap because a stream's release works on the record it was
given, even when the run has been removed from the map. `delivered`, `asked` and
`acked` are history variables: no guard reads them.

`Supervision` is `virgil run` with one run of the core around it. The supervisor
has a location (`sup`) and the locals of `superviseWithStarter` (`result`, `stop`,
`exitSeen`, `supErr`, `mark` for the background `running` request); each case of
its `select` is an action (`SeeExit`, `SeeCircuitBreak`, `SeeSignalLost`,
`SeeDeadline`, `SeeInterrupt`, `SeeMarked`, `SeeMarkError`). The core's part of a
request is one step. `faults` chooses, per behaviour, what may go wrong: the core
stops (`crash`), a request, an answer or the stream is lost (`network`), a store
call fails (`store`), the group cannot be signalled (`kill`).

The child is a root and its descendants. `ChildExits` ends the root, which may leave
descendants (`child = "left"`) that go on calling the gateway; `Reap` is the goroutine
that waits for the root and then sweeps the group once (`process.go:78`), with a
result in `sweep`; `SeeExit` takes what `Wait` returned, an error of the sweep
included. `TerminateChild` signals the group, `TerminateReturns` follows `Reap`, and
`TerminateFails` is the group that cannot be signalled: the sweep is tried at once and
the root killed alone, with or without success.

`PolicyBudget` is the accounting of gateway calls. A call goes from `Preflight`
over `CheckDaily` (one read) and `Reserve` (one transaction) to the provider, and
is settled by `Settle` (one transaction, as in `PostflightAndAppend`) or by
`SettleFirst` and `SettleSecond` (two, as in `Postflight`). `SettleFails` is the
error that is only logged. `Expire`, `NewDay` and `Restart` are the environment, as is
a core that starts and prunes: `PruneReservations`, then `PruneRuns` or `PruneStops`,
two statements that are not in one transaction. It need not be the core that serves,
so calls of the pruned runs may be in flight, and a reservation that one of them
makes between the statements stops the second by its foreign key. `sent`, `today`, `lost`, `overrun` and `pruned` are history.

`RemotePolicy` has no state: limits, the merge of the local limits with a remote
policy, and what limits allow. One count, one cost and one allowlist stand for
all, which the code treats alike.

`Outbox` is the table: one row per event and each statement on it. The clock is
what the statements compare it with: whether a row is `ripe` (its next attempt,
or its lease, is over).

`DeliveryPromise` is the abstract specification: an event is open, then delivered
if the Control Plane took it, or dead if it was refused or its attempts are used
up, forgotten only once delivered, and final unless a sender lost its lease.
`Delivery` implements it (`DeliveryKept`).

`Delivery` is every core that has the database open, from `Append` to the Control
Plane. A call that ends has a state per event (`caller`), the loop of a core a
location (`pc`) and its locals (`batch`, `accepted`, `invalid`, `failing`):

| code | actions |
|---|---|
| `Journal.Append` | `Append_` (the lock), `Enqueue` (the channel), `GiveUpWaiting` (the context) |
| the writer's goroutine | `Write` |
| `Journal.Close`, the end of `RunCore` | `Stop`, `CloseChannel`, `Exit` |
| `syncControlPlanePolicy`, `CurrentPolicy`, `CacheAndApplyRemotePolicy` | `Sync`, `SyncFails`, `SyncRevoked` |
| `DrainControlPlane`, `Lease`, `SendBatch` | `DrainLease`, `SendBatch` |
| the fifteen seconds of an attempt are over in a request | `Hang` |
| `Ack`, `DeadLetter`, the two statements of `Fail` | `Settle`, then `Fail` for a row it has read; `SettleFails`, `EndBatch` |
| the idle interval | `EndRound`, `Interval` |
| start with pruning and the cached policy; process death | `Start`, `Crash` |
| the clock | `Elapse` |

`Conversations` has no state: the two request translations as folds over items,
in which the text of an item is its place, and the replies as an agent sends them
back. `ProviderStreams` has none either: the frames that a provider may send next,
and what each of the five stream readers makes of a frame. Usage is a frame of the
translated route only, where a figure that cannot be is found after the response that
has it was written (`Completed`, `translateChatFrame`).

`Repetition` is the three caches and the rows: what a handler makes of an entry,
how an entry enters a cache, fills it from a row, is saved, evicted, and forgotten
by a restart. `Gateway` extends both with the handlers of the five routes (`chat`,
`anthropic`: chat translated for Anthropic, `responses`, `translated`: Responses
for a chat backend, `messages`):

| code | actions |
|---|---|
| the handlers' start | `Ask` |
| `Engine.Preflight`, repetition checks | `CheckCached`, `CheckSaved`, `FillCache`; the other rules: `Admit`, `Block` |
| the provider's answer, whole | `NoAnswer`, `WholeReply` |
| the stream loops | `Open`, `ReceiveFrame` (with `Refute`), `Cut`, `Leave` |
| `RecordToolCalls`, `RecordProviderOutcome` | `RecordCalls`, `RecordOutcome`, each followed by `Save` |
| `POST /v1/tool-results`, `RecordToolResult` | `ReportResult`, `Save` |
| the handlers' end | `Return` |
| a restart; a core that starts and prunes, after it or beside it | `Restart`, `Prune` |

What a client was told is in `told`: a reply, a stream that is done, one that was done
and then `refuted` by an error, an error, or nothing more because the client has left
(`cut`). A client can leave while a whole reply is read (a provider error on every
route), before it is written (`Unread`), at a frame (`Unwritten`), or between two: the
Responses and Messages streams may then take it for a provider that broke off
(`CutShort`). `fault` says what really happened and `code` what is recorded.

`streak`, `reported` and `lost` are history variables: what really happened in a run,
which results came in, and which counts the engine may have wrong. `lost` is marked
by causes only (a save that fails, is overtaken or cut off by a stop; a row that is
read while it changes; a run that is recorded without being in memory; a run that
is pruned; a reply that is refused when the client has it; a client that has left and
is taken for a provider's error; two things that look alike to the route), never by comparing the engine
with the truth: that is what the properties do.

The modules `MC...` give the constants of the runs. The theorems are in
`RunRegistryProofs`, `SupervisionProofs`, `PolicyBudgetProofs`, `DeliveryProofs`,
`GatewayProofs` and, for the repetition counts, `RepetitionProofs`; the lemmas about what the models fold over
sets and sequences in `FoldProofs`, and those about the translations in
`ConversationProofs`.

Definitions whose name begins with `Mut` are not part of the model: each is the
definition after it, as a bug in that code would change it, and the property it
is listed with in `PROJECT.json` fails when it is put in place.


## 3. What TLC checks

| run | question | result |
|---|---|---|
| `registry` | Three goroutines, one run, a store that may fail: is a token good only while the outcome is open (`TokenImpliesActive`); does a stream end after a finish, and a recorded block reach a runner that listens (`StreamEndsAfterFinish`, `BlockReachesStream`)? | holds |
| `registry_faults` | The same with crashes, a second core and writes that fail after their commit: `TypeOK`, `NoChannelPanic`, `SoleFinisher`, `AckedIsFinal`, `OneCircuitBreak`, `NoticeIsTrue`, and the refinement `LifecycleSpec` | holds |
| `registry_second_core` | Does a second core leave a live core's runs alone? | **violated**, finding 1 |
| `supervision` | Every race of the select loop, without faults and with all of them, with a root that leaves descendants and a sweep that may fail: `TypeOK`, `ReportIsAccepted`, `NoOrphan`, `TerminationIsTruthful`, `SuccessIsRecorded`, and the liveness of `TrippedChildStops`, `CoreLossStopsChild`, `StopRequestReturns` | holds |
| `supervision_early_block` | Is every policy block recorded? | **violated**, finding 2 |
| `budget` | Two runs, two concurrent calls, three reservations, a midnight or a core that prunes while calls are in flight, everything failing: `TypeOK` (no overflow), `CallLimitHolds`, `SpendingWithinLimits`, `UsageIsSum`, `ReservationIsThere`, `DailyOvershootBounded` | holds |
| `budget_pruned` | Does a run's budget survive a restart? | **violated**, finding 3 |
| `delivery` | Two cores, a restart, a policy, two events, everything that may fail, a Control Plane that may hang but answers again and again: `TypeOK`, `OneSender`, `ToldTheTruth`, `NoSendOnClosedChannel`, `NeverLooserThanLocal`, `NoPolicyIsForgotten`, the refinement `DeliveryKept`, and the liveness of `EventsSettle` and `CloseReturns` | holds |
| `delivery_hang` | Is an event given up in the end that is sent again and again? | **violated**, finding 4 |
| `delivery_idle` | Does a loop with nothing to do wait? | **violated**, finding 5 |
| `gateway` | Five routes, whole and streaming, alone and two calls at a time, with tool results, full caches, failed and late saves, restarts, a core beside that prunes, and clients that leave at any point: `TypeOK`, `BlocksWhenDue`, `RestartRestores`, `ClientAndRecordAgree`, `TakesBackItsReplies`, `ItemsAgree`, `RequestKeepsOrder` | holds |
| `gateway_disconnect` | Do clients that leave block no run? | **violated**, finding 6 |

### Bounds, and why they are enough

- `Runs = {r1}` in `RunRegistry`: runs share the mutex and the table but no data,
  and a step touches one run only (recovery, which touches all, treats each row
  alone). What interleaves are handlers of one run.
- Three `Handlers`: a finish, a stream and a blocked call, or two finishes and a
  registration, the largest group that has something to say to each other. The
  proofs lift this bound for all safety properties (section 5).
- `Addrs` bounds the registrations of one life of the core: two, so that a run
  is registered again after an undone registration or a finish; one in
  `registry`, where there is no need for a second.
- `MaxRestarts = 1` in `registry_faults`: a restart starts from an empty heap, and
  recovery is idempotent. `registry` has none: `TokenImpliesActive` across
  crashes is proved.
- `Inputs`: a normal exit, a stopped child, a child that could not be stopped and
  a code that the store refuses; the other states a runner may report differ
  from these in no WHERE clause that they reach.
- `FaultSets` in `supervision` is no fault and all faults. A behaviour with fewer
  faults is a behaviour with all of them, as a fault never has to happen;
  `ReportIsAccepted` speaks of the ones without. `MaxRestarts = 2`.
- `PolicyBudget`: calls are limited to two per run and day, so the third
  reservation of `Ids` is the one that must be refused. `MaxInt = 4` stands for
  2^63 - 1: a report over the estimate brings a counter to it, and the next
  reservation or report passes it. One restart, and one midnight or one core that
  prunes (`MaxEvents`), alone or beside the serving one: midnight changes the day's
  counters and pruning the run's, and no guard reads both. No two cores prune at
  once. The limit on the
  total of tokens is off (0) in the runs, and covered by the proofs.
- `ControlPlane = FALSE` in the runs: `TRUE` only takes `Settle` away.

- `Delivery`: what happens in a behaviour is one of the workloads of `MCDelivery`: two
  cores and one event; two cores and a policy; one core that is started twice, with
  an event and a policy; two events, which share a batch and fill the channel. Events
  meet only there, and two cores meet only in the rows and in the cached policy; the
  proofs lift this bound for all safety properties. `MaxAttempts = 2` (10 in the
  code) so that an event is retried and then given up; `BatchLimit = 2` (100);
  `QueueSize = 1` (64) so that the second caller waits for room. The policy is
  looser than the local limits in one field and stricter in others. `MaxStreak = 0`:
  idle rounds are not counted here.
- `delivery_idle` counts them (`MaxStreak = 12`) with a second of 8 units and a
  duration of 12 bits, for 10^9 units and 64 bits: the same product leaves the
  integer after fewer rounds.
- `delivery_hang`: one core, one event, no fault but a Control Plane that hangs.
- `Gateway`: `Threshold = 2` (3 in the code), caches of one run (1024) that
  remember one result (256), two runs, two callers, two tool calls per reply (256).
  What agents do is one of the workloads of `MCGateway`, each of which brings
  together what interacts: one route and one call after the other; two calls of a
  run with a restart, or with a core beside that prunes; more runs than a cache holds;
  tool results reported twice; all conversations of up to three items. A bound on the kinds of steps, rather
  than a product of all of them, keeps the run small. The calls of one route meet
  those of another only in the counts, where both are the same steps. `gateway_disconnect`
  has one agent on one route, caches with room for all runs and a store
  that never fails: nothing but what it asks about goes wrong.

Counters have these bounds in the guards of `Crash`, `Restart`, `NewDay`,
`PruneReservations` and `Preflight`, and nowhere else. Handlers, addresses, requests, runs and IDs are
symmetric where only invariants and `LifecycleSpec`, which does not tell them
apart, are checked; runs with liveness use no symmetry.

Deadlock is not checked: a core that nobody calls or that has stopped for good, a
command that has returned and a gateway that has used up its calls stop, and
rightly so.

### Fairness

`RunRegistry!FairSpec`: weak fairness of `HandlerStep(t)` for each goroutine. The
Go scheduler runs every goroutine that can run, and a store call returns. No
request is ever owed, nor is a disconnect, a crash or a restart.

`Supervision!FairSpec`: weak fairness of the supervisor's steps as a whole, of
the goroutine that waits for the root (`Reap`), of the blocked call's goroutine, of the
stream's and of the background request. The
supervisor's requests carry timeouts (five seconds to mark and finish), so they
are answered or fail. As `select` takes any ready case, no case has fairness of
its own. The child, the user, the clock and the network owe nothing; in
particular the child need not exit and the core need not come back.


`Delivery!HangSpec` is what the code gives and what is assumed of the store:
`GoroutinesRun`, weak fairness of the writer, of a caller with room on the channel,
of the clock, of the loop of the server as a whole, and of the steps of `Close`, all of
them goroutines that can run; and `StoreRecovers`, strong fairness of the good end of a
lease and of a settling: a statement that can succeed again and again does so in the
end. `Delivery!Spec` adds `ControlPlaneAnswers`, strong fairness of a sync and of a
batch that are answered. This is an assumption on the other side of the network and
not the code's doing: the policy, the batch and every `Fail` after it share fifteen
seconds (`controlplane.go:75`), so a Control Plane that answers no batch in time leaves
an event open for ever, which is finding 4. Nothing is owed by callers, by another core,
or by what the answer to a batch says: events may all be refused, and are then given
up. `EventsSettle`
exempts what the code cannot help: a server that stops or is revoked, a
policy that cannot be applied, another core that leases the rows.

`Gateway` has safety properties only.


## 4. Findings

1. `registry_second_core`. `RunCore` recovers the table (`core.go:84`) before it
   opens the listener. A second `virgil` on the same database interrupts the runs
   of the live core and then exits because the port is taken; the live core goes
   on accepting their tokens. `storage/executions.go:271` promises to interrupt
   "runs left active by a previous core process".
2. `supervision_early_block`. `RecordPolicyBlock` takes only a running row, and
   the child runs before its run is marked (`supervisor.go:79`). A call blocked in
   between stops the child but leaves neither policy nor event. `README.md:3`
   says that a block "is recorded and terminates the supervised process tree".
3. `budget_pruned`. Pruning removes the counters of every run started before the
   cutoff, in use or not. `retention.go:23` says "Prune completed policy_runs",
   `README.md:38` that the counters "survive restart".
4. `delivery_hang`. A Control Plane that hangs on the batch uses up the fifteen seconds
   that policy, batch and outbox share (`controlplane.go:75`). The first `Fail` returns an
   error and the drain ends: the rows stay `sending` with the attempts they had, are leased
   again when the lease ends, and are neither delivered nor given up. `README.md:425` says
   that "repeated permanent failures move to `dead_letter`".
5. `delivery_idle`. The idle interval is `5 * (1 << idleStreak)` seconds, multiplied
   before it is compared with the cap (`controlplane.go:93`), and the streak is never
   capped. After 31 idle rounds, about an hour, the product is negative; from the 55th
   on it is zero, and the loop asks the Control Plane without waiting at all.
   Line 90 says "Backoff when idle", line 69 "maxInterval = 120 * time.Second".
6. `gateway_disconnect`. `streamResponses` looks at its context only before it reads. A
   client that leaves while it reads makes the read fail, and the outcome stays
   `transport_error` (`responses.go:467`), which is counted as an error of the provider;
   so it is on the messages route (`messages.go:376`) and for a whole reply on every
   route. Three of them block the run. The design document (line 174) says that client
   cancellation does not become a circuit break.

In other places, too, the documents say one thing and the code does another. These have
no run of their own: the properties of the passing runs name them as exceptions, or say
how far they go.

- The row of a tree that could not be killed. When the root of a blocked run ends by
  itself before the supervisor decides, and the sweep of its group fails, that error is
  only joined into what `Wait` returns (`process.go:78`); nobody calls `Terminate`, and the
  row says `blocked` and `succeeded` (`supervisor.go:150-161`) while descendants run. The
  design document (line 202) says "Virgil must not claim that the circuit break
  succeeded". `TerminationIsTruthful` excepts a failed sweep, and no more; `NoOrphan` excepts it and a
  failure that the command reports.
- A lost core. The supervisor makes one attempt to finish (`supervisor.go:168`); the next
  core records the run as interrupted, where the design document (line 276) says "persist
  `gateway_failed` when connectivity returns". `SuccessIsRecorded` speaks of commands that
  return no error.
- The daily limits. They are read before a call and increased after it (`policy.go:155`);
  calls in flight pass them together, although migration 005 calls them enforced and
  "non-bypassable by callers". `DailyOvershootBounded` says by how much.
- A reply that is refused after it is complete. The translated stream writes
  `response.completed` and is inspected afterwards (`responses.go:294`). A usage with more
  cached tokens than tokens makes it a provider error: an error event follows the reply,
  whose calls the client has and the repetition rule does not count, although
  `README.md:38` says that three identical provider tool calls block the next request.
  The client has been told (`refuted`), and the sequence of the run's calls is in `lost`.
- A stream of the messages route that fails just ends (`messages.go:377`), where the
  architecture document (line 55) says "A provider error after stream headers are sent
  is emitted as a final structured SSE error". `ClientAndRecordAgree` excepts it.
- Repetition after a restart. Counts are saved, and a check of a run that is not in
  memory reads its row (`repetition.go:75`, `92-110`): a sequence goes on after a restart
  and may block the first call, where `README.md:38` says that the sequences "reset on
  gateway restart". `RestartRestores` states what the code says of itself, "restart
  restores from here".

The properties exempt, and the models show, other behaviour a reader of the code may
not expect:

- Repetition. What is restored from SQLite after a restart is not all: what
  the last tool error was and which results were seen is lost. A run that a full cache
  dropped, and that is recorded before it is checked, is counted from one, and its
  row with it (line 54). An older count may overwrite a newer one (line 78).
- Custom tool calls of Responses are told apart by name only (`responses.go:379`);
  the messages route has one code for all HTTP errors and counts a client that
  leaves before the answer as a transport error (`messages.go:197`). The anthropic route
  takes a whole reply that cannot be written for an error of the provider, its calls
  counted all the same (`anthropic.go:399`).
- A tool block of Anthropic that announces the input `{}` and then sends deltas gets
  arguments that are no object (`anthropic.go:526`), so that the gateway refuses the
  conversation when it comes back; so it does with a reply without text or calls.
- A stream whose text is all empty numbers its calls one too high
  (`responses_chat.go:493`). Neighbouring assistant items stay separate messages,
  although the comment at line 179 speaks of alternating turns.
- Budgets. A second `virgil` prunes before it finds the port taken (`core.go:87`). Calls in
  flight then lose their reservation: they are settled by nothing, which is only logged.
- Delivery. A save of a policy that fails after its commit makes every later round
  fail before events are delivered, until a newer version or a restart. Ten failed
  attempts dead-letter an event, whatever the reason; one event that cannot be
  exported fails its batch (`client.go:148`). The events of policy blocks have no outbox
  row (`sqlite.go:220`) and never reach the Control Plane.


## 5. What is proved

The constants are arbitrary, subject to the named `ASSUME`s of the modules: `Nil`
and `NoRun` are not an address and not a run, inputs, amounts and workloads have
their types, switches are Booleans, sizes and thresholds are positive. Two of them
say more: `FiniteAssumption`, that a sum over reservations and a count of requests
at work are over finite sets, and `MaxCallsAssumption`, that a reply has a positive
number of places for calls (256 in the code, `tool_fingerprint.go:37`).

`RunRegistryProofs`, for any number of runs, goroutines and registrations:

- `TypeCorrect`: `[]TypeOK`. The induction needs `Busy`: a handler that is not
  idle has a run, and one inside a registration, a stream or a finish a record.
- `OneFinisher` and `ChannelsHold`: `[]SoleFinisher` and `[]NoChannelPanic`. Neither is inductive.
  The strengthening `Owned` says that the map points to records of the right run;
  that a handler between the first and the last critical section of a
  registration or a finish holds the record the map points to, and is the only
  one for its run (`Exclusive`); that `ready` and `finishing` tell the others so;
  and that `closed` mirrors the channel.
- `RegistryRefinesLifecycle`: `Spec => LifecycleSpec`. `RowsInv` (a row agrees
  with its history) makes every write of the table a step of the lifecycle; all
  other steps stutter.
- `TokensFollowOutcomes`: `[]TokenImpliesActive` without a second core and
  without ambiguous writes, the two assumptions without which it fails. The
  strengthening adds the handlers that are about to make a token good.
- `AcknowledgedFinishIsFinal`: `[]AckedIsFinal`, with no such assumption: an
  outcome in the table cannot be undone, and the ID cannot be registered again.
- `NoticesAreTrue`: `[]NoticeIsTrue`. `NoticeInv` follows a notice from the handler that
  has persisted the block, through the buffer of the record, to the stream: wherever it is,
  the policy is in the row of the run it belongs to.
- `OneNoticePerRun`: `[]OneCircuitBreak`. `OnceInv` says that a run has one ready record in
  all lives of the core, as its row is begun once; that a record has a notice only once it
  is ready and notified; and that after a delivery its buffer stays empty.

`SupervisionProofs`, whatever is lost and however often the core restarts:

- `TypeCorrect`: `[]TypeOK`, and `NoTreeIsOrphaned`: `[]NoOrphan`. `Tree` relates the
  supervisor's location to the child's: before the start there is none; later on it
  is waited for, or will be, or the supervisor has said that it could not kill it; and
  a root that was waited for leaves descendants only if its group could not be swept.
- `TerminationsAreTrue` and `SuccessesAreRecorded`: `[]TerminationIsTruthful` and
  `[]SuccessIsRecorded`. `Table` says that a policy decision stays in the row, that a
  finish is the last thing that happens to a row, and that it says of the tree what
  the supervisor's result says.
- `ReportsAreAccepted`: `[]ReportIsAccepted`. `Quiet` says of a behaviour without
  faults which states the row may be in at each location of the supervisor, and that
  the report it is about to send is one that such a row takes, whatever the
  background `running` request and the gateway make of the row meanwhile.

`PolicyBudgetProofs`, for any number of runs, calls and reservations, any limits,
estimates and reports:

- `CallLimit`: `[]CallLimitHolds`. What a run was granted is at most what its row
  counts (`Counted`), until it is pruned, and the row is compared before it
  is increased.
- `SpendingHolds`: `[]SpendingWithinLimits`. Settling replaces the reserved amount
  by the reported one. That this lowers every counter needs to know that the
  reservation found is the one made for this call's estimate: `Owned`, which holds
  until the run is pruned. Calls that go on after that have no reservation left or one
  of the run's second life.

- `TypeCorrect`: `[]TypeOK`, that no counter overflows or goes below zero;
  `UsageIsTheSum` and `ReservationsAreThere`: `[]UsageIsSum` and `[]ReservationIsThere`.
  `Sound` says that no amount is negative, that no counter passes `MaxInt` and that a
  call in flight has a reservation that is not settled, or none because its run was
  pruned under it; `Covered` that the counters
  of a run that is not pruned are the sum of its reservations. A sum is a fold over
  a finite set; that it does not depend on the order, and what one more or one
  changed summand makes of it, is proved in `FoldProofs`.
- `DailyOvershoot`: `[]DailyOvershootBounded`. `DayBounded` says that every call of the day
  is counted, lost, or held by a request that is about to count it, and that no more
  calls pass the daily check than there are requests, after the last one that may.

`DeliveryProofs`, for any number of cores, events and policies, any attempts, batch and
queue sizes, and any limits that satisfy their types:

- `MergeNeverLooser`: whatever the merge of local and remote limits allows, the local
  limits allow, for every count, cost and name; `LocalLimitsHold`:
  `[]NeverLooserThanLocal`; `PoliciesAreSaved`: `[]NoPolicyIsForgotten`. The invariant
  is `PolicyInv`: what is in force is the merge of the local limits with a policy
  that the cache has or has had, as versions only grow.
- `TypeCorrect`: `[]TypeOK`. The induction needs `PolicyInv`, for the type of the
  limits, and `HandsFree`: a loop has rows in hand only while it sends and settles.
- `CallersAreTold`, `NoPanicAtClose` and `LeaseExcludes`: `[]ToldTheTruth`,
  `[]NoSendOnClosedChannel` and `[]OneSender`, from the parts of `EventInv`. `CallersInv`:
  an event is stored once, after it was queued once. `HandsInv`: a row in a sender's
  hands is being sent and on lease, or is marked overtaken, so that a lease can
  take only rows that nobody has in hand. `AnswerInv`: the Control Plane has done what
  its answer says.
- `OutboxKeepsPromise`: `Spec => DeliveryKept`. With these invariants each
  statement on the table changes the status of one event, or prunes some, as
  `DeliveryPromise` allows (`StepsAreKept`, `KeptIsPromised`).

`GatewayProofs`, for any number of callers, runs, cached runs and remembered results,
replies of any number of calls and conversations of any length, on all five routes:

- `TypesAreKept`: `[]TypeOK`. `Inv` types every variable and adds what the types do not
  say: `Orderly`, that a cache holds exactly the runs that its order names, each
  once (without which an eviction could drop a run that is not the oldest, or
  leave one behind); and for each handler `Fits`.
- `ClientKnowsTheRecord`: `[]ClientAndRecordAgree`. `StreamOK` follows the two accounts of
  a reply, the calls as the provider made them and as the gateway counts them, frame
  by frame: on the messages route a call is counted when its block stops
  (`BlocksCounted`), on the others all are when the stream ends. A translated
  stream that is refused when it is complete has been refuted, and counts none. `ResultFits` carries the
  agreement on to the end of the handler.
- `RepliesAreTakenBack`: `[]TakesBackItsReplies`. What a client has in full is whole
  (`Complete`, and `BlocksWhole` for the blocks of Anthropic), and a conversation whose
  replies are whole passes both translations, whatever its length
  (`AnthropicTaken`, `ChatTaken`).
- `ItemsAreNumberedAlike`: `[]ItemsAgree`.
- `OrderIsKept`: `[]RequestKeepsOrder`. The translations are folds, and after each item
  the messages so far, joined, are the items so far (`PlacesKeepOrder`).

`RepetitionProofs` goes on from there. Its invariant, `Rep`, is about every sequence
of errors or calls that is not in `lost`:

- `Counted`: the entry in memory, if there is one, counts the true sequence; so does
  the row, unless a handler with the newest count is on its way to it; and so does
  what that handler is about to save. `OneNewest`: it is the only one, as whoever
  records makes all others late. Without these two a save that comes late could
  not be told from one that comes in order.
- `CallsPrinted`: what was called last and its print determine each other, but for a
  custom call; `SeenReported`: the ids in an entry have been reported. They are
  what makes the engine's comparison (`Count`) and the true one (`Extend`) agree;
  for the calls of one reply by induction over the reply (`CallsCountedTruly`), those
  of a refused reply included (`RefuteKeeps`).
- `FillsTrue`: a handler between reading a row and filling the cache has read the truth.

`RowsAreTrue`, `[]RestartRestores`, follows from `Counted`. `ChecksBlockWhenDue`,
`BlocksWhenDue`, needs besides that no other handler's step touches a handler that
waits for its check (`OthersWait`).

`FoldProofs` and `ConversationProofs` hold the lemmas about folds and translations. `FoldLeft`, `FlattenSeq`
and the sums of the community modules are defined by recursion or by folds over
sets, and the induction theorems of the library take an operator as a parameter,
which no installed prover can instantiate. The induction is therefore done on sets:
`LeastSubset` says that a set of subsets of a finite set has a smallest one; a set that
holds 0 and each successor up to n therefore holds all of 0..n (`StepInduction`); with
it a fold is shown to exist, to be unique, and to be the end of a sequence of steps
(`StepsExist`, `FoldTakesSteps`), about which each proof then argues by `StepInduction`
on the set of places where its claim holds.

Every invariant, every action property and both refinements of the passing runs are
proved, then. Only model-checked are the liveness properties, `StreamEndsAfterFinish`,
`BlockReachesStream`, `TrippedChildStops`, `CoreLossStopsChild`, `StopRequestReturns`,
`EventsSettle` and `CloseReturns`: they need fairness and ENABLED.


## 6. What is left out

Left out of the modelled components: the texts of reasons and summaries, exit
codes, PIDs and times in rows; the format of requests, events and the stream;
wrong credentials, which are refused before any state is read; the allowlists
and the remaining early refusals of `Preflight`, which change no counter; the two
signals and the grace periods of `Terminate`, and descendants that have left the process
group, which nothing in the code can reach; graceful shutdown, which is a crash
at a time of its choosing for what is modelled. Costs are natural numbers where
the code has exact rationals. In `Supervision` a core request is atomic; its
inner steps are in `RunRegistry`, and a finish that races a block is answered as
if it came after it, which the handler's second read achieves.

In `Gateway`, texts, options and their refusals, usage figures (but for the one that is
refused too late) and limits on sizes and times are left out; a frame that is refused for any reason is one kind of frame; the
budgets, the allowlists and the settling of a call are `PolicyBudget`'s. The
fingerprint of a call is the call: hashes do not collide. The data race of a check
that reads a count after it has given up the mutex (`repetition.go:90`) returns the old
count or the new one, which is a check before or after the step that writes it.

In `Delivery`, what is in an event, an export or a request is left out, as are
retry delays, of which only the end matters; `Enroll` and `SetCredential`, which the
executable never calls; `SaveContent` and the readers of the journal. The rows of a
batch are settled in any order, where the code has the order of the batch.

Not modelled: the settings store (one mutex and a rename); `DrainOnce` and
`DrainOTLP`, which only tests call; the dashboard and the setup pages, which
read and format; and the pure functions of config, pricing, redaction and telemetry.


## 7. Plan

Done, in this order: `ExecutionRow`, `ExecutionLifecycle`, `RunRegistry` and its
proofs, `Supervision`, `PolicyBudget` and its proofs, `RemotePolicy`, `Outbox`,
`Delivery` with `DeliveryPromise` and its proofs, `Conversations`, `ProviderStreams`,
`Repetition`, `Gateway`, and the proofs of all that the runs check but liveness. The
journal's writer, planned as a module of its own, is part of `Delivery`: an append
ends in the table that the loop reads.

Next modules:

1. The process tree of `Terminate`, with its two signals and its deadline, behind
   the three actions it is in `Supervision`.
2. The settings store.
3. The drainers that only tests call, should the executable start them.
